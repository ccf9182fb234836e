------------------------------ MODULE Sessions ------------------------------
(***************************************************************************)
(* The sessions of one user in one browser: the server's pairs of access   *)
(* and refresh tokens, and the dashboard's tabs, which share local storage *)
(* and each exchange an expired pair for a new one behind the back of the  *)
(* calls that were denied.                                                 *)
(*                                                                         *)
(* A pair is the number of its issue.  Node runs the code between two      *)
(* awaits without interruption, and so does each tab.                      *)
(***************************************************************************)
EXTENDS Naturals, FiniteSets

CONSTANTS
  Tabs,
  Calls,            \* what calls of the API may be under way at once
  TabOf,            \* the tab of each
  None,
  MaxPairs,         \* no view makes a call once there have been so many pairs
  MaxEvents         \* expiries, sign-ins, logouts, withdrawals and faults together

(* An exchange of a pair, as the tab that waits for it knows it. *)
ExchangeType ==
  [stage : {"find", "delete", "store", "answer", "failed"}, used : Nat \ {0}, made : Nat]

ASSUME SessionAssumption ==
  /\ None \notin ExchangeType
  /\ TabOf \in [Calls -> Tabs]
  /\ {MaxPairs, MaxEvents} \subseteq Nat

VARIABLES
  live,         \* pairs whose refresh token has a RefreshToken document
  fresh,        \* pairs whose access token has not expired
  issued,       \* how many pairs there have been
  stored,       \* the pair in local storage, 0 if there is none
  signedIn,     \* accessToken of the tab's auth store is set
  page,         \* where the router has taken the tab
  call,         \* the state of each call, its pair, and whether it has had a refresh
  refresh,      \* its exchange of a pair, None unless isRefreshing
  leaving,      \* the pair its logout is about, 0 if it has none under way
  expiries, signIns, logouts, withdrawals, faults,   \* how much of each
  overlapped    \* two tabs have exchanged pairs at once

server == <<live, fresh, issued>>
browser == <<stored, signedIn, page>>
events == <<expiries, signIns, logouts, withdrawals, faults>>

vars == <<live, fresh, issued, stored, signedIn, page, call, refresh, leaving,
          expiries, signIns, logouts, withdrawals, faults, overlapped>>

MayHappen == expiries + signIns + logouts + withdrawals + faults < MaxEvents

Idle == [state |-> "idle", pair |-> 0, retried |-> FALSE]

(* All tabs are open on the dashboard, signed in and with the user's       *)
(* profile loaded.                                                         *)
Init ==
  /\ live = {1}
  /\ fresh = {1}
  /\ issued = 1
  /\ stored = 1
  /\ signedIn = [t \in Tabs |-> TRUE]
  /\ page = [t \in Tabs |-> "dashboard"]
  /\ call = [c \in Calls |-> Idle]
  /\ refresh = [t \in Tabs |-> None]
  /\ leaving = [t \in Tabs |-> 0]
  /\ expiries = 0
  /\ signIns = 0
  /\ logouts = 0
  /\ withdrawals = 0
  /\ faults = 0
  /\ overlapped = FALSE

(* The calls of a tab in a state; the queued ones are its failedQueue. *)
Of(t, state) == {c \in Calls : TabOf[c] = t /\ call[c].state = state}

(* Where the guard of the router lets a push of the login page end.        *)
Landing(t) == IF signedIn[t] THEN "dashboard" ELSE "login"

(* clearAuth, which the auth store of the tab does not hear of.            *)
ClearAuth(t) ==
  /\ stored' = 0
  /\ page' = [page EXCEPT ![t] = Landing(t)]
  /\ UNCHANGED signedIn

----------------------------------------------------------------------------
(* Calls of the API. *)

(* A view makes a call, under the access token in local storage.           *)
Send(c) ==
  /\ page[TabOf[c]] = "dashboard"
  /\ call[c].state = "idle"
  /\ issued < MaxPairs
  /\ call' = [call EXCEPT ![c] = [state |-> "sent", pair |-> stored, retried |-> FALSE]]
  /\ UNCHANGED <<server, browser, refresh, leaving, events, overlapped>>

(* It is answered, or fails otherwise than by a 401, which its view handles. *)
Answer(c) ==
  /\ call[c].state = "sent"
  /\ call' = [call EXCEPT ![c] = Idle]
  /\ UNCHANGED <<server, browser, refresh, leaving, events, overlapped>>

(* authenticate refuses the token, or that there is none.                  *)
Deny(c) ==
  /\ call[c].state = "sent"
  /\ call[c].pair \notin fresh
  /\ call' = [call EXCEPT ![c].state = "denied", ![c].pair = 0]
  /\ UNCHANGED <<server, browser, refresh, leaving, events, overlapped>>

(* A call that was denied after a refresh is not sent a third time.        *)
GiveUp(c) ==
  /\ call[c].state = "denied"
  /\ call[c].retried
  /\ call' = [call EXCEPT ![c] = Idle]
  /\ UNCHANGED <<server, browser, refresh, leaving, events, overlapped>>

(* There is nothing to refresh with. *)
SignOut(c) ==
  /\ call[c].state = "denied"
  /\ ~call[c].retried
  /\ stored = 0
  /\ call' = [call EXCEPT ![c] = Idle]
  /\ ClearAuth(TabOf[c])
  /\ UNCHANGED <<server, refresh, leaving, events, overlapped>>

(* A refresh of the tab is under way: the call joins failedQueue.          *)
Wait(c) ==
  /\ call[c].state = "denied"
  /\ ~call[c].retried
  /\ stored # 0
  /\ refresh[TabOf[c]] # None
  /\ call' = [call EXCEPT ![c].state = "queued"]
  /\ UNCHANGED <<server, browser, refresh, leaving, events, overlapped>>

(* Mutant: a refresh is started without a token to do it with. *)
StartRefresh_Unchecked(c) ==
  /\ call[c].state = "denied"
  /\ ~call[c].retried
  /\ refresh[TabOf[c]] = None
  /\ call' = [call EXCEPT ![c].state = "refreshing", ![c].retried = TRUE]
  /\ refresh' = [refresh EXCEPT ![TabOf[c]] = [stage |-> "find", used |-> stored, made |-> 0]]
  /\ overlapped' = (overlapped \/ \E u \in Tabs : refresh[u] # None)
  /\ UNCHANGED <<server, browser, leaving, events>>

(* There is none: this call starts one. *)
StartRefresh(c) ==
  /\ call[c].state = "denied"
  /\ ~call[c].retried
  /\ stored # 0
  /\ refresh[TabOf[c]] = None
  /\ call' = [call EXCEPT ![c].state = "refreshing", ![c].retried = TRUE]
  /\ refresh' = [refresh EXCEPT ![TabOf[c]] = [stage |-> "find", used |-> stored, made |-> 0]]
  /\ overlapped' = (overlapped \/ \E u \in Tabs : refresh[u] # None)
  /\ UNCHANGED <<server, browser, leaving, events>>

----------------------------------------------------------------------------
(* The exchange of a pair on the server: refresh in auth.service.ts. *)

At(t, stage) == refresh[t] # None /\ refresh[t].stage = stage

(* findRefreshToken; the user is always found, and active.                 *)
FindToken(t) ==
  /\ At(t, "find")
  /\ refresh' = [refresh EXCEPT ![t].stage =
                   IF refresh[t].used \in live THEN "delete" ELSE "failed"]
  /\ UNCHANGED <<server, browser, call, leaving, events, overlapped>>

(* Mutant: all tokens of the user are deleted. *)
DeleteToken_OfUser(t) ==
  /\ At(t, "delete")
  /\ live' = {}
  /\ refresh' = [refresh EXCEPT ![t].stage = "store"]
  /\ UNCHANGED <<fresh, issued, browser, call, leaving, events, overlapped>>

(* The used token is deleted, if no other exchange has done so.            *)
DeleteToken(t) ==
  /\ At(t, "delete")
  /\ live' = live \ {refresh[t].used}
  /\ refresh' = [refresh EXCEPT ![t].stage = "store"]
  /\ UNCHANGED <<fresh, issued, browser, call, leaving, events, overlapped>>

(* issueTokenPair and storeRefreshToken.                                   *)
StoreToken(t) ==
  /\ At(t, "store")
  /\ issued' = issued + 1
  /\ live' = live \cup {issued'}
  /\ fresh' = fresh \cup {issued'}
  /\ refresh' = [refresh EXCEPT ![t].stage = "answer", ![t].made = issued']
  /\ UNCHANGED <<browser, call, leaving, events, overlapped>>

(* A call of the exchange rejects, or its request or answer is lost.       *)
FailRefresh(t) ==
  /\ refresh[t] # None
  /\ refresh[t].stage # "failed"
  /\ MayHappen
  /\ faults' = faults + 1
  /\ refresh' = [refresh EXCEPT ![t].stage = "failed"]
  /\ UNCHANGED <<server, browser, call, leaving, expiries, signIns, logouts, withdrawals,
                 overlapped>>

----------------------------------------------------------------------------
(* Its end in the tab. *)

(* Calls that are sent again, under the token now in local storage. *)
Resent(some, pair) ==
  [c \in Calls |->
     IF c \in some THEN [call[c] EXCEPT !.state = "sent", !.pair = pair] ELSE call[c]]

(* Calls that are rejected. *)
Rejected(some) == [c \in Calls |-> IF c \in some THEN Idle ELSE call[c]]

(* Mutant: the new refresh token is not kept. *)
RefreshAnswered_AccessOnly(t) ==
  /\ At(t, "answer")
  /\ call' = Resent(Of(t, "refreshing") \cup Of(t, "queued"), refresh[t].made)
  /\ refresh' = [refresh EXCEPT ![t] = None]
  /\ UNCHANGED <<server, browser, leaving, events, overlapped>>

(* The new pair is kept, and the calls that wait are sent again.           *)
RefreshAnswered(t) ==
  /\ At(t, "answer")
  /\ stored' = refresh[t].made
  /\ call' = Resent(Of(t, "refreshing") \cup Of(t, "queued"), stored')
  /\ refresh' = [refresh EXCEPT ![t] = None]
  /\ UNCHANGED <<server, signedIn, page, leaving, events, overlapped>>

(* Mutant: the calls that wait are not told. *)
RefreshFailed_QueueKept(t) ==
  /\ At(t, "failed")
  /\ call' = Rejected(Of(t, "refreshing"))
  /\ ClearAuth(t)
  /\ refresh' = [refresh EXCEPT ![t] = None]
  /\ UNCHANGED <<server, leaving, events, overlapped>>

(* The calls that wait are rejected, and the browser is signed out.        *)
RefreshFailed(t) ==
  /\ At(t, "failed")
  /\ call' = Rejected(Of(t, "refreshing") \cup Of(t, "queued"))
  /\ ClearAuth(t)
  /\ refresh' = [refresh EXCEPT ![t] = None]
  /\ UNCHANGED <<server, leaving, events, overlapped>>

----------------------------------------------------------------------------
(* Signing in and out. *)

(* The login form, with its three calls as one step. *)
SignIn(t) ==
  /\ page[t] = "login"
  /\ MayHappen
  /\ signIns' = signIns + 1
  /\ issued' = issued + 1
  /\ live' = live \cup {issued'}
  /\ fresh' = fresh \cup {issued'}
  /\ stored' = issued'
  /\ signedIn' = [signedIn EXCEPT ![t] = TRUE]
  /\ page' = [page EXCEPT ![t] = "dashboard"]
  /\ UNCHANGED <<call, refresh, leaving, expiries, logouts, withdrawals, faults, overlapped>>

(* The logout button: the login page is pushed before logout, which waits  *)
(* for the server, has cleared the auth store.                             *)
ClickLogout(t) ==
  /\ page[t] = "dashboard"
  /\ leaving[t] = 0
  /\ MayHappen
  /\ logouts' = logouts + 1
  /\ leaving' = [leaving EXCEPT ![t] = stored]
  /\ signedIn' = [signedIn EXCEPT ![t] = @ /\ stored # 0]
  /\ page' = [page EXCEPT ![t] = IF signedIn'[t] THEN "dashboard" ELSE "login"]
  /\ UNCHANGED <<server, stored, call, refresh, expiries, signIns, withdrawals, faults,
                 overlapped>>

(* The server deletes the token. *)
RevokeToken(t) ==
  /\ leaving[t] \in live
  /\ live' = live \ {leaving[t]}
  /\ UNCHANGED <<fresh, issued, browser, call, refresh, leaving, events, overlapped>>

(* The call of logout has returned, or failed: local storage is cleared.   *)
ClearLocally(t) ==
  /\ leaving[t] # 0
  /\ IF leaving[t] \in live
     THEN MayHappen /\ faults' = faults + 1
     ELSE UNCHANGED faults
  /\ stored' = 0
  /\ signedIn' = [signedIn EXCEPT ![t] = FALSE]
  /\ leaving' = [leaving EXCEPT ![t] = 0]
  /\ UNCHANGED <<server, page, call, refresh, expiries, signIns, logouts, withdrawals,
                 overlapped>>

----------------------------------------------------------------------------
(* The rest of the world. *)

(* An access token expires. *)
Expire(n) ==
  /\ n \in fresh
  /\ MayHappen
  /\ expiries' = expiries + 1
  /\ fresh' = fresh \ {n}
  /\ UNCHANGED <<live, issued, browser, call, refresh, leaving, signIns, logouts, withdrawals,
                 faults, overlapped>>

(* logoutAll from another device, or the end of a refresh token's life.    *)
Withdraw(gone) ==
  /\ gone \in {live} \cup {{n} : n \in live}
  /\ gone # {}
  /\ MayHappen
  /\ withdrawals' = withdrawals + 1
  /\ live' = live \ gone
  /\ UNCHANGED <<fresh, issued, browser, call, refresh, leaving, expiries, signIns, logouts,
                 faults, overlapped>>

CallStep(c) ==
  \/ Answer(c) \/ Deny(c) \/ GiveUp(c) \/ SignOut(c) \/ Wait(c)
  \/ StartRefresh(c)

RefreshStep(t) ==
  \/ FindToken(t) \/ DeleteToken(t) \/ StoreToken(t) \/ RefreshAnswered(t)
  \/ RefreshFailed(t)

UserStep(t) == SignIn(t) \/ ClickLogout(t)

LogoutStep(t) == RevokeToken(t) \/ ClearLocally(t)

Next ==
  \/ \E c \in Calls : Send(c) \/ CallStep(c)
  \/ \E t \in Tabs :
       RefreshStep(t) \/ FailRefresh(t) \/ UserStep(t) \/ LogoutStep(t)
  \/ \E n \in fresh : Expire(n)
  \/ \E gone \in {live} \cup {{n} : n \in live} : Withdraw(gone)

(* Calls end and tabs run; users and time do as they like.                 *)
Fairness ==
  /\ \A c \in Calls : WF_vars(CallStep(c))
  /\ \A t \in Tabs : WF_vars(RefreshStep(t))

Spec == Init /\ [][Next]_vars /\ Fairness

----------------------------------------------------------------------------
(* Correctness. *)

CallType ==
  [state : {"idle", "sent", "denied", "queued", "refreshing"}, pair : Nat,
   retried : BOOLEAN]

(* Every variable keeps its type; a refresh is only made with a token.     *)
TypeOK ==
  /\ live \subseteq 1..issued
  /\ fresh \subseteq 1..issued
  /\ issued \in Nat
  /\ stored \in 0..issued
  /\ signedIn \in [Tabs -> BOOLEAN]
  /\ page \in [Tabs -> {"dashboard", "login"}]
  /\ call \in [Calls -> CallType]
  /\ refresh \in [Tabs -> ExchangeType \cup {None}]
  /\ leaving \in [Tabs -> 0..issued]
  /\ {expiries, signIns, logouts, withdrawals, faults} \subseteq Nat
  /\ overlapped \in BOOLEAN

(* The pair in local storage can be refreshed, unless its token has been   *)
(* withdrawn, or a tab that has deleted it will replace or clear the pair: *)
(* rotations, logouts and sign-ins of several tabs never leave behind a    *)
(* dead one.                                                               *)
StoredIsLive ==
  stored # 0 /\ stored \notin live /\ withdrawals = 0 =>
    \E t \in Tabs :
      \/ leaving[t] = stored
      \/ /\ refresh[t] # None
         /\ refresh[t].used = stored
         /\ refresh[t].stage \in {"store", "answer", "failed"}

(* The browser is not signed out unless someone has logged out, a refresh  *)
(* token was withdrawn, a refresh failed or two tabs refreshed at once.    *)
SignedOutForACause ==
  logouts = 0 /\ withdrawals = 0 /\ faults = 0 /\ ~overlapped => stored # 0

(* Every call comes to an end, however often tokens expire under it and    *)
(* however its tab's refreshes end.                                        *)
CallsEnd ==
  \A c \in Calls : []<>(call[c].state = "idle")
=============================================================================
