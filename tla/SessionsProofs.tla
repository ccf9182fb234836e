--------------------------- MODULE SessionsProofs ---------------------------
(***************************************************************************)
(* Theorems of Sessions, for all sets of tabs and calls, and all bounds.   *)
(***************************************************************************)
EXTENDS Sessions, TLAPS

(* The stages of an exchange once the used token is gone, or may be.       *)
Past == {"store", "answer", "failed"}

(* An exchange is about pairs that have been issued.                       *)
Exchanges ==
  \A t \in Tabs : refresh[t] # None =>
    /\ refresh[t].used \in 1..issued
    /\ refresh[t].made \in 0..issued
    /\ refresh[t].stage = "answer" => refresh[t].made # 0

(* The pair that an answer brings is nobody else's yet: no tab can have    *)
(* used it up, and the server has it unless tokens were withdrawn.         *)
Own(t) ==
  LET pair == refresh[t].made IN
  /\ stored # pair
  /\ \A u \in Tabs : leaving[u] # pair
  /\ \A u \in Tabs : refresh[u] # None =>
       /\ refresh[u].used # pair
       /\ u # t /\ refresh[u].stage = "answer" => refresh[u].made # pair
  /\ withdrawals = 0 => pair \in live

AnswersAreNew == \A t \in Tabs : At(t, "answer") => Own(t)

(* While nothing has given a cause to sign the browser out no tab has left *)
(* the dashboard, and of the one exchange there may be the stored pair is  *)
(* the subject, and with the server until the exchange has deleted it.     *)
NoCause == logouts = 0 /\ withdrawals = 0 /\ faults = 0 /\ ~overlapped

Alone ==
  ~overlapped =>
    \A t, u \in Tabs : refresh[t] # None /\ refresh[u] # None => t = u

Untroubled ==
  NoCause =>
    /\ stored # 0
    /\ \A t \in Tabs : page[t] = "dashboard" /\ leaving[t] = 0
    /\ \A t \in Tabs : refresh[t] # None =>
         /\ refresh[t].used = stored
         /\ refresh[t].stage # "failed"
    /\ stored \notin live => \E t \in Tabs : refresh[t] # None /\ refresh[t].stage \in Past

IInv ==
  /\ TypeOK
  /\ Exchanges
  /\ AnswersAreNew
  /\ StoredIsLive
  /\ Alone
  /\ Untroubled

----------------------------------------------------------------------------
(* Steps by what they change.                                              *)

(* Calls that are sent, denied, answered, given up or made to wait.        *)
CallOnly(c) == Send(c) \/ Answer(c) \/ Deny(c) \/ GiveUp(c) \/ Wait(c)

LEMMA CallOnlyStep ==
  ASSUME TypeOK, NEW c \in Calls, CallOnly(c)
  PROVE  /\ UNCHANGED <<server, browser, refresh, leaving, events, overlapped>>
         /\ call' \in [Calls -> CallType]
<1>1. stored \in Nat /\ call \in [Calls -> CallType]
  BY DEF TypeOK
<1>2. Idle \in CallType
  BY DEF Idle, CallType
<1>3. CASE Send(c)
  BY <1>1, <1>3 DEF Send, CallType
<1>4. CASE Answer(c) \/ GiveUp(c)
  BY <1>1, <1>2, <1>4 DEF Answer, GiveUp
<1>5. CASE Deny(c)
  <2>1. [call[c] EXCEPT !.state = "denied", !.pair = 0] \in CallType
    BY <1>1 DEF CallType
  <2>2. call' = [call EXCEPT ![c] = [call[c] EXCEPT !.state = "denied", !.pair = 0]]
    BY <1>5 DEF Deny
  <2> QED
    BY <1>1, <1>5, <2>1, <2>2 DEF Deny
<1>6. CASE Wait(c)
  BY <1>1, <1>6 DEF Wait, CallType
<1> QED
  BY <1>3, <1>4, <1>5, <1>6 DEF CallOnly

LEMMA EndOfCalls ==
  ASSUME TypeOK, NEW some
  PROVE  /\ Rejected(some) \in [Calls -> CallType]
         /\ \A pair \in Nat : Resent(some, pair) \in [Calls -> CallType]
BY DEF TypeOK, Rejected, Resent, CallType, Idle

(* An exchange moves on to another stage. *)
LEMMA StageMoves ==
  ASSUME TypeOK, Exchanges, NEW t \in Tabs, refresh[t] # None,
         NEW stage \in {"delete", "store", "failed"},
         refresh' = [refresh EXCEPT ![t].stage = stage]
  PROVE  /\ refresh' \in [Tabs -> ExchangeType \cup {None}]
         /\ refresh'[t] # None
         /\ refresh'[t].stage = stage
         /\ refresh'[t].used = refresh[t].used /\ refresh'[t].made = refresh[t].made
         /\ \A u \in Tabs : u # t => refresh'[u] = refresh[u]
         /\ \A u \in Tabs : refresh'[u] # None <=> refresh[u] # None
<1>1. refresh[t] \in ExchangeType
  BY DEF TypeOK
<1>2. [refresh[t] EXCEPT !.stage = stage] \in ExchangeType
  BY <1>1 DEF ExchangeType
<1>3. refresh'[t] = [refresh[t] EXCEPT !.stage = stage]
  BY DEF TypeOK
<1> QED
  BY <1>1, <1>2, <1>3, SessionAssumption DEF TypeOK, ExchangeType

----------------------------------------------------------------------------
(* The types.                                                              *)

LEMMA TypeInitial == Init => TypeOK /\ Exchanges
<1> SUFFICES ASSUME Init PROVE TypeOK /\ Exchanges
  OBVIOUS
<1>1. Idle \in CallType
  BY DEF Idle, CallType
<1>2. /\ live \subseteq 1..issued /\ fresh \subseteq 1..issued
      /\ issued \in Nat /\ stored \in 0..issued
  BY DEF Init
<1>3. call \in [Calls -> CallType] /\ leaving \in [Tabs -> 0..issued]
  BY <1>1 DEF Init
<1>4. refresh \in [Tabs -> ExchangeType \cup {None}] /\ Exchanges
  BY DEF Init, Exchanges
<1>5. signedIn \in [Tabs -> BOOLEAN] /\ page \in [Tabs -> {"dashboard", "login"}]
  BY DEF Init
<1>6. {expiries, signIns, logouts, withdrawals, faults} \subseteq Nat
  BY DEF Init
<1>7. overlapped \in BOOLEAN
  BY DEF Init
<1> QED
  BY <1>2, <1>3, <1>4, <1>5, <1>6, <1>7 DEF TypeOK

LEMMA TypeStep ==
  ASSUME TypeOK, Exchanges, [Next]_vars
  PROVE  TypeOK' /\ Exchanges'
<1> USE SessionAssumption
<1>1. ASSUME NEW c \in Calls, CallOnly(c) PROVE TypeOK' /\ Exchanges'
  BY <1>1, CallOnlyStep DEF TypeOK, Exchanges, server, browser, events
<1>2. ASSUME NEW c \in Calls, SignOut(c) PROVE TypeOK' /\ Exchanges'
  <2>1. call' \in [Calls -> CallType] /\ stored' = 0
    BY <1>2 DEF SignOut, ClearAuth, TypeOK, CallType, Idle
  <2>2. page' \in [Tabs -> {"dashboard", "login"}]
    BY <1>2 DEF SignOut, ClearAuth, TypeOK, Landing
  <2> QED
    BY <1>2, <2>1, <2>2 DEF SignOut, ClearAuth, TypeOK, Exchanges, server, events
<1>3. ASSUME NEW c \in Calls, StartRefresh(c) PROVE TypeOK' /\ Exchanges'
  <2>1. TabOf[c] \in Tabs
    OBVIOUS
  <2>2. call' \in [Calls -> CallType]
    BY <1>3 DEF StartRefresh, TypeOK, CallType
  <2>3. [stage |-> "find", used |-> stored, made |-> 0] \in ExchangeType
    BY <1>3 DEF StartRefresh, TypeOK, ExchangeType
  <2>4. refresh' = [refresh EXCEPT ![TabOf[c]] = [stage |-> "find", used |-> stored, made |-> 0]]
    BY <1>3 DEF StartRefresh
  <2>5. refresh' \in [Tabs -> ExchangeType \cup {None}]
    BY <2>3, <2>4 DEF TypeOK
  <2>6. overlapped' \in BOOLEAN /\ stored \in 1..issued
    BY <1>3 DEF StartRefresh, TypeOK
  <2> QED
    BY <1>3, <2>1, <2>2, <2>4, <2>5, <2>6
    DEF StartRefresh, TypeOK, Exchanges, server, browser, events
<1>4. ASSUME NEW t \in Tabs, FindToken(t) PROVE TypeOK' /\ Exchanges'
  <2>1. PICK stage \in {"delete", "failed"} : refresh' = [refresh EXCEPT ![t].stage = stage]
    BY <1>4 DEF FindToken
  <2>2. refresh[t] # None
    BY <1>4 DEF FindToken, At
  <2> QED
    BY <1>4, <2>1, <2>2, StageMoves
    DEF FindToken, TypeOK, Exchanges, server, browser, events
<1>5. ASSUME NEW t \in Tabs, DeleteToken(t) PROVE TypeOK' /\ Exchanges'
  <2>1. refresh[t] # None /\ refresh' = [refresh EXCEPT ![t].stage = "store"]
    BY <1>5 DEF DeleteToken, At
  <2> QED
    BY <1>5, <2>1, StageMoves DEF DeleteToken, TypeOK, Exchanges, browser, events
<1>6. ASSUME NEW t \in Tabs, StoreToken(t) PROVE TypeOK' /\ Exchanges'
  <2>1. refresh[t] \in ExchangeType /\ issued' = issued + 1 /\ issued' \in Nat
    BY <1>6 DEF StoreToken, At, TypeOK
  <2>2. [refresh[t] EXCEPT !.stage = "answer", !.made = issued'] \in ExchangeType
    BY <2>1 DEF ExchangeType
  <2>3. refresh' = [refresh EXCEPT ![t] = [refresh[t] EXCEPT !.stage = "answer", !.made = issued']]
    BY <1>6 DEF StoreToken
  <2>4. refresh' \in [Tabs -> ExchangeType \cup {None}]
    BY <2>2, <2>3 DEF TypeOK
  <2>5. refresh'[t].used = refresh[t].used /\ refresh'[t].made = issued'
    BY <2>1, <2>3 DEF TypeOK, ExchangeType
  <2>6. Exchanges'
    BY <1>6, <2>1, <2>3, <2>5 DEF Exchanges, TypeOK, StoreToken, At
  <2>7. live' \subseteq 1..issued' /\ fresh' \subseteq 1..issued'
    BY <1>6, <2>1 DEF StoreToken, TypeOK
  <2> QED
    BY <1>6, <2>1, <2>4, <2>6, <2>7 DEF StoreToken, TypeOK, browser, events
<1>7. ASSUME NEW t \in Tabs, FailRefresh(t) PROVE TypeOK' /\ Exchanges'
  <2>1. refresh[t] # None /\ refresh' = [refresh EXCEPT ![t].stage = "failed"]
    BY <1>7 DEF FailRefresh
  <2>2. /\ UNCHANGED <<live, fresh, issued, stored, signedIn, page, call, leaving, expiries,
                       signIns, logouts, withdrawals, overlapped>>
        /\ faults' \in Nat
    BY <1>7 DEF FailRefresh, TypeOK, server, browser
  <2>3. refresh' \in [Tabs -> ExchangeType \cup {None}]
    BY <2>1, StageMoves
  <2>4. Exchanges'
    BY <2>1, <2>2, StageMoves DEF Exchanges
  <2> QED
    BY <2>2, <2>3, <2>4 DEF TypeOK
<1>8. ASSUME NEW t \in Tabs, RefreshAnswered(t) PROVE TypeOK' /\ Exchanges'
  <2>1. stored' \in 0..issued /\ stored' \in Nat
    BY <1>8 DEF RefreshAnswered, At, Exchanges, TypeOK
  <2>2. call' \in [Calls -> CallType]
    BY <1>8, <2>1, EndOfCalls DEF RefreshAnswered
  <2> QED
    BY <1>8, <2>1, <2>2 DEF RefreshAnswered, TypeOK, Exchanges, server, events
<1>9. ASSUME NEW t \in Tabs, RefreshFailed(t) PROVE TypeOK' /\ Exchanges'
  <2>1. call' \in [Calls -> CallType]
    BY <1>9, EndOfCalls DEF RefreshFailed
  <2>2. page' \in [Tabs -> {"dashboard", "login"}]
    BY <1>9 DEF RefreshFailed, ClearAuth, TypeOK, Landing
  <2>3. /\ UNCHANGED <<live, fresh, issued, signedIn, leaving, expiries, signIns, logouts,
                       withdrawals, faults, overlapped>>
        /\ stored' = 0 /\ refresh' = [refresh EXCEPT ![t] = None]
    BY <1>9 DEF RefreshFailed, ClearAuth, server, events
  <2>4. refresh' \in [Tabs -> ExchangeType \cup {None}] /\ Exchanges'
    BY <2>3 DEF TypeOK, Exchanges
  <2> QED
    BY <2>1, <2>2, <2>3, <2>4 DEF TypeOK
<1>10. ASSUME NEW t \in Tabs, SignIn(t) PROVE TypeOK' /\ Exchanges'
  <2>1. issued' = issued + 1 /\ issued' \in Nat
    BY <1>10 DEF SignIn, TypeOK
  <2> QED
    BY <1>10, <2>1 DEF SignIn, TypeOK, Exchanges
<1>11. ASSUME NEW t \in Tabs, ClickLogout(t) PROVE TypeOK' /\ Exchanges'
  <2>1. signedIn' \in [Tabs -> BOOLEAN] /\ page' \in [Tabs -> {"dashboard", "login"}]
    BY <1>11 DEF ClickLogout, TypeOK
  <2> QED
    BY <1>11, <2>1 DEF ClickLogout, TypeOK, Exchanges, server
<1>12. ASSUME NEW t \in Tabs, RevokeToken(t) PROVE TypeOK' /\ Exchanges'
  BY <1>12 DEF RevokeToken, TypeOK, Exchanges, browser, events
<1>13. ASSUME NEW t \in Tabs, ClearLocally(t) PROVE TypeOK' /\ Exchanges'
  BY <1>13 DEF ClearLocally, TypeOK, Exchanges, server
<1>14. ASSUME NEW n \in fresh, Expire(n) PROVE TypeOK' /\ Exchanges'
  BY <1>14 DEF Expire, TypeOK, Exchanges, browser
<1>15. ASSUME NEW gone, Withdraw(gone) PROVE TypeOK' /\ Exchanges'
  BY <1>15 DEF Withdraw, TypeOK, Exchanges, browser
<1>16. CASE UNCHANGED vars
  BY <1>16 DEF vars, TypeOK, Exchanges
<1> QED
  BY <1>1, <1>2, <1>3, <1>4, <1>5, <1>6, <1>7, <1>8, <1>9, <1>10, <1>11, <1>12, <1>13, <1>14,
     <1>15, <1>16
  DEF Next, CallStep, CallOnly, RefreshStep, UserStep, LogoutStep

----------------------------------------------------------------------------
(* The pair of an answer stays new until it is stored.                     *)

LEMMA NewStep ==
  ASSUME TypeOK, Exchanges, AnswersAreNew, [Next]_vars
  PROVE  AnswersAreNew'
<1> SUFFICES ASSUME NEW t \in Tabs, At(t, "answer")'
             PROVE  Own(t)'
  BY DEF AnswersAreNew
<1>1. At(t, "answer") => Own(t) /\ refresh[t].made \in 1..issued
  BY DEF AnswersAreNew, Exchanges, At
<1>2. ASSUME NEW c \in Calls, CallOnly(c) PROVE Own(t)'
  BY <1>1, <1>2, CallOnlyStep DEF At, Own, server, browser, events
<1>3. ASSUME NEW c \in Calls, SignOut(c) PROVE Own(t)'
  BY <1>1, <1>3 DEF SignOut, ClearAuth, At, Own, server, events
<1>4. ASSUME NEW c \in Calls, StartRefresh(c) PROVE Own(t)'
  <2>1. TabOf[c] \in Tabs
    BY SessionAssumption
  <2> DEFINE begun == [stage |-> "find", used |-> stored, made |-> 0]
  <2>2. refresh'[TabOf[c]] = begun /\ \A u \in Tabs \ {TabOf[c]} : refresh'[u] = refresh[u]
    BY <1>4, <2>1 DEF StartRefresh, TypeOK
  <2>3. begun.stage = "find" /\ begun.used = stored
    OBVIOUS
  <2>4. t # TabOf[c]
    BY <2>2, <2>3 DEF At
  <2> HIDE DEF begun
  <2> QED
    BY <1>1, <1>4, <2>2, <2>3, <2>4 DEF StartRefresh, At, Own, server, browser, events
<1>5. ASSUME NEW s \in Tabs, refresh[s] # None,
             NEW stage \in {"delete", "store", "failed"},
             refresh' = [refresh EXCEPT ![s].stage = stage],
             live' \in {live, live \ {refresh[s].used}},
             UNCHANGED <<issued, stored, leaving, withdrawals>>
      PROVE  Own(t)'
  <2>1. t # s
    BY <1>5, StageMoves DEF At
  <2>2. Own(t) /\ refresh'[t] = refresh[t]
    BY <1>1, <1>5, <2>1, StageMoves DEF At
  <2>3. \A u \in Tabs : refresh'[u] # None =>
          /\ refresh[u] # None /\ refresh'[u].used = refresh[u].used
          /\ refresh'[u].stage = "answer" => refresh'[u] = refresh[u]
    BY <1>5, StageMoves
  <2> QED
    BY <1>5, <2>1, <2>2, <2>3 DEF Own
<1>6. ASSUME NEW s \in Tabs, FindToken(s) PROVE Own(t)'
  BY <1>5, <1>6 DEF FindToken, At, server, browser, events
<1>7. ASSUME NEW s \in Tabs, DeleteToken(s) PROVE Own(t)'
  BY <1>5, <1>7 DEF DeleteToken, At, browser, events
<1>8. ASSUME NEW s \in Tabs, FailRefresh(s) PROVE Own(t)'
  BY <1>5, <1>8 DEF FailRefresh, server, browser
<1>9. ASSUME NEW s \in Tabs, StoreToken(s) PROVE Own(t)'
  <2>1. issued' = issued + 1 /\ live' = live \cup {issued'}
        /\ UNCHANGED <<stored, leaving, withdrawals>>
    BY <1>9 DEF StoreToken, browser, events
  <2>2. refresh[s] \in ExchangeType /\ refresh[s] # None
    BY <1>9 DEF TypeOK, StoreToken, At
  <2>3. refresh'[s] = [refresh[s] EXCEPT !.stage = "answer", !.made = issued']
        /\ \A u \in Tabs \ {s} : refresh'[u] = refresh[u]
    BY <1>9 DEF StoreToken, TypeOK
  <2>4. refresh'[s].made = issued' /\ refresh'[s].used = refresh[s].used
    BY <2>2, <2>3 DEF ExchangeType
  <2>5. stored # issued' /\ \A u \in Tabs : leaving[u] # issued'
    BY <2>1 DEF TypeOK
  <2>6. \A u \in Tabs : refresh[u] # None => refresh[u].used # issued' /\ refresh[u].made # issued'
    BY <2>1 DEF TypeOK, Exchanges
  <2>7. CASE t = s
    BY <2>1, <2>2, <2>3, <2>4, <2>5, <2>6, <2>7 DEF Own
  <2>8. CASE t # s
    <3>1. Own(t) /\ refresh[t] # None /\ refresh'[t] = refresh[t]
      BY <1>1, <2>3, <2>8 DEF At
    <3>2. \A u \in Tabs : refresh'[u] # None =>
            /\ refresh[u] # None /\ refresh'[u].used = refresh[u].used
            /\ refresh'[u].made = issued' \/ refresh'[u] = refresh[u]
      BY <2>2, <2>3, <2>4
    <3>3. refresh[t].made # issued'
      BY <2>6, <3>1
    <3> QED
      BY <2>1, <3>1, <3>2, <3>3 DEF Own
  <2> QED
    BY <2>7, <2>8
<1>10. ASSUME NEW s \in Tabs, RefreshAnswered(s) PROVE Own(t)'
  <2>1. /\ t # s /\ refresh'[t] = refresh[t] /\ refresh'[s] = None
        /\ \A u \in Tabs \ {s} : refresh'[u] = refresh[u]
        /\ At(s, "answer") /\ stored' = refresh[s].made
        /\ UNCHANGED <<live, leaving, withdrawals>>
    BY <1>10 DEF RefreshAnswered, TypeOK, At, server, events
  <2> QED
    BY <1>1, <2>1 DEF Own, At
<1>11. ASSUME NEW s \in Tabs, RefreshFailed(s) PROVE Own(t)'
  <2>1. /\ t # s /\ refresh'[s] = None
        /\ \A u \in Tabs \ {s} : refresh'[u] = refresh[u]
        /\ stored' = 0
        /\ UNCHANGED <<live, leaving, withdrawals>>
    BY <1>11 DEF RefreshFailed, ClearAuth, TypeOK, At, server, events
  <2> QED
    BY <1>1, <2>1 DEF Own, At
<1>12. ASSUME NEW s \in Tabs, SignIn(s) PROVE Own(t)'
  BY <1>1, <1>12 DEF SignIn, Own, At, TypeOK
<1>13. ASSUME NEW s \in Tabs, ClickLogout(s) PROVE Own(t)'
  BY <1>1, <1>13 DEF ClickLogout, Own, At, TypeOK, server
<1>14. ASSUME NEW s \in Tabs, RevokeToken(s) PROVE Own(t)'
  BY <1>1, <1>14 DEF RevokeToken, Own, At, browser, events
<1>15. ASSUME NEW s \in Tabs, ClearLocally(s) PROVE Own(t)'
  BY <1>1, <1>15 DEF ClearLocally, Own, At, server, TypeOK
<1>16. ASSUME NEW n \in fresh, Expire(n) PROVE Own(t)'
  BY <1>1, <1>16 DEF Expire, Own, At, browser
<1>17. ASSUME NEW gone, Withdraw(gone) PROVE Own(t)'
  BY <1>1, <1>17 DEF Withdraw, Own, At, browser, TypeOK
<1>18. CASE UNCHANGED vars
  BY <1>1, <1>18 DEF vars, Own, At
<1> QED
  BY <1>2, <1>3, <1>4, <1>6, <1>7, <1>8, <1>9, <1>10, <1>11, <1>12, <1>13, <1>14,
     <1>15, <1>16, <1>17, <1>18
  DEF Next, CallStep, CallOnly, RefreshStep, UserStep, LogoutStep

----------------------------------------------------------------------------
(* Local storage keeps no dead pair.                                       *)

(* The tab that answers for a dead pair.                                   *)
Covers(t) ==
  \/ leaving[t] = stored
  \/ refresh[t] # None /\ refresh[t].used = stored /\ refresh[t].stage \in Past

(* Nothing happens to the stored pair, and no tab stops covering it.       *)
LEMMA StillCovered ==
  ASSUME StoredIsLive, stored' = stored, live' = live,
         withdrawals' = 0 => withdrawals = 0,
         \A t \in Tabs : Covers(t) => Covers(t)'
  PROVE  StoredIsLive'
BY DEF StoredIsLive, Covers, Past

LEMMA LiveStep ==
  ASSUME TypeOK, Exchanges, AnswersAreNew, StoredIsLive, [Next]_vars
  PROVE  StoredIsLive'
<1>1. ASSUME NEW c \in Calls, CallOnly(c) PROVE StoredIsLive'
  BY <1>1, CallOnlyStep, StillCovered DEF Covers, server, browser, events
<1>2. ASSUME NEW c \in Calls, SignOut(c) PROVE StoredIsLive'
  BY <1>2 DEF SignOut, ClearAuth, StoredIsLive
<1>3. ASSUME NEW c \in Calls, StartRefresh(c) PROVE StoredIsLive'
  <2>1. /\ \A u \in Tabs : refresh[u] # None => refresh'[u] = refresh[u]
        /\ UNCHANGED <<live, stored, leaving, withdrawals>>
    BY <1>3 DEF StartRefresh, TypeOK, server, browser, events
  <2> QED
    BY <2>1, StillCovered DEF Covers
<1>4. ASSUME NEW t \in Tabs, FindToken(t) PROVE StoredIsLive'
  <2>1. /\ refresh[t] # None /\ refresh[t].stage \notin Past
        /\ refresh' = [refresh EXCEPT ![t].stage =
                         IF refresh[t].used \in live THEN "delete" ELSE "failed"]
        /\ UNCHANGED <<live, stored, leaving, withdrawals>>
    BY <1>4 DEF FindToken, At, Past, server, browser, events
  <2>2. \A u \in Tabs \ {t} : refresh'[u] = refresh[u]
    BY <2>1 DEF TypeOK
  <2> QED
    BY <2>1, <2>2, StillCovered DEF Covers
<1>5. ASSUME NEW t \in Tabs, DeleteToken(t) PROVE StoredIsLive'
  <2>1. /\ refresh[t] # None /\ refresh' = [refresh EXCEPT ![t].stage = "store"]
        /\ live' = live \ {refresh[t].used}
        /\ UNCHANGED <<stored, leaving, withdrawals>>
    BY <1>5 DEF DeleteToken, At, browser, events
  <2>2. /\ refresh'[t] # None /\ refresh'[t].used = refresh[t].used
        /\ refresh'[t].stage = "store"
        /\ \A u \in Tabs \ {t} : refresh'[u] = refresh[u]
    BY <2>1, StageMoves
  <2>3. CASE stored = refresh[t].used
    BY <2>1, <2>2, <2>3 DEF StoredIsLive
  <2>4. CASE stored # refresh[t].used
    <3>1. \A u \in Tabs : Covers(u) => Covers(u)'
      BY <2>1, <2>2, <2>4 DEF Covers
    <3> QED
      BY <2>1, <2>4, <3>1 DEF StoredIsLive, Covers, Past
  <2> QED
    BY <2>3, <2>4
<1>6. ASSUME NEW t \in Tabs, StoreToken(t) PROVE StoredIsLive'
  <2>1. /\ refresh[t] \in ExchangeType /\ refresh[t] # None /\ live \subseteq live'
        /\ UNCHANGED <<stored, leaving, withdrawals>>
    BY <1>6 DEF StoreToken, At, TypeOK, browser, events
  <2>2. refresh'[t] = [refresh[t] EXCEPT !.stage = "answer", !.made = issued']
        /\ \A u \in Tabs \ {t} : refresh'[u] = refresh[u]
    BY <1>6 DEF StoreToken, TypeOK
  <2>3. refresh'[t].used = refresh[t].used /\ refresh'[t].stage = "answer" /\ refresh'[t] # None
    <3>0. issued' \in Nat
      BY <1>6 DEF StoreToken, TypeOK
    <3>1. refresh'[t] \in ExchangeType
      BY <2>1, <2>2, <3>0 DEF ExchangeType
    <3> QED
      BY <2>1, <2>2, <3>1, SessionAssumption DEF ExchangeType
  <2>4. \A u \in Tabs : Covers(u) => Covers(u)'
    BY <2>1, <2>2, <2>3 DEF Covers, Past
  <2> QED
    BY <2>1, <2>4 DEF StoredIsLive, Covers, Past
<1>7. ASSUME NEW t \in Tabs, FailRefresh(t) PROVE StoredIsLive'
  <2>1. /\ refresh[t] # None /\ refresh' = [refresh EXCEPT ![t].stage = "failed"]
        /\ UNCHANGED <<live, stored, leaving, withdrawals>>
    BY <1>7 DEF FailRefresh, server, browser
  <2>2. \A u \in Tabs : Covers(u) => Covers(u)'
    BY <2>1, StageMoves DEF Covers, Past
  <2> QED
    BY <2>1, <2>2, StillCovered
<1>8. ASSUME NEW t \in Tabs, RefreshAnswered(t) PROVE StoredIsLive'
  BY <1>8 DEF RefreshAnswered, AnswersAreNew, Own, At, StoredIsLive, server, events
<1>9. ASSUME NEW t \in Tabs, RefreshFailed(t) PROVE StoredIsLive'
  BY <1>9 DEF RefreshFailed, ClearAuth, StoredIsLive
<1>10. ASSUME NEW t \in Tabs, SignIn(t) PROVE StoredIsLive'
  BY <1>10 DEF SignIn, StoredIsLive
<1>11. ASSUME NEW t \in Tabs, ClickLogout(t) PROVE StoredIsLive'
  <2>1. /\ \A u \in Tabs : leaving[u] # 0 => leaving'[u] = leaving[u]
        /\ UNCHANGED <<live, stored, refresh, withdrawals>>
    BY <1>11 DEF ClickLogout, TypeOK, server
  <2> QED
    BY <2>1 DEF StoredIsLive
<1>12. ASSUME NEW t \in Tabs, RevokeToken(t) PROVE StoredIsLive'
  BY <1>12 DEF RevokeToken, StoredIsLive, browser, events
<1>13. ASSUME NEW t \in Tabs, ClearLocally(t) PROVE StoredIsLive'
  BY <1>13 DEF ClearLocally, StoredIsLive
<1>14. ASSUME NEW n \in fresh, Expire(n) PROVE StoredIsLive'
  BY <1>14 DEF Expire, StoredIsLive, browser
<1>15. ASSUME NEW gone, Withdraw(gone) PROVE StoredIsLive'
  BY <1>15 DEF Withdraw, StoredIsLive, TypeOK
<1>16. CASE UNCHANGED vars
  BY <1>16 DEF vars, StoredIsLive
<1> QED
  BY <1>1, <1>2, <1>3, <1>4, <1>5, <1>6, <1>7, <1>8, <1>9, <1>10, <1>11, <1>12, <1>13, <1>14,
     <1>15, <1>16
  DEF Next, CallStep, CallOnly, RefreshStep, UserStep, LogoutStep

----------------------------------------------------------------------------
(* The browser stays signed in.                                            *)

LEMMA CauseStep ==
  ASSUME TypeOK, Exchanges, AnswersAreNew, Alone, Untroubled, [Next]_vars
  PROVE  Alone' /\ Untroubled'
<1>1. ASSUME NEW c \in Calls, CallOnly(c) PROVE Alone' /\ Untroubled'
  BY <1>1, CallOnlyStep DEF Alone, Untroubled, NoCause, server, browser, events
<1>2. ASSUME NEW c \in Calls, SignOut(c) PROVE Alone' /\ Untroubled'
  BY <1>2 DEF SignOut, Alone, Untroubled, NoCause, server, events
<1>3. ASSUME NEW c \in Calls, StartRefresh(c) PROVE Alone' /\ Untroubled'
  <2>1. TabOf[c] \in Tabs
    BY SessionAssumption
  <2> DEFINE begun == [stage |-> "find", used |-> stored, made |-> 0]
  <2>2. /\ refresh'[TabOf[c]] = begun /\ refresh[TabOf[c]] = None
        /\ \A u \in Tabs \ {TabOf[c]} : refresh'[u] = refresh[u]
        /\ UNCHANGED <<live, stored, page, leaving, logouts, withdrawals, faults>>
    BY <1>3, <2>1 DEF StartRefresh, TypeOK, server, browser, events
  <2>3. begun.stage = "find" /\ begun.used = stored
    OBVIOUS
  <2>4. ~overlapped' => ~overlapped /\ \A u \in Tabs : refresh[u] = None
    BY <1>3 DEF StartRefresh
  <2> HIDE DEF begun
  <2>5. Alone'
    BY <2>2, <2>4 DEF Alone
  <2>6. Untroubled'
    BY <2>2, <2>3, <2>4 DEF Untroubled, NoCause
  <2> QED
    BY <2>5, <2>6
<1>4. ASSUME NEW t \in Tabs, FindToken(t) PROVE Alone' /\ Untroubled'
  <2>1. /\ refresh[t] # None /\ refresh[t].stage = "find"
        /\ refresh' = [refresh EXCEPT ![t].stage =
                         IF refresh[t].used \in live THEN "delete" ELSE "failed"]
        /\ UNCHANGED <<live, stored, page, leaving, logouts, withdrawals, faults, overlapped>>
    BY <1>4 DEF FindToken, At, server, browser, events
  <2>2. /\ \A u \in Tabs \ {t} : refresh'[u] = refresh[u]
        /\ \A u \in Tabs : refresh'[u] # None <=> refresh[u] # None
        /\ refresh'[t].used = refresh[t].used
        /\ refresh[t].used \in live => refresh'[t].stage = "delete"
    BY <2>1, StageMoves
  <2>3. Alone'
    BY <2>1, <2>2 DEF Alone
  <2>4. NoCause' => refresh[t].used \in live
    BY <2>1 DEF Alone, Untroubled, NoCause, Past
  <2> QED
    BY <2>1, <2>2, <2>3, <2>4 DEF Alone, Untroubled, NoCause, Past
<1>5. ASSUME NEW t \in Tabs, DeleteToken(t) PROVE Alone' /\ Untroubled'
  <2>1. /\ refresh[t] # None /\ refresh' = [refresh EXCEPT ![t].stage = "store"]
        /\ UNCHANGED <<stored, page, leaving, logouts, withdrawals, faults, overlapped>>
    BY <1>5 DEF DeleteToken, At, browser, events
  <2>2. /\ \A u \in Tabs \ {t} : refresh'[u] = refresh[u]
        /\ \A u \in Tabs : refresh'[u] # None <=> refresh[u] # None
        /\ refresh'[t].used = refresh[t].used /\ refresh'[t].stage = "store"
    BY <2>1, StageMoves
  <2> QED
    BY <2>1, <2>2 DEF Alone, Untroubled, NoCause, Past
<1>6. ASSUME NEW t \in Tabs, StoreToken(t) PROVE Alone' /\ Untroubled'
  <2>1. /\ refresh[t] \in ExchangeType /\ refresh[t] # None /\ issued' \in Nat
        /\ live \subseteq live'
        /\ UNCHANGED <<stored, page, leaving, logouts, withdrawals, faults, overlapped>>
    BY <1>6 DEF StoreToken, At, TypeOK, browser, events
  <2>2. refresh'[t] = [refresh[t] EXCEPT !.stage = "answer", !.made = issued']
        /\ \A u \in Tabs \ {t} : refresh'[u] = refresh[u]
    BY <1>6 DEF StoreToken, TypeOK
  <2>3. refresh'[t].used = refresh[t].used /\ refresh'[t].stage = "answer"
    BY <2>1, <2>2 DEF ExchangeType
  <2>4. \A u \in Tabs : refresh'[u] # None => refresh[u] # None
    BY <2>1, <2>2
  <2>5. Alone'
    BY <2>1, <2>4 DEF Alone
  <2>6. \A u \in Tabs : refresh'[u] # None =>
          /\ refresh[u] # None /\ refresh'[u].used = refresh[u].used
          /\ refresh'[u].stage = "answer" \/ refresh'[u] = refresh[u]
    BY <2>1, <2>2, <2>3
  <2>7. refresh'[t] # None
    <3>1. refresh'[t] \in ExchangeType
      BY <2>1, <2>2 DEF ExchangeType
    <3> QED
      BY <3>1, SessionAssumption
  <2>8. Untroubled'
    BY <2>1, <2>3, <2>6, <2>7 DEF Untroubled, NoCause, Past
  <2> QED
    BY <2>5, <2>8
<1>7. ASSUME NEW t \in Tabs, FailRefresh(t) PROVE Alone' /\ Untroubled'
  <2>1. /\ refresh[t] # None /\ refresh' = [refresh EXCEPT ![t].stage = "failed"]
        /\ faults' # 0 /\ UNCHANGED overlapped
    BY <1>7 DEF FailRefresh, TypeOK
  <2> QED
    BY <2>1, StageMoves DEF Alone, Untroubled, NoCause
<1>8. ASSUME NEW t \in Tabs, RefreshAnswered(t) PROVE Alone' /\ Untroubled'
  <2>1. /\ At(t, "answer") /\ stored' = refresh[t].made /\ stored' # 0
        /\ refresh'[t] = None /\ \A u \in Tabs \ {t} : refresh'[u] = refresh[u]
        /\ UNCHANGED <<live, page, leaving, logouts, withdrawals, faults, overlapped>>
    BY <1>8 DEF RefreshAnswered, Exchanges, At, TypeOK, server, events
  <2>2. withdrawals = 0 => stored' \in live
    BY <2>1 DEF AnswersAreNew, Own
  <2>3. ~overlapped => \A u \in Tabs : refresh'[u] = None
    BY <2>1 DEF Alone, At
  <2> QED
    BY <2>1, <2>2, <2>3 DEF Alone, Untroubled, NoCause
<1>9. ASSUME NEW t \in Tabs, RefreshFailed(t) PROVE Alone' /\ Untroubled'
  <2>1. /\ At(t, "failed") /\ \A u \in Tabs : refresh'[u] # None => refresh'[u] = refresh[u]
        /\ UNCHANGED <<logouts, withdrawals, faults, overlapped>>
    BY <1>9 DEF RefreshFailed, TypeOK, events
  <2> QED
    BY <2>1 DEF Alone, Untroubled, NoCause, At
<1>10. ASSUME NEW t \in Tabs, SignIn(t) PROVE Alone' /\ Untroubled'
  BY <1>10 DEF SignIn, Alone, Untroubled, NoCause
<1>11. ASSUME NEW t \in Tabs, ClickLogout(t) PROVE Alone' /\ Untroubled'
  <2>1. logouts' # 0 /\ UNCHANGED <<refresh, overlapped>>
    BY <1>11 DEF ClickLogout, TypeOK
  <2> QED
    BY <2>1 DEF Alone, Untroubled, NoCause
<1>12. ASSUME NEW t \in Tabs, RevokeToken(t) PROVE Alone' /\ Untroubled'
  <2>1. leaving[t] # 0 /\ UNCHANGED <<refresh, logouts, withdrawals, faults, overlapped>>
    BY <1>12 DEF RevokeToken, TypeOK, events
  <2> QED
    BY <2>1 DEF Alone, Untroubled, NoCause
<1>13. ASSUME NEW t \in Tabs, ClearLocally(t) PROVE Alone' /\ Untroubled'
  <2>1. leaving[t] # 0 /\ UNCHANGED <<refresh, logouts, withdrawals, overlapped>>
        /\ (faults' = 0 => faults = 0)
    BY <1>13 DEF ClearLocally, TypeOK
  <2> QED
    BY <2>1 DEF Alone, Untroubled, NoCause
<1>14. ASSUME NEW n \in fresh, Expire(n) PROVE Alone' /\ Untroubled'
  BY <1>14 DEF Expire, Alone, Untroubled, NoCause, browser
<1>15. ASSUME NEW gone, Withdraw(gone) PROVE Alone' /\ Untroubled'
  <2>1. withdrawals' # 0 /\ UNCHANGED <<refresh, overlapped>>
    BY <1>15 DEF Withdraw, TypeOK
  <2> QED
    BY <2>1 DEF Alone, Untroubled, NoCause
<1>16. CASE UNCHANGED vars
  BY <1>16 DEF vars, Alone, Untroubled, NoCause
<1> QED
  BY <1>1, <1>2, <1>3, <1>4, <1>5, <1>6, <1>7, <1>8, <1>9, <1>10, <1>11, <1>12, <1>13, <1>14,
     <1>15, <1>16
  DEF Next, CallStep, CallOnly, RefreshStep, UserStep, LogoutStep

----------------------------------------------------------------------------
(* Whatever tabs, calls, expiries, sign-ins, logouts and faults: the       *)
(* conjuncts hold together.  (auth.service.ts:136-170, client.ts:24-98,    *)
(* stores/auth.ts.)                                                        *)
THEOREM Invariance == Spec => []IInv
<1>1. Init => IInv
  <2> SUFFICES ASSUME Init PROVE IInv
    OBVIOUS
  <2>1. \A t \in Tabs : refresh[t] = None /\ leaving[t] = 0 /\ page[t] = "dashboard"
    BY DEF Init
  <2>2. stored # 0 /\ stored \in live
    BY DEF Init
  <2> QED
    BY <2>1, <2>2, TypeInitial DEF IInv, AnswersAreNew, At, StoredIsLive, Alone, Untroubled
<1>2. IInv /\ [Next]_vars => IInv'
  BY TypeStep, NewStep, LiveStep, CauseStep DEF IInv
<1> QED
  BY <1>1, <1>2, PTL DEF Spec

(* Every variable keeps its type; a refresh is only made with a token.     *)
THEOREM TypeCorrect == Spec => []TypeOK
<1>1. IInv => TypeOK
  BY DEF IInv
<1> QED
  BY <1>1, Invariance, PTL

(* Rotations, logouts and sign-ins of any number of tabs leave no dead     *)
(* pair behind in local storage.                                           *)
THEOREM NoDeadPair == Spec => []StoredIsLive
<1>1. IInv => StoredIsLive
  BY DEF IInv
<1> QED
  BY <1>1, Invariance, PTL

(* The browser is signed out only for one of the causes named.             *)
THEOREM SignOutHasACause == Spec => []SignedOutForACause
<1>1. IInv => SignedOutForACause
  BY DEF IInv, Untroubled, NoCause, SignedOutForACause
<1> QED
  BY <1>1, Invariance, PTL
=============================================================================
