----------------------------- MODULE FacebookPages -----------------------------
(***************************************************************************)
(* Which tenant a Facebook page belongs to, and the token its messages are *)
(* answered with.  A page is connected by hand or by a login at Facebook,  *)
(* which may offer several pages to choose from, disconnected, or given a  *)
(* new token: the document is looked up, changed and saved, with others in *)
(* between.  A tenant may besides have a page on its own document, of      *)
(* older date.                                                             *)
(***************************************************************************)
EXTENDS PlatformConfig, FiniteSets, SequencesExt

CONSTANTS
  facebookApp,      \* a field of the configuration: the app's id and secret
  Tenants, Pages,
  Requests,         \* what is asked for; the token a request brings has its name
  None,
  MaxPageFaults

ASSUME PagesAssumption ==
  /\ facebookApp \in Fields
  /\ None \notin Tenants \cup Pages \cup Requests
  /\ IsFiniteSet(Pages)
  /\ MaxPageFaults \in Nat

VARIABLES
  page,         \* the FacebookPage documents
  tenantPage,   \* pageId and accessToken of the Tenant documents
  pending,      \* per tenant, the pages a login has found, in Redis
  subscribed,   \* external: pages whose messages Facebook sends to the webhook
  request,
  pageFaults,
  disturbed     \* auxiliary: per request, which pages others have written, and how

pagesVars == <<page, tenantPage, pending, subscribed, request, pageFaults, disturbed>>

NoPage == [owner |-> None, token |-> None, active |-> FALSE, subscribed |-> FALSE]

Connects == {"addPage", "callback", "select"}
Kinds == Connects \cup {"removePage", "rotateToken"}

NoRequest == [at |-> "idle", kind |-> "addPage", tenant |-> None, todo |-> <<>>, seen |-> NoPage,
              did |-> {}, app |-> Unset]

PagesInit ==
  /\ page = [p \in Pages |-> NoPage]
  /\ tenantPage = [t \in Tenants |-> [page |-> None, token |-> None]]
  /\ pending = [t \in Tenants |-> {}]
  /\ subscribed = {}
  /\ request = [r \in Requests |-> NoRequest]
  /\ pageFaults = 0
  /\ disturbed = [r \in Requests |-> {}]

Working(r) == request[r].at \notin {"idle", "done", "failed"}

This(r) == Head(request[r].todo)

Go(r, at) == request' = [request EXCEPT ![r].at = at]

----------------------------------------------------------------------------
(* What begins a request.                                                  *)

Begin(r, kind, t, at, todo) ==
  request' = [request EXCEPT ![r] =
                [NoRequest EXCEPT !.at = at, !.kind = kind, !.tenant = t, !.todo = todo]]

BeginRequest(r, kind, t, p) ==
  /\ request[r].at = "idle"
  /\ Begin(r, kind, t, "find", <<p>>)
  /\ UNCHANGED <<page, tenantPage, pending, subscribed, pageFaults, disturbed>>

(* A login comes back with a code, to be exchanged twice.                  *)
BeginCallback(r, t) ==
  /\ request[r].at = "idle"
  /\ Begin(r, "callback", t, "code", <<>>)
  /\ UNCHANGED <<page, tenantPage, pending, subscribed, pageFaults, disturbed>>

(* Each exchange reads the app anew: Facebook refuses a token of another.  *)
ExchangeToken(r) ==
  /\ request[r].at \in {"code", "token"}
  /\ request' = [request EXCEPT ![r].app = cache[facebookApp],
       ![r].at = IF cache[facebookApp] = Unset THEN "failed"
                 ELSE IF request[r].at = "code" THEN "token"
                 ELSE IF cache[facebookApp] = request[r].app THEN "list" ELSE "failed"]
  /\ UNCHANGED <<page, tenantPage, pending, subscribed, pageFaults, disturbed>>

(* One page is connected at once, several are left to choose from.         *)
ListPages(r, ps) ==
  /\ request[r].at = "list"
  /\ IF Cardinality(ps) > 1
       THEN pending' = [pending EXCEPT ![request[r].tenant] = ps]
       ELSE UNCHANGED pending
  /\ request' = [request EXCEPT
       ![r].todo = IF Cardinality(ps) = 1 THEN SetToSeq(ps) ELSE <<>>,
       ![r].at = CASE ps = {} -> "failed"
                   [] Cardinality(ps) = 1 -> "find"
                   [] OTHER -> "done"]
  /\ UNCHANGED <<page, tenantPage, subscribed, pageFaults, disturbed>>

(* Some of those offered are chosen.                                       *)
SelectPages(r, t, ps) ==
  /\ request[r].at = "idle"
  /\ LET chosen == ps \cap pending[t] IN
       \E todo \in SetToSeqs(chosen) :
         Begin(r, "select", t, IF chosen = {} THEN "failed" ELSE "find", todo)
  /\ UNCHANGED <<page, tenantPage, pending, subscribed, pageFaults, disturbed>>

----------------------------------------------------------------------------
(* addPage, removePage and rotateToken of one page.                        *)

FindPage(r) ==
  /\ request[r].at = "find"
  /\ LET found == page[This(r)]
         own == found.owner = request[r].tenant
     IN request' = [request EXCEPT ![r].seen = found,
          ![r].at = CASE own -> "save"
                      [] found = NoPage /\ request[r].kind \in Connects -> "create"
                      [] OTHER -> "failed"]
  /\ UNCHANGED <<page, tenantPage, pending, subscribed, pageFaults, disturbed>>

(* The answer, or the next step of a login's connection.                   *)
Saved(r) ==
  request' = [request EXCEPT ![r].did = @ \cup {This(r)},
                ![r].at = IF request[r].kind \in {"callback", "select"} THEN "subscribe" ELSE "done"]

(* The other requests that have found the page, or changed it.             *)
Disturbing(r, how) ==
  disturbed' = [q \in Requests |->
    IF q # r /\ (\/ This(r) \in request[q].did
                 \/ request[q].at \in {"create", "save"} /\ This(q) = This(r))
    THEN disturbed[q] \cup {<<This(r), how>>} ELSE disturbed[q]]

(* Mutant: an upsert.                                                      *)
CreatePage_Upsert(r) ==
  /\ request[r].at = "create"
  /\ page' = [page EXCEPT ![This(r)] =
                [owner |-> request[r].tenant, token |-> r, active |-> TRUE, subscribed |-> FALSE]]
  /\ Saved(r)
  /\ Disturbing(r, "connected")
  /\ UNCHANGED <<tenantPage, pending, subscribed, pageFaults>>

(* pageId is unique: the second create of a page is rejected.              *)
CreatePage(r) ==
  /\ request[r].at = "create"
  /\ IF page[This(r)] = NoPage
       THEN /\ page' = [page EXCEPT ![This(r)] =
                  [owner |-> request[r].tenant, token |-> r, active |-> TRUE, subscribed |-> FALSE]]
            /\ Saved(r)
            /\ Disturbing(r, "connected")
       ELSE /\ Go(r, "failed")
            /\ UNCHANGED <<page, disturbed>>
  /\ UNCHANGED <<tenantPage, pending, subscribed, pageFaults>>

(* Mutant: a reconnection leaves isActive alone.                           *)
Changed_TokenOnly(r, now) ==
  CASE request[r].kind = "removePage" -> [now EXCEPT !.active = IF request[r].seen.active THEN FALSE ELSE @]
    [] OTHER -> [now EXCEPT !.token = r]

(* Mongoose writes what differs from what was found: a token always does.  *)
Changed(r, now) ==
  CASE request[r].kind = "removePage" ->
         [now EXCEPT !.active = IF request[r].seen.active THEN FALSE ELSE @]
    [] request[r].kind = "rotateToken" -> [now EXCEPT !.token = r]
    [] OTHER -> [now EXCEPT !.token = r, !.active = IF request[r].seen.active THEN @ ELSE TRUE]

SavePage(r) ==
  /\ request[r].at = "save"
  /\ page' = [page EXCEPT ![This(r)] = Changed(r, @)]
  /\ Saved(r)
  /\ Disturbing(r, CASE request[r].kind = "removePage" -> "removed"
                     [] request[r].kind = "rotateToken" -> "rotated"
                     [] OTHER -> "connected")
  /\ UNCHANGED <<tenantPage, pending, subscribed, pageFaults>>

----------------------------------------------------------------------------
(* What a login adds to the connection of a page.                          *)

(* The next page, if one was selected; then the list is deleted.           *)
NextPage(r) ==
  request' = [request EXCEPT ![r].todo = Tail(@),
    ![r].at = IF Len(request[r].todo) > 1 THEN "find"
              ELSE IF request[r].kind = "select" THEN "clear" ELSE "done"]

(* Mutant: marked whatever Facebook answers.                               *)
SubscribePage_Unchecked(r, ok) ==
  /\ request[r].at = "subscribe"
  /\ subscribed' = IF ok THEN subscribed \cup {This(r)} ELSE subscribed
  /\ Go(r, "mark")
  /\ UNCHANGED <<page, tenantPage, pending, pageFaults, disturbed>>

(* Best effort: the connection succeeds without.                           *)
SubscribePage(r, ok) ==
  /\ request[r].at = "subscribe"
  /\ IF ok THEN subscribed' = subscribed \cup {This(r)} /\ Go(r, "mark")
           ELSE UNCHANGED subscribed /\ NextPage(r)
  /\ UNCHANGED <<page, tenantPage, pending, pageFaults, disturbed>>

(* Found and saved, by two calls; but no document is ever deleted, and     *)
(* nothing else writes the field.                                          *)
MarkWebhookSubscribed(r) ==
  /\ request[r].at = "mark"
  /\ page' = [page EXCEPT ![This(r)].subscribed = TRUE]
  /\ NextPage(r)
  /\ UNCHANGED <<tenantPage, pending, subscribed, pageFaults, disturbed>>

(* Whatever list is there by now.                                          *)
ClearPending(r) ==
  /\ request[r].at = "clear"
  /\ pending' = [pending EXCEPT ![request[r].tenant] = {}]
  /\ Go(r, "done")
  /\ UNCHANGED <<page, tenantPage, subscribed, pageFaults, disturbed>>

ExpirePending(t) ==
  /\ pending[t] # {}
  /\ pending' = [pending EXCEPT ![t] = {}]
  /\ UNCHANGED <<page, tenantPage, subscribed, request, pageFaults, disturbed>>

----------------------------------------------------------------------------
(* The page on the Tenant document: its pageId is unique.                  *)
ConnectFacebook(r, t, p) ==
  /\ request[r].at = "idle"
  /\ IF \E u \in Tenants \ {t} : tenantPage[u].page = p
       THEN Go(r, "failed") /\ UNCHANGED tenantPage
       ELSE Go(r, "done") /\ tenantPage' = [tenantPage EXCEPT ![t] = [page |-> p, token |-> r]]
  /\ UNCHANGED <<page, pending, subscribed, pageFaults, disturbed>>

DisconnectFacebook(r, t) ==
  /\ request[r].at = "idle"
  /\ Go(r, "done")
  /\ tenantPage' = [tenantPage EXCEPT ![t] = [page |-> None, token |-> None]]
  /\ UNCHANGED <<page, pending, subscribed, pageFaults, disturbed>>

(* A call fails; what it does to mark a subscription is caught.            *)
FailPageCall(r) ==
  /\ pageFaults < MaxPageFaults
  /\ Working(r)
  /\ pageFaults' = pageFaults + 1
  /\ IF request[r].at \in {"subscribe", "mark"} THEN NextPage(r) ELSE Go(r, "failed")
  /\ UNCHANGED <<page, tenantPage, pending, subscribed, disturbed>>

ForgetRequests ==
  /\ request' = [r \in Requests |-> IF Working(r) THEN [request[r] EXCEPT !.at = "failed"] ELSE request[r]]
  /\ UNCHANGED <<page, tenantPage, pending, subscribed, pageFaults, disturbed>>

PagesNext ==
  \/ \E r \in Requests :
       \/ \E t \in Tenants :
            \/ BeginCallback(r, t)
            \/ DisconnectFacebook(r, t)
            \/ \E ps \in SUBSET Pages \ {{}} : SelectPages(r, t, ps)
            \/ \E p \in Pages :
                 \/ \E kind \in {"addPage", "removePage", "rotateToken"} : BeginRequest(r, kind, t, p)
                 \/ ConnectFacebook(r, t, p)
       \/ ExchangeToken(r)
       \/ \E ps \in SUBSET Pages : ListPages(r, ps)
       \/ FindPage(r) \/ CreatePage(r) \/ SavePage(r)
       \/ \E ok \in BOOLEAN : SubscribePage(r, ok)
       \/ MarkWebhookSubscribed(r)
       \/ ClearPending(r)
       \/ FailPageCall(r)
  \/ \E t \in Tenants : ExpirePending(t)

----------------------------------------------------------------------------
(* The tenant the messages of a page are for, at most one.                 *)
resolveTenantId(p) ==
  IF page[p].active THEN {page[p].owner}
  ELSE {t \in Tenants : tenantPage[t].page = p}

(* The token a tenant answers them with.                                   *)
getSendToken(t, p) ==
  IF page[p].owner = t /\ page[p].active THEN page[p].token
  ELSE IF tenantPage[t].page = p THEN tenantPage[t].token ELSE None

PageType == [owner : Tenants \cup {None}, token : Requests \cup {None},
             active : BOOLEAN, subscribed : BOOLEAN]

PagesTypeOK ==
  /\ page \in [Pages -> PageType]
  /\ tenantPage \in [Tenants -> [page : Pages \cup {None}, token : Requests \cup {None}]]
  /\ pending \in [Tenants -> SUBSET Pages]
  /\ subscribed \subseteq Pages
  /\ request \in [Requests ->
       [at : {"idle", "code", "token", "list", "find", "create", "save", "subscribe", "mark",
              "clear", "done", "failed"},
        kind : Kinds, tenant : Tenants \cup {None}, todo : Seq(Pages), seen : PageType,
        did : SUBSET Pages, app : Values \cup {Unset}]]
  /\ pageFaults \in 0 .. MaxPageFaults
  /\ disturbed \in [Requests -> SUBSET (Pages \X {"connected", "removed", "rotated"})]

(* A page that a tenant has once connected is never another tenant's.      *)
(* (facebook.service.ts:17-33 looks for the page and then creates it; only *)
(* the unique index of FacebookPage.ts:19 keeps two tenants apart.)        *)
OwnerNeverChanges ==
  [][\A p \in Pages : page[p] # NoPage => page'[p].owner = page[p].owner]_page

(* Whether no other request has since, or in between, done that to p.      *)
Undisturbed(r, p, hows) == \A how \in hows : <<p, how>> \notin disturbed[r]

(* What was answered is so, until another request undoes it: messages of a *)
(* page that was connected are the tenant's and are answered with a token  *)
(* it has given; those of one that was disconnected are nobody's, but for  *)
(* a page of older date; a rotated token is the one in use.  (The saves of *)
(* facebook.service.ts:17-62 write what they found changed;                *)
(* webhook.service.ts:33-40 and getSendToken read.)                        *)
ReportedIsServed ==
  \A r \in Requests : request[r].at = "done" =>
    \A p \in request[r].did :
      LET t == request[r].tenant
          legacy == {u \in Tenants : tenantPage[u].page = p}
      IN /\ page[p].owner = t
         /\ request[r].kind \in Connects /\ Undisturbed(r, p, {"removed"}) =>
              resolveTenantId(p) = {t} /\ getSendToken(t, p) # None
         /\ request[r].kind # "removePage" /\ Undisturbed(r, p, {"connected", "rotated"}) =>
              page[p].token = r
         /\ request[r].kind = "removePage" /\ Undisturbed(r, p, {"connected"}) =>
              /\ resolveTenantId(p) = legacy /\ Cardinality(legacy) <= 1
              /\ getSendToken(t, p) # None => t \in legacy

(* The badge of a page says so only if Facebook has accepted the           *)
(* subscription, and unless a call failed it does say so by the end of the *)
(* login.  (facebookOAuth.controller.ts:97-108, which goes on whatever     *)
(* happens.)                                                               *)
BadgeIsHonest ==
  \A p \in Pages :
    /\ page[p].subscribed => p \in subscribed
    /\ p \in subscribed /\ ~page[p].subscribed /\ pageFaults = 0 /\ configFaults = 0 =>
         \E r \in Requests : request[r].at = "mark" /\ This(r) = p
=============================================================================
