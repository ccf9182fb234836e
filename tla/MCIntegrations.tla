--------------------------- MODULE MCIntegrations ---------------------------
(* Small instances of Integrations.                                        *)
EXTENDS Integrations

CONSTANTS one, other, left, right, shop, store, first, second, third

MCEnv == [f \in Fields |-> IF f = facebookApp THEN one ELSE Unset]

(* Every combination of what adds to the confidence, and of quantities.    *)
MCTexts ==
  {t \in TextType : ~t.spam /\ t.counted = 10 /\ t.bare = Nothing}
  \cup {t \in TextType : /\ t.intent = "order" /\ ~t.phone /\ t.address /\ ~t.product
                        /\ t.spam => t.counted = 10 /\ t.bare = Nothing}

(* Answers with one field out of the ordinary.                             *)
MCAnswers ==
  LET Good == [object |-> TRUE, intent |-> "order", quantity |-> 24, phone |-> "good", score |-> 3]
  IN {[Good EXCEPT !.quantity = q] : q \in Quantities \cup {Nothing}}
     \cup {[Good EXCEPT !.score = s] : s \in Scores \cup {Nothing}}
     \cup {[Good EXCEPT !.intent = i] : i \in Intents \cup {Nothing}}
     \cup {[Good EXCEPT !.phone = "bad"], [Good EXCEPT !.object = FALSE]}

(* The parser and the pages share nothing but the configuration, which     *)
(* neither changes, and the pages read it only for a login's exchanges:    *)
(* explored are two updates, an update and a parse or a login up to the    *)
(* list of pages, and three requests.                                      *)
Updating == {u \in Updates : update[u].at # "idle"}
Parsing == {p \in Parses : parse[p] # NoParse}
Requested == {r \in Requests : request[r].at # "idle"}

UpToList == \A r \in Requested : request[r].at \in {"code", "token", "list", "failed"}

Few == Updating # {} => UpToList /\ Cardinality(Updating) + Cardinality(Parsing) + Cardinality(Requested) <= 2

MCNext ==
  \/ UpToList /\ ConfigNext /\ UNCHANGED <<parse, pagesVars>>
  \/ Requested = {} /\ ParserNext /\ UNCHANGED <<configVars, pagesVars>>
  \/ Parsing = {} /\ PagesNext /\ UNCHANGED <<configVars, parse>>
  \/ Restart

MCSpec == Init /\ [][MCNext]_vars

Alike == Permutations(Tenants) \cup Permutations(Pages) \cup Permutations(Requests)

(* One call that fails or process that dies.                               *)
OneFault == configFaults + pageFaults <= 1
=============================================================================
