-------------------------- MODULE IntegrationsProofs --------------------------
(***************************************************************************)
(* Theorems of Integrations, for all sets of fields, values, updates,      *)
(* attempts, tenants, pages and requests, and all bounds.  Its three parts *)
(* write no variable of one another: each has an inductive invariant of    *)
(* its own, which the steps of the others leave alone.                     *)
(***************************************************************************)
EXTENDS Integrations, FiniteSetTheorems, TLAPS

(* What a step of the whole is for each of the parts.                      *)
LEMMA StepOfParts ==
  ASSUME [Next]_vars
  PROVE  /\ ConfigNext \/ Reboot \/ UNCHANGED configVars
         /\ ParserNext \/ ForgetParses \/ UNCHANGED parse
         /\ PagesNext \/ ForgetRequests \/ UNCHANGED pagesVars
BY DEF Next, vars, Restart, configVars, pagesVars

----------------------------------------------------------------------------
(* The configuration.                                                      *)

(* Who loads alone has, at the end, what is stored.                        *)
ConfigInv ==
  /\ ConfigTypeOK
  /\ \A u, w \in Updates : u # w /\ Loading(u) /\ Loading(w) => update[u].overlap
  /\ \A u \in Updates :
       update[u].at = "assign" /\ ~update[u].overlap => update[u].loaded = doc
  /\ CacheSettles

LEMMA ResolveType ==
  ASSUME NEW d \in Config
  PROVE  resolve(d) \in Config
BY ConfigAssumption DEF resolve, Config

LEMMA PatchedType ==
  ASSUME NEW d \in Config, NEW form \in Config, NEW f \in Fields, NEW v \in Values \cup {Unset}
  PROVE  Patched(d, Sent(form, f, v)) \in Config
<1> DEFINE D == (Fields \ Secrets) \cup (IF v = Unset THEN {} ELSE {f})
<1>1. \A g \in D : g \in Fields /\ Sent(form, f, v)[g] \in Values \cup {Unset}
  BY DEF Sent, Config
<1>2. DOMAIN Sent(form, f, v) = D
  BY DEF Sent
<1> HIDE DEF D
<1> QED
  BY <1>1, <1>2 DEF Patched, Config

LEMMA ConfigInitial == ConfigInit => ConfigInv
<1> SUFFICES ASSUME ConfigInit PROVE ConfigInv
  OBVIOUS
<1>1. NoConfig \in Config
  BY DEF NoConfig, Config
<1>2. doc \in Config /\ cache \in Config
  BY <1>1, ResolveType DEF ConfigInit
<1>3. update \in [Updates -> [at : {"idle", "editing", "load", "assign", "done", "failed"},
                             form : Config, loaded : Config, overlap : BOOLEAN]]
  BY <1>1 DEF ConfigInit
<1>4. astray \in BOOLEAN
  BY DEF ConfigInit
<1>5. MaxConfigFaults \in Nat /\ configFaults = 0
  BY ConfigAssumption DEF ConfigInit
<1>6. configFaults \in 0 .. MaxConfigFaults
  BY <1>5
<1>7. ConfigTypeOK
  BY <1>2, <1>3, <1>4, <1>6 DEF ConfigTypeOK
<1> QED
  BY <1>7 DEF ConfigInit, ConfigInv, CacheSettles, Loading

LEMMA ConfigStep ==
  ConfigInv /\ (ConfigNext \/ Reboot \/ UNCHANGED configVars) => ConfigInv'
<1> SUFFICES ASSUME ConfigInv, ConfigNext \/ Reboot \/ UNCHANGED configVars
             PROVE  ConfigInv'
  OBVIOUS
<1> USE ConfigAssumption
<1>t. ConfigTypeOK
  BY DEF ConfigInv
<1>1. ASSUME NEW u \in Updates, OpenForm(u) PROVE ConfigInv'
  <2>1. resolve(doc) \in Config
    BY <1>t, ResolveType DEF ConfigTypeOK
  <2>2. ConfigTypeOK'
    BY <1>1, <1>t, <2>1 DEF OpenForm, ConfigTypeOK
  <2> QED
    BY <1>1, <1>t, <2>2 DEF OpenForm, ConfigTypeOK, ConfigInv, Loading, CacheSettles
<1>2. ASSUME NEW u \in Updates, NEW f \in Fields, NEW v \in Values \cup {Unset},
             WriteConfig(u, f, v)
      PROVE  ConfigInv'
  <2>1. doc' \in Config
    BY <1>2, <1>t, PatchedType DEF WriteConfig, ConfigTypeOK
  <2>2. /\ update[u].at = "editing"
        /\ UNCHANGED <<cache, configFaults, astray>>
        /\ \A w \in Updates :
             /\ w # u => update'[w].at = update[w].at /\ update'[w].loaded = update[w].loaded
             /\ w # u /\ Loading(w) => update'[w].overlap /\ update'[u].overlap
             /\ w # u /\ update[w].overlap => update'[w].overlap
        /\ update'[u].at = "load"
        /\ update' \in [Updates -> [at : {"idle", "editing", "load", "assign", "done", "failed"},
                                    form : Config, loaded : Config, overlap : BOOLEAN]]
    BY <1>2, <1>t DEF WriteConfig, ConfigTypeOK
  <2> QED
    BY <1>t, <2>1, <2>2 DEF ConfigTypeOK, ConfigInv, Loading, CacheSettles
<1>3. ASSUME NEW u \in Updates, LoadConfig(u) PROVE ConfigInv'
  BY <1>3, <1>t DEF LoadConfig, ConfigTypeOK, ConfigInv, Loading, CacheSettles
<1>4. ASSUME NEW u \in Updates, AssignCache(u) PROVE ConfigInv'
  <2>1. resolve(update[u].loaded) \in Config
    BY <1>t, ResolveType DEF ConfigTypeOK
  <2>2. ConfigTypeOK'
    BY <1>4, <1>t, <2>1 DEF AssignCache, ConfigTypeOK
  <2> QED
    BY <1>4, <1>t, <2>2 DEF AssignCache, ConfigTypeOK, ConfigInv, Loading, CacheSettles
<1>5. ASSUME NEW u \in Updates, FailLoad(u) PROVE ConfigInv'
  BY <1>5, <1>t DEF FailLoad, ConfigTypeOK, ConfigInv, Loading, CacheSettles
<1>6. CASE Reboot
  <2>1. resolve(doc) \in Config
    BY <1>t, ResolveType DEF ConfigTypeOK
  <2>2. ConfigTypeOK'
    <3>1. update' \in [Updates -> [at : {"idle", "editing", "load", "assign", "done", "failed"},
                                  form : Config, loaded : Config, overlap : BOOLEAN]]
      BY <1>6, <1>t DEF Reboot, ConfigTypeOK
    <3>2. configFaults' \in 0 .. MaxConfigFaults
      BY <1>6, <1>t DEF Reboot, ConfigTypeOK
    <3> QED
      BY <1>6, <1>t, <2>1, <3>1, <3>2 DEF Reboot, ConfigTypeOK
  <2>3. \A u \in Updates : ~Loading(u)'
    BY <1>6, <1>t DEF Reboot, Loading, ConfigTypeOK
  <2> QED
    BY <1>6, <1>t, <2>2, <2>3 DEF Reboot, ConfigTypeOK, ConfigInv, Loading, CacheSettles
<1>7. CASE UNCHANGED configVars
  BY <1>7 DEF configVars, ConfigTypeOK, ConfigInv, Loading, CacheSettles, resolve
<1> QED
  BY <1>1, <1>2, <1>3, <1>4, <1>5, <1>6, <1>7 DEF ConfigNext

(* However many admins save the configuration, the server ends up with     *)
(* what is stored, unless two of them overlap or a load fails.             *)
(* (platformConfig.ts:112-135.)                                            *)
THEOREM CacheFollows == Spec => []CacheSettles
<1>1. Init => ConfigInv
  BY ConfigInitial DEF Init
<1>2. ConfigInv /\ [Next]_vars => ConfigInv'
  BY ConfigStep, StepOfParts
<1>3. ConfigInv => CacheSettles
  BY DEF ConfigInv
<1> QED
  BY <1>1, <1>2, <1>3, PTL DEF Spec

----------------------------------------------------------------------------
(* The parser.                                                             *)

(* What validateResponse makes of an answer.                               *)
FromAnswer(a) ==
  [source |-> "ai", quantity |-> Rounded(a.quantity),
   intent |-> IF a.intent = Nothing THEN "unknown" ELSE a.intent,
   phone |-> a.phone = "good", score |-> Clamped(a.score)]

Ended == {"parsed", "stored", "rejected"}

(* What an attempt holds at each place: whose result it is, that the model *)
(* was asked for a reason, what is logged, and what the schema said.       *)
AttemptInv(x) ==
  /\ x.at # "idle" => x.text \in Texts
  /\ x.key # Unset => x.at # "idle" /\ x.enabled /\ ~Accepted(ruleBasedParse(x.text))
  /\ x.at # "idle" /\ x.result.source = "rule" => x.result = ruleBasedParse(x.text)
  /\ x.result.source = "ai" =>
       x.at \in Ended /\ x.answer \in Answers /\ x.result = FromAnswer(x.answer)
  /\ x.at \in {"logging", "validating"} => x.answer \in Answers
  /\ x.at = "validating" => "response" \in x.logged
  /\ x.at \in Ended /\ x.key # Unset =>
       IF x.result.source = "ai" THEN "response" \in x.logged
       ELSE "error" \in x.logged \/ x.unlogged
  /\ x.at = "rejected" => ~Storable(x.result)

ParserInv == ParserTypeOK /\ \A p \in Parses : AttemptInv(parse[p])

(* What the rules find is of the types the schema asks for, but for a 0.   *)
LEMMA RuleResult ==
  ASSUME NEW t \in TextType
  PROVE  /\ ruleBasedParse(t) \in ResultType
         /\ ruleBasedParse(t).source = "rule"
         /\ ruleBasedParse(t).score \in 0 .. 10
         /\ ruleBasedParse(t).quantity = 0 => t.counted = 0 /\ t.bare = Nothing
<1> USE ParserAssumption
<1>1. Score(t) \in 0 .. 10
  BY DEF Score, One
<1>2. Counted(t) \in {Nothing} \cup {0, 10, 20} /\ (Counted(t) = 0 => t.counted = 0 /\ t.bare = Nothing)
  BY DEF Counted, TextType
<1>3. t.intent \in Intents /\ t.phone \in BOOLEAN /\ t.spam \in BOOLEAN
  BY DEF TextType, Intents
<1>4. CASE t.spam
  <2>1. ruleBasedParse(t) =
          [source |-> "rule", intent |-> "spam", quantity |-> Nothing, phone |-> FALSE, score |-> 9]
    BY <1>4 DEF ruleBasedParse, NoResult
  <2>2. Nothing # 0
    OBVIOUS
  <2> QED
    BY <2>1, <2>2 DEF ResultType, Intents
<1>5. CASE ~t.spam
  <2>1. ruleBasedParse(t) =
          [source |-> "rule", intent |-> t.intent, quantity |-> Counted(t), phone |-> t.phone,
           score |-> Score(t)]
    BY <1>5 DEF ruleBasedParse
  <2>2. Score(t) \in 0 .. 15
    BY <1>1
  <2> HIDE DEF ParserAssumption
  <2> QED
    BY <2>1, <2>2, <1>1, <1>2, <1>3 DEF ResultType
<1> QED
  BY <1>3, <1>4, <1>5

(* What is made of an answer is so too, but for a quantity below a half.   *)
LEMMA AnswerResult ==
  ASSUME NEW a \in AnswerType
  PROVE  /\ FromAnswer(a) \in ResultType
         /\ FromAnswer(a).source = "ai"
         /\ FromAnswer(a).score \in 0 .. 10
         /\ FromAnswer(a).quantity = 0 => a.quantity \in 1 .. 4
<1> USE ParserAssumption
<1>1. /\ Clamped(a.score) \in 0 .. 10
      /\ Clamped(a.score) \in 0 .. 15
  BY DEF Clamped, AnswerType, Scores
<1>2. Rounded(a.quantity) \in {Nothing} \cup {0, 10, 20} /\ (Rounded(a.quantity) = 0 => a.quantity \in 1 .. 4)
  BY DEF Rounded, AnswerType, Quantities
<1>3. (IF a.intent = Nothing THEN "unknown" ELSE a.intent) \in Intents
  BY DEF AnswerType, Intents
<1> QED
  BY <1>1, <1>2, <1>3 DEF FromAnswer, ResultType

AttemptType ==
  [at : {"idle", "asked", "reading", "logging", "validating", "failing", "parsed",
         "stored", "rejected"},
   text : Texts \cup {Nothing}, enabled : BOOLEAN, key : Values \cup {Unset},
   answer : Answers \cup {Nothing}, logged : SUBSET {"response", "error"},
   unlogged : BOOLEAN, result : ResultType]

LEMMA NoParseIsSound == NoParse \in AttemptType /\ AttemptInv(NoParse)
<1>1. Nothing # 0 /\ NoResult \in ResultType
  BY ParserAssumption DEF NoResult, ResultType, Intents
<1>2. NoParse \in AttemptType
  BY <1>1 DEF NoParse, AttemptType
<1> QED
  BY <1>2 DEF NoParse, NoResult, AttemptInv, Ended

(* A step of one attempt that leaves it sound leaves all of them sound.    *)
LEMMA OneAttempt ==
  ASSUME ParserInv, NEW p \in Parses, NEW x \in AttemptType, AttemptInv(x),
         parse' = [parse EXCEPT ![p] = x]
  PROVE  ParserInv'
<1>1. parse \in [Parses -> AttemptType]
  BY DEF ParserInv, ParserTypeOK, AttemptType
<1>2. parse' \in [Parses -> AttemptType]
  BY <1>1
<1>3. \A q \in Parses : AttemptInv(parse'[q])
  BY <1>1 DEF ParserInv
<1> QED
  BY <1>2, <1>3 DEF ParserInv, ParserTypeOK, AttemptType

LEMMA ParserStep ==
  ASSUME ParserInv, ConfigTypeOK, ParserNext \/ ForgetParses \/ UNCHANGED parse
  PROVE  ParserInv'
<1>t. parse \in [Parses -> AttemptType]
  BY DEF ParserInv, ParserTypeOK, AttemptType
<1>i. \A p \in Parses : AttemptInv(parse[p])
  BY DEF ParserInv
<1>1. ASSUME NEW p \in Parses, NEW t \in Texts, NEW enabled \in BOOLEAN, BeginParse(p, t, enabled)
      PROVE  ParserInv'
  <2> DEFINE r == ruleBasedParse(t)
             asks == ~Accepted(r) /\ enabled /\ cache[aiApiKey] # Unset
             x == [NoParse EXCEPT !.at = IF asks THEN "asked" ELSE "parsed",
                          !.text = t, !.enabled = enabled,
                          !.key = IF asks THEN cache[aiApiKey] ELSE Unset, !.result = r]
  <2>1. r \in ResultType /\ r.source = "rule"
    BY RuleResult, ParserAssumption
  <2>2. cache[aiApiKey] \in Values \cup {Unset}
    BY ParserAssumption DEF ConfigTypeOK, Config
  <2>3. parse' = [parse EXCEPT ![p] = x]
    BY <1>1 DEF BeginParse
  <2>4. x \in AttemptType
    BY <2>1, <2>2, NoParseIsSound DEF AttemptType
  <2>5. AttemptInv(x)
    BY <2>1, NoParseIsSound DEF NoParse, NoResult, AttemptInv, Ended
  <2> QED
    BY <2>3, <2>4, <2>5, OneAttempt
<1>2. ASSUME NEW p \in Parses, Fetched(p) PROVE ParserInv'
  <2> DEFINE x == [parse[p] EXCEPT !.at = "reading"]
  <2>1. parse' = [parse EXCEPT ![p] = x] /\ parse[p].at = "asked"
    BY <1>2, <1>t DEF Fetched
  <2>2. x \in AttemptType /\ AttemptInv(x)
    BY <1>t, <1>i, <2>1 DEF AttemptType, AttemptInv, Ended
  <2> QED
    BY <2>1, <2>2, OneAttempt
<1>3. ASSUME NEW p \in Parses, FetchFails(p) PROVE ParserInv'
  <2> DEFINE x == [parse[p] EXCEPT !.at = "failing"]
  <2>1. parse' = [parse EXCEPT ![p] = x] /\ parse[p].at \in {"asked", "reading"}
    BY <1>3, <1>t DEF FetchFails
  <2>2. x \in AttemptType
    BY <1>t, <2>1 DEF AttemptType
  <2>3. /\ x.at = "failing" /\ x.text = parse[p].text /\ x.enabled = parse[p].enabled
        /\ x.key = parse[p].key /\ x.answer = parse[p].answer /\ x.logged = parse[p].logged
        /\ x.unlogged = parse[p].unlogged /\ x.result = parse[p].result
    BY <1>t DEF AttemptType
  <2> HIDE DEF x
  <2>4. AttemptInv(x)
    BY <1>i, <2>1, <2>3 DEF AttemptInv, Ended
  <2> QED
    BY <2>1, <2>2, <2>4, OneAttempt
<1>4. ASSUME NEW p \in Parses, NEW a \in Answers, ReadBody(p, a) PROVE ParserInv'
  <2> DEFINE x == [parse[p] EXCEPT !.at = "logging", !.answer = a]
  <2>1. parse' = [parse EXCEPT ![p] = x] /\ parse[p].at = "reading"
    BY <1>4, <1>t DEF ReadBody
  <2>2. x \in AttemptType
    <3>1. parse[p] \in AttemptType /\ a \in Answers \cup {Nothing}
      BY <1>t
    <3> QED
      BY <3>1 DEF AttemptType
  <2>3. /\ x.at = "logging" /\ x.text = parse[p].text /\ x.enabled = parse[p].enabled
        /\ x.key = parse[p].key /\ x.answer = a /\ x.logged = parse[p].logged
        /\ x.unlogged = parse[p].unlogged /\ x.result = parse[p].result
    BY <1>t DEF AttemptType
  <2> HIDE DEF x
  <2>4. AttemptInv(x)
    BY <1>i, <2>1, <2>3 DEF AttemptInv, Ended
  <2> QED
    BY <2>1, <2>2, <2>4, OneAttempt
<1>5. ASSUME NEW p \in Parses, NEW ok \in BOOLEAN, LogResponse(p, ok) PROVE ParserInv'
  <2> DEFINE x == [parse[p] EXCEPT !.at = IF ok THEN "validating" ELSE "failing",
                                   !.logged = IF ok THEN @ \cup {"response"} ELSE @]
  <2>1. parse' = [parse EXCEPT ![p] = x] /\ parse[p].at = "logging"
    BY <1>5, <1>t DEF LogResponse
  <2>2. parse[p] \in AttemptType /\ AttemptInv(parse[p])
    BY <1>t, <1>i
  <2>3. x \in AttemptType
    BY <2>2 DEF AttemptType
  <2>4. /\ x.at = IF ok THEN "validating" ELSE "failing"
        /\ x.logged = IF ok THEN parse[p].logged \cup {"response"} ELSE parse[p].logged
        /\ x.text = parse[p].text /\ x.key = parse[p].key /\ x.enabled = parse[p].enabled
        /\ x.result = parse[p].result /\ x.answer = parse[p].answer
    BY <2>2 DEF AttemptType
  <2>5. AttemptInv(x)
    BY <2>1, <2>2, <2>4 DEF AttemptInv, Ended
  <2> QED
    BY <2>1, <2>3, <2>5, OneAttempt
<1>6. ASSUME NEW p \in Parses, NEW ok \in BOOLEAN, LogError(p, ok) PROVE ParserInv'
  <2> DEFINE x == [parse[p] EXCEPT !.at = "parsed", !.unlogged = ~ok,
                                   !.logged = IF ok THEN @ \cup {"error"} ELSE @]
  <2>1. parse' = [parse EXCEPT ![p] = x] /\ parse[p].at = "failing"
    BY <1>6, <1>t DEF LogError
  <2>2. parse[p] \in AttemptType /\ AttemptInv(parse[p])
    BY <1>t, <1>i
  <2>3. x \in AttemptType
    BY <2>2 DEF AttemptType
  <2>4. /\ x.at = "parsed"
        /\ x.logged = IF ok THEN parse[p].logged \cup {"error"} ELSE parse[p].logged
        /\ x.text = parse[p].text /\ x.key = parse[p].key /\ x.enabled = parse[p].enabled
        /\ x.result = parse[p].result /\ x.answer = parse[p].answer
    BY <2>2 DEF AttemptType
  <2>5. "error" \in x.logged \/ x.unlogged
    <3>1. CASE ok
      BY <2>4, <3>1
    <3>2. CASE ~ok
      BY <2>2, <3>2 DEF AttemptType
    <3> QED
      BY <3>1, <3>2
  <2>6. parse[p].result.source # "ai"
    BY <2>1, <2>2 DEF AttemptInv, Ended
  <2> HIDE DEF x
  <2>7. AttemptInv(x)
    BY <2>1, <2>2, <2>4, <2>5, <2>6 DEF AttemptInv, Ended
  <2> QED
    BY <2>1, <2>3, <2>7, OneAttempt
<1>7. ASSUME NEW p \in Parses, ValidateResponse(p) PROVE ParserInv'
  <2> DEFINE a == parse[p].answer
             x == IF a.object THEN [parse[p] EXCEPT !.at = "parsed", !.result = FromAnswer(a)]
                              ELSE [parse[p] EXCEPT !.at = "failing"]
  <2>1. parse' = [parse EXCEPT ![p] = x] /\ parse[p].at = "validating"
    BY <1>7, <1>t DEF ValidateResponse, FromAnswer
  <2>2. a \in Answers /\ a \in AnswerType
    BY <1>i, <2>1, ParserAssumption DEF AttemptInv
  <2>3. FromAnswer(a) \in ResultType /\ FromAnswer(a).source = "ai"
    BY <2>2, AnswerResult
  <2>4. /\ x \in AttemptType
        /\ x.text = parse[p].text /\ x.enabled = parse[p].enabled /\ x.key = parse[p].key
        /\ x.answer = a /\ x.logged = parse[p].logged /\ x.unlogged = parse[p].unlogged
        /\ a.object => x.at = "parsed" /\ x.result = FromAnswer(a)
        /\ ~a.object => x.at = "failing" /\ x.result = parse[p].result
    BY <1>t, <2>3 DEF AttemptType
  <2> HIDE DEF x
  <2>5. AttemptInv(x)
    BY <1>i, <2>1, <2>2, <2>3, <2>4 DEF AttemptInv, Ended
  <2> QED
    BY <2>1, <2>4, <2>5, OneAttempt
<1>8. ASSUME NEW p \in Parses, StoreParsed(p) PROVE ParserInv'
  <2> DEFINE x == [parse[p] EXCEPT !.at = IF Storable(parse[p].result) THEN "stored" ELSE "rejected"]
  <2>1. parse' = [parse EXCEPT ![p] = x] /\ parse[p].at = "parsed"
    BY <1>8, <1>t DEF StoreParsed
  <2>2. x \in AttemptType /\ AttemptInv(x)
    BY <1>t, <1>i, <2>1 DEF AttemptType, AttemptInv, Ended
  <2> QED
    BY <2>1, <2>2, OneAttempt
<1>9. CASE ForgetParses
  <2>1. parse' \in [Parses -> AttemptType]
    BY <1>9, <1>t, NoParseIsSound DEF ForgetParses
  <2>2. \A p \in Parses : AttemptInv(parse'[p])
    BY <1>9, <1>i, NoParseIsSound DEF ForgetParses
  <2> QED
    BY <2>1, <2>2 DEF ParserInv, ParserTypeOK, AttemptType
<1>10. CASE UNCHANGED parse
  BY <1>10 DEF ParserInv, ParserTypeOK
<1> QED
  BY <1>1, <1>2, <1>3, <1>4, <1>5, <1>6, <1>7, <1>8, <1>9, <1>10 DEF ParserNext

LEMMA ParserInvariant == Spec => []ParserInv
<1>1. Init => ConfigInv /\ ParserInv
  <2> SUFFICES ASSUME Init PROVE ConfigInv /\ ParserInv
    OBVIOUS
  <2>1. parse \in [Parses -> AttemptType] /\ \A p \in Parses : AttemptInv(parse[p])
    BY NoParseIsSound DEF Init, ParserInit
  <2> QED
    BY <2>1, ConfigInitial DEF Init, ParserInv, ParserTypeOK, AttemptType
<1>2. ConfigInv /\ ParserInv /\ [Next]_vars => ConfigInv' /\ ParserInv'
  BY ConfigStep, ParserStep, StepOfParts DEF ConfigInv
<1> QED
  BY <1>1, <1>2, PTL DEF Spec

(* Whatever the texts, a language model is asked only of those in which    *)
(* the rules find two things at most.  (The weights of                     *)
(* ruleParser.ts:98-161 against the threshold of hybridParser.ts:5.)       *)
THEOREM AskedOnlyWhenUnsure == Spec => []AiOnlyWhenUnsure
<1>1. ParserInv => AiOnlyWhenUnsure
  <2> SUFFICES ASSUME ParserInv, NEW p \in Parses, parse[p].key # Unset
               PROVE  /\ parse[p].enabled
                      /\ ~parse[p].text.spam
                      /\ ~\E x, y, z \in Found(parse[p].text) : x # y /\ y # z /\ x # z
    BY DEF AiOnlyWhenUnsure
  <2> DEFINE t == parse[p].text
  <2>1. t \in TextType /\ parse[p].enabled /\ ~Accepted(ruleBasedParse(t))
    BY ParserAssumption DEF ParserInv, AttemptInv
  <2>2. ~t.spam
    BY <2>1 DEF ruleBasedParse, NoResult, Accepted
  <2>3. Score(t) < 7
    BY <2>1, <2>2 DEF ruleBasedParse, Accepted, Score, One, TextType
  <2>4. ~\E x, y, z \in Found(t) : x # y /\ y # z /\ x # z
    <3>1. \A f \in Found(t) : f \in {"intent", "phone", "address", "product"}
      BY DEF Found
    <3>2. /\ "intent" \in Found(t) <=> t.intent # "unknown"
          /\ "phone" \in Found(t) <=> t.phone
          /\ "address" \in Found(t) <=> t.address
          /\ "product" \in Found(t) <=> t.product
      BY DEF Found
    <3>3. /\ One(t.intent # "unknown", 2) = IF t.intent # "unknown" THEN 2 ELSE 0
          /\ One(t.phone, 3) = IF t.phone THEN 3 ELSE 0
          /\ One(t.address, 2) = IF t.address THEN 2 ELSE 0
          /\ One(t.product, 3) = IF t.product THEN 3 ELSE 0
      BY DEF One
    <3>4. /\ ~("intent" \in Found(t) /\ "phone" \in Found(t) /\ "address" \in Found(t))
          /\ ~("intent" \in Found(t) /\ "phone" \in Found(t) /\ "product" \in Found(t))
          /\ ~("intent" \in Found(t) /\ "address" \in Found(t) /\ "product" \in Found(t))
          /\ ~("phone" \in Found(t) /\ "address" \in Found(t) /\ "product" \in Found(t))
      BY <2>3, <3>2, <3>3 DEF Score
    <3> QED
      BY <3>1, <3>4
  <2> QED
    BY <2>1, <2>2, <2>4
<1> QED
  BY <1>1, ParserInvariant, PTL

(* Whatever the texts and the answers, the schema rejects nothing but a    *)
(* quantity of 0.  (aiParser.ts:63-84, ruleParser.ts:111-127.)             *)
THEOREM RejectedForZero == Spec => []OnlyZeroIsRejected
<1>1. ParserInv => OnlyZeroIsRejected
  <2> SUFFICES ASSUME ParserInv, NEW p \in Parses, parse[p].at = "rejected"
               PROVE  /\ parse[p].result.quantity = 0
                      /\ IF parse[p].result.source = "ai"
                           THEN parse[p].answer.quantity \in 1 .. 4
                           ELSE parse[p].text.counted = 0 /\ parse[p].text.bare = Nothing
    BY DEF OnlyZeroIsRejected
  <2> DEFINE r == parse[p].result
  <2>1. /\ r \in ResultType /\ ~Storable(r)
        /\ r.source = "ai" => parse[p].answer \in AnswerType /\ r = FromAnswer(parse[p].answer)
        /\ r.source = "rule" => parse[p].text \in TextType /\ r = ruleBasedParse(parse[p].text)
    BY ParserAssumption DEF ParserInv, ParserTypeOK, AttemptInv
  <2>2. r.score \in 0 .. 10 /\ r.source \in {"rule", "ai"}
    BY <2>1, RuleResult, AnswerResult DEF ResultType
  <2>3. r.quantity = 0
    BY <2>1, <2>2 DEF Storable, ResultType
  <2> QED
    BY <2>1, <2>2, <2>3, RuleResult, AnswerResult
<1> QED
  BY <1>1, ParserInvariant, PTL

(* Every call of the model leaves a trace.  (aiParser.ts:132, :152-158.)   *)
THEOREM CallsAreLogged == Spec => []LogsTell
<1>1. ParserInv => LogsTell
  BY DEF ParserInv, AttemptInv, Ended, LogsTell
<1> QED
  BY <1>1, ParserInvariant, PTL

----------------------------------------------------------------------------
(* The pages.                                                              *)

RequestType ==
  [at : {"idle", "code", "token", "list", "find", "create", "save", "subscribe", "mark",
         "clear", "done", "failed"},
   kind : Kinds, tenant : Tenants \cup {None}, todo : Seq(Pages), seen : PageType,
   did : SUBSET Pages, app : Values \cup {Unset}]

(* Where a request is at a page, and where it is a tenant's.               *)
AtPage == {"find", "create", "save", "subscribe", "mark"}
OfTenant == AtPage \cup {"code", "token", "list", "clear"}

RequestInv(x) ==
  /\ x.at \in AtPage => x.todo # <<>>
  /\ x.at \in OfTenant \/ x.did # {} => x.tenant \in Tenants
  /\ x.at = "create" => x.kind \in Connects
  /\ x.at \in {"subscribe", "mark"} => Head(x.todo) \in x.did

RequestsInv == PagesTypeOK /\ \A r \in Requests : RequestInv(request[r])

(* A document has an owner and a token; pageId is unique on the tenants.   *)
DocumentsInv ==
  /\ \A p \in Pages : page[p] # NoPage => page[p].owner \in Tenants /\ page[p].token \in Requests
  /\ \A t, u \in Tenants :
       t # u /\ tenantPage[t].page # None => tenantPage[t].page # tenantPage[u].page

(* What a request that is about to save still knows.                       *)
KnownAtSave(r) ==
  LET p == This(r) IN
    /\ page[p].owner = request[r].tenant
    /\ request[r].seen.active /\ Undisturbed(r, p, {"removed"}) => page[p].active
    /\ ~request[r].seen.active /\ Undisturbed(r, p, {"connected"}) => ~page[p].active

(* What holds of a page that a request has written.                        *)
Kept(r, p) ==
  /\ page[p].owner = request[r].tenant
  /\ request[r].kind \in Connects /\ Undisturbed(r, p, {"removed"}) => page[p].active
  /\ request[r].kind # "removePage" /\ Undisturbed(r, p, {"connected", "rotated"}) =>
       page[p].token = r
  /\ request[r].kind = "removePage" /\ Undisturbed(r, p, {"connected"}) => ~page[p].active

ServiceInv ==
  /\ RequestsInv
  /\ DocumentsInv
  /\ \A r \in Requests : request[r].at = "save" => KnownAtSave(r)
  /\ \A r \in Requests : \A p \in request[r].did : Kept(r, p)

(* What Facebook was asked for is about a document.                        *)
BadgeInv ==
  /\ \A r \in Requests : request[r].at = "mark" => This(r) \in subscribed
  /\ \A p \in subscribed : page[p] # NoPage
  /\ BadgeIsHonest

DocumentsTypeOK ==
  /\ page \in [Pages -> PageType]
  /\ tenantPage \in [Tenants -> [page : Pages \cup {None}, token : Requests \cup {None}]]
  /\ pending \in [Tenants -> SUBSET Pages]
  /\ subscribed \in SUBSET Pages
  /\ pageFaults \in 0 .. MaxPageFaults
  /\ disturbed \in [Requests -> SUBSET (Pages \X {"connected", "removed", "rotated"})]

LEMMA TypesInTwo ==
  PagesTypeOK <=> DocumentsTypeOK /\ request \in [Requests -> RequestType]
BY DEF PagesTypeOK, DocumentsTypeOK, RequestType

(* A step of one request that leaves it sound leaves all of them sound.    *)
LEMMA OneRequest ==
  ASSUME RequestsInv, NEW r \in Requests, NEW x \in RequestType, RequestInv(x),
         request' = [request EXCEPT ![r] = x], DocumentsTypeOK'
  PROVE  RequestsInv'
<1>1. request \in [Requests -> RequestType] /\ \A q \in Requests : RequestInv(request[q])
  BY TypesInTwo DEF RequestsInv
<1>2. request' \in [Requests -> RequestType] /\ \A q \in Requests : RequestInv(request'[q])
  BY <1>1
<1>3. PagesTypeOK'
  BY <1>2 DEF PagesTypeOK, DocumentsTypeOK, RequestType
<1> QED
  BY <1>2, <1>3 DEF RequestsInv

LEMMA NoPageType == NoPage \in PageType
BY DEF NoPage, PageType

LEMMA NoRequestType == NoRequest \in RequestType /\ NoRequest.did = {} /\ RequestInv(NoRequest)
<1>1. <<>> \in Seq(Pages) /\ "addPage" \in Kinds
  BY DEF Kinds, Connects
<1> QED
  BY <1>1, NoPageType DEF NoRequest, RequestType, RequestInv, AtPage, OfTenant

(* A request at no page is at no place of its list.                        *)
LEMMA NewRequest ==
  ASSUME NEW at \in {"code", "failed"}, NEW kind \in Kinds, NEW t \in Tenants
  PROVE  LET x == [NoRequest EXCEPT !.at = at, !.kind = kind, !.tenant = t, !.todo = <<>>]
         IN x \in RequestType /\ RequestInv(x)
<1> DEFINE x == [NoRequest EXCEPT !.at = at, !.kind = kind, !.tenant = t, !.todo = <<>>]
<1>1. NoRequest \in RequestType /\ NoRequest.did = {}
  BY NoRequestType
<1>2. x.at = at /\ x.did = {} /\ x.tenant = t
  BY <1>1 DEF RequestType
<1>5. <<>> \in Seq(Pages)
  OBVIOUS
<1>3. x \in RequestType
  BY <1>1, <1>5 DEF RequestType
<1> HIDE DEF x
<1>4. RequestInv(x)
  BY <1>2 DEF RequestInv, AtPage, OfTenant
<1> QED
  BY <1>3, <1>4 DEF x

LEMMA NewRequestAtPage ==
  ASSUME NEW kind \in Kinds, NEW t \in Tenants, NEW todo \in Seq(Pages), todo # <<>>
  PROVE  LET x == [NoRequest EXCEPT !.at = "find", !.kind = kind, !.tenant = t, !.todo = todo]
         IN x \in RequestType /\ RequestInv(x)
<1> DEFINE x == [NoRequest EXCEPT !.at = "find", !.kind = kind, !.tenant = t, !.todo = todo]
<1>1. NoRequest \in RequestType /\ NoRequest.did = {}
  BY NoRequestType
<1>2. x \in RequestType
  BY <1>1 DEF RequestType
<1>4. x.at = "find" /\ x.did = {} /\ x.tenant = t /\ x.todo = todo
  BY <1>1 DEF RequestType
<1> HIDE DEF x
<1>3. RequestInv(x)
  BY <1>4 DEF RequestInv, AtPage, OfTenant
<1> QED
  BY <1>2, <1>3 DEF x

(* The lists a login and a selection work through.                         *)
LEMMA ListsOfPages ==
  ASSUME NEW ps \in SUBSET Pages
  PROVE  /\ Cardinality(ps) \in Nat
         /\ Cardinality(ps) = 0 <=> ps = {}
         /\ \A todo \in SetToSeqs(ps) : todo \in Seq(Pages) /\ (ps # {} => todo # <<>>)
         /\ Cardinality(ps) = 1 => SetToSeq(ps) \in Seq(Pages) /\ SetToSeq(ps) # <<>>
<1>1. IsFiniteSet(ps)
  BY PagesAssumption, FS_Subset
<1>2. Cardinality(ps) \in Nat
  BY <1>1, FS_CardinalityType
<1>3. Cardinality(ps) = 0 <=> ps = {}
  BY <1>1, FS_EmptySet
<1>4. ASSUME NEW f \in [1 .. Cardinality(ps) -> ps]
      PROVE  f \in Seq(Pages) /\ (ps # {} => f # <<>>)
  <2>1. f \in Seq(Pages) /\ Len(f) = Cardinality(ps)
    BY <1>2
  <2> QED
    BY <1>3, <2>1
<1>5. \A todo \in SetToSeqs(ps) : todo \in [1 .. Cardinality(ps) -> ps]
  BY DEF SetToSeqs
<1>6. ASSUME Cardinality(ps) = 1 PROVE SetToSeq(ps) \in [1 .. Cardinality(ps) -> ps]
  <2>1. PICK p : ps = {p}
    BY <1>1, <1>6, FS_Singleton
  <2> DEFINE one == [i \in 1 .. 1 |-> p]
  <2>2. one \in [1 .. Cardinality(ps) -> ps] /\ IsInjective(one)
    BY <1>6, <2>1 DEF IsInjective
  <2> QED
    BY <2>2 DEF SetToSeq
<1> QED
  BY <1>2, <1>3, <1>4, <1>5, <1>6

(* The step to the next page of the list.                                  *)
Advanced(x) ==
  [x EXCEPT !.todo = Tail(x.todo),
            !.at = IF Len(x.todo) > 1 THEN "find"
                   ELSE IF x.kind = "select" THEN "clear" ELSE "done"]

LEMMA AdvancedIsSound ==
  ASSUME NEW x \in RequestType, RequestInv(x), x.at \in AtPage
  PROVE  /\ Advanced(x) \in RequestType
         /\ RequestInv(Advanced(x))
         /\ Advanced(x).at \in {"find", "clear", "done"}
         /\ Advanced(x).did = x.did /\ Advanced(x).kind = x.kind /\ Advanced(x).tenant = x.tenant
<1>1. x.todo \in Seq(Pages) /\ x.todo # <<>> /\ x.tenant \in Tenants
  BY DEF RequestType, RequestInv, OfTenant
<1>2. Tail(x.todo) \in Seq(Pages) /\ (Len(x.todo) > 1 => Tail(x.todo) # <<>>)
  <2>1. Tail(x.todo) \in Seq(Pages) /\ Len(Tail(x.todo)) = Len(x.todo) - 1 /\ Len(x.todo) \in Nat
    BY <1>1
  <2> DEFINE rest == Tail(x.todo)
  <2> HIDE DEF rest
  <2>2. rest \in Seq(Pages) /\ Len(rest) = Len(x.todo) - 1 /\ Len(x.todo) \in Nat
    BY <2>1 DEF rest
  <2>3. rest = <<>> => Len(rest) = 0
    OBVIOUS
  <2>4. rest \in Seq(Pages) /\ (Len(x.todo) > 1 => rest # <<>>)
    BY <2>2, <2>3
  <2> QED
    BY <2>4 DEF rest
<1> DEFINE at == IF Len(x.todo) > 1 THEN "find" ELSE IF x.kind = "select" THEN "clear" ELSE "done"
<1>3. at \in {"find", "clear", "done"} /\ (at = "find" => Len(x.todo) > 1)
  OBVIOUS
<1> HIDE DEF at
<1> DEFINE y == [x EXCEPT !.todo = Tail(x.todo), !.at = at]
<1>4. /\ y \in RequestType
      /\ y.at = at /\ y.todo = Tail(x.todo)
      /\ y.did = x.did /\ y.kind = x.kind /\ y.tenant = x.tenant
  BY <1>2, <1>3 DEF RequestType
<1> HIDE DEF y
<1>5. RequestInv(y)
  BY <1>1, <1>2, <1>3, <1>4 DEF RequestInv, AtPage, OfTenant
<1> QED
  BY <1>3, <1>4, <1>5 DEF Advanced, y, at

(* What the steps of requests need of the invariant.                       *)
LEMMA FromService ==
  ASSUME ServiceInv
  PROVE  /\ DocumentsTypeOK /\ request \in [Requests -> RequestType]
         /\ \A r \in Requests :
              /\ RequestInv(request[r])
              /\ request[r].at \in AtPage => This(r) \in Pages /\ request[r].tenant \in Tenants
              /\ request[r].did # {} => request[r].tenant \in Tenants
<1>1. DocumentsTypeOK /\ request \in [Requests -> RequestType]
      /\ \A r \in Requests : RequestInv(request[r])
  BY TypesInTwo DEF ServiceInv, RequestsInv
<1>2. ASSUME NEW r \in Requests, request[r].at \in AtPage
      PROVE  This(r) \in Pages /\ request[r].tenant \in Tenants
  <2>1. request[r].todo \in Seq(Pages) /\ request[r].todo # <<>> /\ request[r].tenant \in Tenants
    BY <1>1, <1>2 DEF RequestInv, OfTenant, RequestType
  <2>2. Head(request[r].todo) \in Pages
    BY <2>1
  <2> QED
    BY <2>1, <2>2 DEF This
<1>3. ASSUME NEW r \in Requests, request[r].did # {} PROVE request[r].tenant \in Tenants
  BY <1>1, <1>3 DEF RequestInv
<1> QED
  BY <1>1, <1>2, <1>3

(* A step that writes neither owner nor token nor activity of a page.      *)
LEMMA QuietStep ==
  ASSUME ServiceInv, NEW r \in Requests, NEW x \in RequestType, RequestInv(x),
         request' = [request EXCEPT ![r] = x],
         x.at # "save",
         \/ x.did = {}
         \/ x.did = request[r].did /\ x.kind = request[r].kind /\ x.tenant = request[r].tenant,
         UNCHANGED disturbed,
         \A p \in Pages : /\ page'[p].owner = page[p].owner
                          /\ page'[p].active = page[p].active
                          /\ page'[p].token = page[p].token,
         DocumentsTypeOK', DocumentsInv'
  PROVE  ServiceInv'
<1>1. RequestsInv'
  BY OneRequest DEF ServiceInv
<1>2. request \in [Requests -> RequestType] /\ request'[r] = x
      /\ \A q \in Requests : q # r => request'[q] = request[q]
  BY FromService
<1>3. ASSUME NEW q \in Requests, request'[q].at = "save" PROVE KnownAtSave(q)'
  <2>1. q # r /\ request'[q] = request[q] /\ KnownAtSave(q) /\ This(q) \in Pages
    BY <1>2, <1>3, FromService DEF ServiceInv, AtPage
  <2> QED
    BY <2>1 DEF KnownAtSave, This, Undisturbed
<1>4. ASSUME NEW q \in Requests, NEW p \in request'[q].did PROVE Kept(q, p)'
  <2>1. /\ p \in request[q].did
        /\ request'[q].kind = request[q].kind /\ request'[q].tenant = request[q].tenant
    BY <1>2, <1>4
  <2>2. Kept(q, p) /\ p \in Pages
    BY <1>2, <2>1 DEF ServiceInv, RequestType
  <2> QED
    BY <2>1, <2>2 DEF Kept, Undisturbed
<1> QED
  BY <1>1, <1>3, <1>4 DEF ServiceInv

(* One that writes no document at all.                                     *)
LEMMA RequestOnly ==
  ASSUME ServiceInv, NEW r \in Requests, NEW x \in RequestType, RequestInv(x),
         request' = [request EXCEPT ![r] = x],
         x.at # "save",
         \/ x.did = {}
         \/ x.did = request[r].did /\ x.kind = request[r].kind /\ x.tenant = request[r].tenant,
         UNCHANGED <<page, tenantPage, pageFaults, disturbed>>,
         pending' \in [Tenants -> SUBSET Pages], subscribed' \in SUBSET Pages
  PROVE  ServiceInv'
<1>1. DocumentsTypeOK'
  BY FromService DEF DocumentsTypeOK
<1>2. DocumentsInv'
  BY DEF ServiceInv, DocumentsInv
<1> QED
  BY <1>1, <1>2, QuietStep

LEMMA CreateStep ==
  ASSUME ServiceInv, NEW r \in Requests, CreatePage(r), page[This(r)] = NoPage
  PROVE  /\ ServiceInv'
         /\ \A p \in Pages : page[p] # NoPage => page'[p] = page[p]
<1> DEFINE p0 == This(r)
           x == [request[r] EXCEPT !.did = @ \cup {p0},
                   !.at = IF request[r].kind \in {"callback", "select"} THEN "subscribe" ELSE "done"]
<1>1. /\ DocumentsTypeOK /\ request \in [Requests -> RequestType]
      /\ RequestInv(request[r]) /\ request[r].at = "create"
      /\ p0 \in Pages /\ request[r].tenant \in Tenants
      /\ request[r].kind \in Connects
      /\ Head(request[r].todo) = p0
      /\ request[r].todo # <<>>
  BY FromService DEF CreatePage, AtPage, RequestInv, This
<1>2. request' = [request EXCEPT ![r] = x]
  BY <1>1 DEF CreatePage, Saved
<1>3. /\ x \in RequestType
      /\ x.did = request[r].did \cup {p0} /\ x.kind = request[r].kind /\ x.tenant = request[r].tenant
      /\ x.todo = request[r].todo
      /\ x.at \in {"subscribe", "done"}
  BY <1>1 DEF RequestType
<1>4. RequestInv(x)
  BY <1>1, <1>3 DEF RequestInv, AtPage, OfTenant
<1>5. /\ page' = [page EXCEPT ![p0] =
               [owner |-> request[r].tenant, token |-> r, active |-> TRUE, subscribed |-> FALSE]]
      /\ UNCHANGED <<tenantPage, pending, subscribed, pageFaults>>
  BY DEF CreatePage
<1>6. /\ page \in [Pages -> PageType]
      /\ page'[p0].owner = request[r].tenant /\ page'[p0].token = r /\ page'[p0].active
      /\ \A p \in Pages : p # p0 => page'[p] = page[p]
  BY <1>1, <1>5 DEF DocumentsTypeOK
<1>7. page' \in [Pages -> PageType]
  BY <1>1, <1>5, <1>6 DEF PageType
<1>8. /\ disturbed' \in [Requests -> SUBSET (Pages \X {"connected", "removed", "rotated"})]
      /\ \A q \in Requests : disturbed[q] \subseteq disturbed'[q]
  BY <1>1 DEF CreatePage, Disturbing, DocumentsTypeOK
<1> HIDE DEF x
<1>9. DocumentsTypeOK'
  BY <1>1, <1>5, <1>7, <1>8 DEF DocumentsTypeOK
<1>10. RequestsInv'
  BY <1>2, <1>3, <1>4, <1>9, OneRequest DEF ServiceInv
<1>11. DocumentsInv'
  BY <1>1, <1>5, <1>6 DEF ServiceInv, DocumentsInv
<1>12. request'[r] = x /\ \A q \in Requests : q # r => request'[q] = request[q]
  BY <1>1, <1>2
<1>13. page[p0].owner \notin Tenants
  BY PagesAssumption DEF NoPage
<1>14. ASSUME NEW q \in Requests, request'[q].at = "save" PROVE KnownAtSave(q)'
  <2>1. q # r /\ request'[q] = request[q] /\ KnownAtSave(q)
        /\ This(q) \in Pages /\ request[q].tenant \in Tenants
    BY <1>3, <1>12, <1>14, FromService DEF ServiceInv, AtPage
  <2>2. This(q) # p0
    BY <2>1, <1>13 DEF KnownAtSave
  <2> QED
    BY <2>1, <2>2, <1>6, <1>8 DEF KnownAtSave, This, Undisturbed
<1>15. ASSUME NEW q \in Requests, NEW p \in request'[q].did PROVE Kept(q, p)'
  <2>1. request'[q].kind = request[q].kind /\ request'[q].tenant = request[q].tenant
    BY <1>3, <1>12
  <2>2. CASE q = r /\ p = p0
    BY <1>1, <1>6, <2>1, <2>2 DEF Kept, Connects
  <2>3. CASE ~(q = r /\ p = p0)
    <3>1. p \in request[q].did
      BY <1>3, <1>12, <1>15, <2>3
    <3>2. Kept(q, p) /\ p \in Pages /\ request[q].tenant \in Tenants
      BY <1>1, <3>1, FromService DEF ServiceInv, RequestType
    <3>3. p # p0
      BY <3>2, <1>13 DEF Kept
    <3> QED
      BY <2>1, <3>2, <3>3, <1>6, <1>8 DEF Kept, Undisturbed
  <2> QED
    BY <2>2, <2>3
<1> QED
  BY <1>6, <1>10, <1>11, <1>14, <1>15 DEF ServiceInv

(* What a save changes of a document, and how it is told to the others.    *)
How(r) == CASE request[r].kind = "removePage" -> "removed"
            [] request[r].kind = "rotateToken" -> "rotated"
            [] OTHER -> "connected"

LEMMA ChangedFields ==
  ASSUME NEW r \in Requests, request[r] \in RequestType, NEW now \in PageType
  PROVE  LET new == Changed(r, now) IN
         /\ new \in PageType /\ new.owner = now.owner /\ new.subscribed = now.subscribed
         /\ request[r].kind = "removePage" =>
              new.token = now.token /\ new.active = (now.active /\ ~request[r].seen.active)
         /\ request[r].kind = "rotateToken" => new.token = r /\ new.active = now.active
         /\ request[r].kind \in Connects =>
              new.token = r /\ new.active = (now.active \/ ~request[r].seen.active)
<1>1. request[r].seen.active \in BOOLEAN /\ request[r].kind \in Kinds /\ now.active \in BOOLEAN
  BY DEF RequestType, PageType
<1>2. CASE request[r].kind = "removePage"
  <2>1. Changed(r, now) = [now EXCEPT !.active = IF request[r].seen.active THEN FALSE ELSE now.active]
    BY <1>2 DEF Changed
  <2>2. request[r].kind # "rotateToken" /\ request[r].kind \notin Connects
    BY <1>2 DEF Connects
  <2>3. CASE request[r].seen.active
    BY <1>1, <1>2, <2>1, <2>2, <2>3 DEF PageType
  <2>4. CASE ~request[r].seen.active
    BY <1>1, <1>2, <2>1, <2>2, <2>4 DEF PageType
  <2> QED
    BY <2>3, <2>4
<1>3. CASE request[r].kind = "rotateToken"
  <2>1. Changed(r, now) = [now EXCEPT !.token = r]
    BY <1>3 DEF Changed
  <2> QED
    BY <1>3, <2>1 DEF PageType, Connects
<1>4. CASE request[r].kind \in Connects
  <2>1. Changed(r, now) = [now EXCEPT !.token = r,
                             !.active = IF request[r].seen.active THEN now.active ELSE TRUE]
    BY <1>4 DEF Changed, Connects
  <2>2. request[r].kind # "rotateToken" /\ request[r].kind # "removePage"
    BY <1>4 DEF Connects
  <2>3. CASE request[r].seen.active
    BY <1>1, <1>4, <2>1, <2>2, <2>3 DEF PageType
  <2>4. CASE ~request[r].seen.active
    BY <1>1, <1>4, <2>1, <2>2, <2>4 DEF PageType
  <2> QED
    BY <2>3, <2>4
<1> QED
  BY <1>1, <1>2, <1>3, <1>4 DEF Kinds

LEMMA SaveStep ==
  ASSUME ServiceInv, NEW r \in Requests, SavePage(r)
  PROVE  /\ ServiceInv'
         /\ \A p \in Pages : page'[p].owner = page[p].owner
<1> DEFINE p0 == This(r)
           x == [request[r] EXCEPT !.did = @ \cup {p0},
                   !.at = IF request[r].kind \in {"callback", "select"} THEN "subscribe" ELSE "done"]
<1>1. /\ DocumentsTypeOK /\ request \in [Requests -> RequestType]
      /\ RequestInv(request[r]) /\ request[r].at = "save"
      /\ p0 \in Pages /\ request[r].tenant \in Tenants
      /\ Head(request[r].todo) = p0
      /\ request[r].todo # <<>>
  BY FromService DEF SavePage, AtPage, RequestInv, This
<1>2. request' = [request EXCEPT ![r] = x]
  BY <1>1 DEF SavePage, Saved
<1>3. /\ x \in RequestType
      /\ x.did = request[r].did \cup {p0} /\ x.kind = request[r].kind /\ x.tenant = request[r].tenant
      /\ x.todo = request[r].todo
      /\ x.at \in {"subscribe", "done"}
  BY <1>1 DEF RequestType
<1>4. RequestInv(x)
  BY <1>1, <1>3 DEF RequestInv, AtPage, OfTenant
<1>5. /\ page' = [page EXCEPT ![p0] = Changed(r, page[p0])]
      /\ UNCHANGED <<tenantPage, pending, subscribed, pageFaults>>
  BY <1>1 DEF SavePage, DocumentsTypeOK
<1>6. /\ page \in [Pages -> PageType]
      /\ page'[p0] = Changed(r, page[p0])
      /\ \A p \in Pages : p # p0 => page'[p] = page[p]
  BY <1>1, <1>5 DEF DocumentsTypeOK
<1>7. /\ page'[p0] \in PageType /\ page'[p0].owner = page[p0].owner
      /\ request[r].kind = "removePage" =>
           page'[p0].token = page[p0].token /\ page'[p0].active = (page[p0].active /\ ~request[r].seen.active)
      /\ request[r].kind = "rotateToken" => page'[p0].token = r /\ page'[p0].active = page[p0].active
      /\ request[r].kind \in Connects =>
           page'[p0].token = r /\ page'[p0].active = (page[p0].active \/ ~request[r].seen.active)
  BY <1>1, <1>6, ChangedFields
<1>8. page' \in [Pages -> PageType]
  BY <1>5, <1>6, <1>7
<1>9. /\ How(r) \in {"connected", "removed", "rotated"}
      /\ request[r].kind = "removePage" <=> How(r) = "removed"
      /\ request[r].kind = "rotateToken" <=> How(r) = "rotated"
      /\ request[r].kind \in Connects <=> How(r) = "connected"
      /\ request[r].kind \in {"removePage", "rotateToken"} \cup Connects
  BY <1>1 DEF How, RequestType, Kinds, Connects
<1>10. disturbed' = [q \in Requests |->
         IF q # r /\ (\/ p0 \in request[q].did
                      \/ request[q].at \in {"create", "save"} /\ This(q) = p0)
         THEN disturbed[q] \cup {<<p0, How(r)>>} ELSE disturbed[q]]
  BY DEF SavePage, Disturbing, How
<1>11. disturbed' \in [Requests -> SUBSET (Pages \X {"connected", "removed", "rotated"})]
  BY <1>1, <1>9, <1>10 DEF DocumentsTypeOK
<1>12. /\ \A q \in Requests : disturbed[q] \subseteq disturbed'[q]
       /\ \A q \in Requests : q # r /\ (p0 \in request[q].did \/ (request[q].at = "save" /\ This(q) = p0))
            => <<p0, How(r)>> \in disturbed'[q]
  BY <1>10
<1> HIDE DEF x
<1>13. DocumentsTypeOK'
  BY <1>1, <1>5, <1>8, <1>11 DEF DocumentsTypeOK
<1>14. RequestsInv'
  BY <1>2, <1>3, <1>4, <1>13, OneRequest DEF ServiceInv
<1>15. KnownAtSave(r)
  BY <1>1 DEF ServiceInv
<1>16. page[p0].owner \in Tenants /\ page[p0].token \in Requests
  BY <1>1, <1>15, PagesAssumption DEF ServiceInv, DocumentsInv, KnownAtSave, NoPage
<1>17. DocumentsInv'
  <2>1. page'[p0].owner \in Tenants /\ page'[p0].token \in Requests
    BY <1>7, <1>9, <1>16
  <2> QED
    BY <2>1, <1>5, <1>6 DEF ServiceInv, DocumentsInv
<1>18. request'[r] = x /\ \A q \in Requests : q # r => request'[q] = request[q]
  BY <1>1, <1>2
<1>19. ASSUME NEW q \in Requests, request'[q].at = "save" PROVE KnownAtSave(q)'
  <2>1. q # r /\ request'[q] = request[q] /\ KnownAtSave(q) /\ This(q) \in Pages
        /\ request[q].at = "save"
    BY <1>3, <1>18, <1>19, FromService DEF ServiceInv, AtPage
  <2>2. CASE This(q) # p0
    BY <2>1, <2>2, <1>6, <1>12 DEF KnownAtSave, This, Undisturbed
  <2>3. CASE This(q) = p0
    <3>1. <<p0, How(r)>> \in disturbed'[q]
      BY <2>1, <2>3, <1>12
    <3>2. This(q)' = p0
      BY <2>1, <2>3 DEF This
    <3>3. \A how : <<p0, how>> \notin disturbed'[q] => <<p0, how>> \notin disturbed[q]
      BY <1>12
    <3> QED
      BY <2>1, <2>3, <3>1, <3>2, <3>3, <1>7, <1>9 DEF KnownAtSave, Undisturbed
  <2> QED
    BY <2>2, <2>3
<1>20. ASSUME NEW q \in Requests, NEW p \in request'[q].did PROVE Kept(q, p)'
  <2>1. request'[q].kind = request[q].kind /\ request'[q].tenant = request[q].tenant
    BY <1>3, <1>18
  <2>2. CASE q = r /\ p = p0
    <3>1. \A how : <<p0, how>> \notin disturbed'[r] => <<p0, how>> \notin disturbed[r]
      BY <1>12
    <3>2. page[p0].active \in BOOLEAN /\ request[r].seen.active \in BOOLEAN
      BY <1>1, <1>6 DEF PageType, RequestType
    <3> QED
      BY <2>1, <2>2, <3>1, <3>2, <1>7, <1>9, <1>15 DEF Kept, KnownAtSave, Undisturbed, Connects
  <2>3. CASE ~(q = r /\ p = p0)
    <3>1. p \in request[q].did
      BY <1>3, <1>18, <1>20, <2>3
    <3>2. Kept(q, p) /\ p \in Pages
      BY <1>1, <3>1 DEF ServiceInv, RequestType
    <3>3. CASE p # p0
      BY <2>1, <3>2, <3>3, <1>6, <1>12 DEF Kept, Undisturbed
    <3>4. CASE p = p0
      <4>1. <<p0, How(r)>> \in disturbed'[q]
        BY <2>3, <3>1, <3>4, <1>12
      <4>2. \A how : <<p0, how>> \notin disturbed'[q] => <<p0, how>> \notin disturbed[q]
        BY <1>12
      <4> QED
        BY <2>1, <3>2, <3>4, <4>1, <4>2, <1>7, <1>9 DEF Kept, Undisturbed, Connects
    <3> QED
      BY <3>3, <3>4
  <2> QED
    BY <2>2, <2>3
<1> QED
  BY <1>6, <1>7, <1>14, <1>17, <1>19, <1>20 DEF ServiceInv

LEMMA TwoFields ==
  ASSUME request \in [Requests -> RequestType], NEW r \in Requests, NEW a, NEW at
  PROVE  /\ [request EXCEPT ![r].seen = a, ![r].at = at]
              = [request EXCEPT ![r] = [request[r] EXCEPT !.seen = a, !.at = at]]
         /\ [request EXCEPT ![r].app = a, ![r].at = at]
              = [request EXCEPT ![r] = [request[r] EXCEPT !.app = a, !.at = at]]
         /\ [request EXCEPT ![r].todo = a, ![r].at = at]
              = [request EXCEPT ![r] = [request[r] EXCEPT !.todo = a, !.at = at]]
OBVIOUS

LEMMA NextPageAdvances ==
  ASSUME request \in [Requests -> RequestType], NEW r \in Requests, NextPage(r)
  PROVE  request' = [request EXCEPT ![r] = Advanced(request[r])]
<1> DEFINE at == IF Len(request[r].todo) > 1 THEN "find"
                 ELSE IF request[r].kind = "select" THEN "clear" ELSE "done"
<1>1. request' = [request EXCEPT ![r].todo = Tail(request[r].todo), ![r].at = at]
  BY DEF NextPage
<1>2. Advanced(request[r]) = [request[r] EXCEPT !.todo = Tail(request[r].todo), !.at = at]
  BY DEF Advanced
<1> HIDE DEF at
<1> QED
  BY <1>1, <1>2, TwoFields

(* A request that ends, well or not.                                       *)
LEMMA EndedIsSound ==
  ASSUME NEW x \in RequestType, RequestInv(x), NEW at \in {"failed", "done"}
  PROVE  LET y == [x EXCEPT !.at = at] IN
         /\ y \in RequestType /\ RequestInv(y) /\ y.at = at
         /\ y.did = x.did /\ y.kind = x.kind /\ y.tenant = x.tenant
<1> DEFINE y == [x EXCEPT !.at = at]
<1>1. /\ y \in RequestType /\ y.at = at
      /\ y.did = x.did /\ y.kind = x.kind /\ y.tenant = x.tenant
  BY DEF RequestType
<1> HIDE DEF y
<1>2. RequestInv(y)
  BY <1>1 DEF RequestInv, AtPage, OfTenant
<1> QED
  BY <1>1, <1>2 DEF y

LEMMA FindStep ==
  ASSUME ServiceInv, NEW r \in Requests, FindPage(r)
  PROVE  ServiceInv'
<1> DEFINE p0 == This(r)
           found == page[p0]
           at == CASE found.owner = request[r].tenant -> "save"
                   [] found = NoPage /\ request[r].kind \in Connects -> "create"
                   [] OTHER -> "failed"
           x == [request[r] EXCEPT !.seen = found, !.at = at]
<1>1. /\ DocumentsTypeOK /\ request \in [Requests -> RequestType]
      /\ RequestInv(request[r]) /\ request[r].at = "find"
      /\ p0 \in Pages /\ request[r].tenant \in Tenants
      /\ request[r].todo # <<>>
      /\ found \in PageType
  BY FromService DEF FindPage, AtPage, RequestInv, DocumentsTypeOK
<1>2. request' = [request EXCEPT ![r] = x]
  <2>1. request' = [request EXCEPT ![r].seen = found, ![r].at = at]
    BY DEF FindPage
  <2> HIDE DEF at, found
  <2> QED
    BY <1>1, <2>1, TwoFields
<1>3. /\ at \in {"save", "create", "failed"}
      /\ at = "save" => found.owner = request[r].tenant
      /\ at = "create" => request[r].kind \in Connects
  OBVIOUS
<1> HIDE DEF at
<1>4. /\ x \in RequestType
      /\ x.did = request[r].did /\ x.kind = request[r].kind /\ x.tenant = request[r].tenant
      /\ x.todo = request[r].todo /\ x.seen = found /\ x.at = at
  BY <1>1, <1>3 DEF RequestType
<1> HIDE DEF x
<1>5. RequestInv(x)
  BY <1>1, <1>3, <1>4 DEF RequestInv, AtPage, OfTenant
<1>6. UNCHANGED <<page, tenantPage, pending, subscribed, pageFaults, disturbed>>
  BY DEF FindPage
<1>7. DocumentsTypeOK'
  BY <1>1, <1>6 DEF DocumentsTypeOK
<1>8. RequestsInv' /\ DocumentsInv'
  BY <1>2, <1>4, <1>5, <1>6, <1>7, OneRequest DEF ServiceInv, DocumentsInv
<1>9. request'[r] = x /\ \A q \in Requests : q # r => request'[q] = request[q]
  BY <1>1, <1>2
<1>10. ASSUME NEW q \in Requests, request'[q].at = "save" PROVE KnownAtSave(q)'
  <2>1. CASE q = r
    BY <1>3, <1>4, <1>6, <1>9, <1>10, <2>1 DEF KnownAtSave, This, Undisturbed
  <2>2. CASE q # r
    BY <1>6, <1>9, <1>10, <2>2 DEF ServiceInv, KnownAtSave, This, Undisturbed
  <2> QED
    BY <2>1, <2>2
<1>11. ASSUME NEW q \in Requests, NEW p \in request'[q].did PROVE Kept(q, p)'
  <2>1. /\ p \in request[q].did
        /\ request'[q].kind = request[q].kind /\ request'[q].tenant = request[q].tenant
    BY <1>4, <1>9, <1>11
  <2> QED
    BY <1>6, <2>1 DEF ServiceInv, Kept, Undisturbed
<1> QED
  BY <1>8, <1>10, <1>11 DEF ServiceInv

(* The steps that begin or carry on a request without a document.          *)
LEMMA BeginStep ==
  ASSUME ServiceInv, ConfigTypeOK, NEW r \in Requests,
         \/ \E t \in Tenants, p \in Pages, kind \in {"addPage", "removePage", "rotateToken"} :
              BeginRequest(r, kind, t, p)
         \/ \E t \in Tenants : BeginCallback(r, t)
         \/ \E t \in Tenants, ps \in SUBSET Pages : SelectPages(r, t, ps)
         \/ ExchangeToken(r)
         \/ \E ps \in SUBSET Pages : ListPages(r, ps)
         \/ \E ok \in BOOLEAN : SubscribePage(r, ok)
         \/ ClearPending(r)
  PROVE  ServiceInv'
<1>t. DocumentsTypeOK /\ request \in [Requests -> RequestType] /\ RequestInv(request[r])
  BY FromService
<1>1. ASSUME NEW t \in Tenants, NEW p \in Pages, NEW kind \in {"addPage", "removePage", "rotateToken"},
             BeginRequest(r, kind, t, p)
      PROVE  ServiceInv'
  <2> DEFINE x == [NoRequest EXCEPT !.at = "find", !.kind = kind, !.tenant = t, !.todo = <<p>>]
  <2>1. kind \in Kinds /\ <<p>> \in Seq(Pages) /\ <<p>> # <<>>
    BY DEF Kinds, Connects
  <2>2. x \in RequestType /\ RequestInv(x)
    BY <2>1, NewRequestAtPage
  <2>3. x.at = "find" /\ x.did = {}
    BY NoRequestType DEF RequestType
  <2>4. request' = [request EXCEPT ![r] = x]
    BY <1>1 DEF BeginRequest, Begin
  <2>5. UNCHANGED <<page, tenantPage, pending, subscribed, pageFaults, disturbed>>
    BY <1>1 DEF BeginRequest
  <2> HIDE DEF x
  <2> QED
    BY <1>t, <2>2, <2>3, <2>4, <2>5, RequestOnly DEF DocumentsTypeOK
<1>2. ASSUME NEW t \in Tenants, BeginCallback(r, t) PROVE ServiceInv'
  <2> DEFINE x == [NoRequest EXCEPT !.at = "code", !.kind = "callback", !.tenant = t, !.todo = <<>>]
  <2>2. x \in RequestType /\ RequestInv(x)
    BY NewRequest DEF Kinds, Connects
  <2>3. x.at = "code" /\ x.did = {}
    BY NoRequestType DEF RequestType
  <2>4. request' = [request EXCEPT ![r] = x]
    BY <1>2 DEF BeginCallback, Begin
  <2>5. UNCHANGED <<page, tenantPage, pending, subscribed, pageFaults, disturbed>>
    BY <1>2 DEF BeginCallback
  <2> HIDE DEF x
  <2> QED
    BY <1>t, <2>2, <2>3, <2>4, <2>5, RequestOnly DEF DocumentsTypeOK
<1>3. ASSUME NEW t \in Tenants, NEW ps \in SUBSET Pages, SelectPages(r, t, ps) PROVE ServiceInv'
  <2> DEFINE chosen == ps \cap pending[t]
  <2>1. PICK todo \in SetToSeqs(chosen) :
          Begin(r, "select", t, IF chosen = {} THEN "failed" ELSE "find", todo)
    BY <1>3 DEF SelectPages
  <2>2. todo \in Seq(Pages) /\ (chosen # {} => todo # <<>>)
    BY ListsOfPages
  <2> DEFINE at == IF chosen = {} THEN "failed" ELSE "find"
             x == [NoRequest EXCEPT !.at = at, !.kind = "select", !.tenant = t, !.todo = todo]
  <2>3. at \in {"failed", "find"} /\ (at = "find" => chosen # {})
    OBVIOUS
  <2>4. request' = [request EXCEPT ![r] = x]
    BY <2>1 DEF Begin
  <2> HIDE DEF chosen, at
  <2>5. /\ x \in RequestType
        /\ x.at = at /\ x.did = {} /\ x.tenant = t /\ x.todo = todo
    BY <2>2, <2>3, NoRequestType DEF RequestType, Kinds, Connects
  <2> HIDE DEF x
  <2>6. RequestInv(x)
    BY <2>2, <2>3, <2>5 DEF RequestInv, AtPage, OfTenant
  <2>7. UNCHANGED <<page, tenantPage, pending, subscribed, pageFaults, disturbed>>
    BY <1>3 DEF SelectPages
  <2> QED
    BY <1>t, <2>3, <2>4, <2>5, <2>6, <2>7, RequestOnly DEF DocumentsTypeOK
<1>4. CASE ExchangeToken(r)
  <2> DEFINE at == IF cache[facebookApp] = Unset THEN "failed"
                   ELSE IF request[r].at = "code" THEN "token"
                   ELSE IF cache[facebookApp] = request[r].app THEN "list" ELSE "failed"
             x == [request[r] EXCEPT !.app = cache[facebookApp], !.at = at]
  <2>1. cache[facebookApp] \in Values \cup {Unset}
    BY PagesAssumption DEF ConfigTypeOK, Config
  <2>2. at \in {"failed", "token", "list"}
    OBVIOUS
  <2>3. request' = [request EXCEPT ![r] = x] /\ request[r].at \in {"code", "token"}
    <3>1. request' = [request EXCEPT ![r].app = cache[facebookApp], ![r].at = at]
          /\ request[r].at \in {"code", "token"}
      BY <1>4 DEF ExchangeToken
    <3> HIDE DEF at
    <3> QED
      BY <1>t, <3>1, TwoFields
  <2> HIDE DEF at
  <2>4. /\ x \in RequestType
        /\ x.at = at /\ x.did = request[r].did /\ x.tenant = request[r].tenant /\ x.kind = request[r].kind
    BY <1>t, <2>1, <2>2 DEF RequestType
  <2> HIDE DEF x
  <2>5. RequestInv(x)
    BY <1>t, <2>2, <2>3, <2>4 DEF RequestInv, AtPage, OfTenant
  <2>6. UNCHANGED <<page, tenantPage, pending, subscribed, pageFaults, disturbed>>
    BY <1>4 DEF ExchangeToken
  <2> QED
    BY <1>t, <2>2, <2>3, <2>4, <2>5, <2>6, RequestOnly DEF DocumentsTypeOK
<1>5. ASSUME NEW ps \in SUBSET Pages, ListPages(r, ps) PROVE ServiceInv'
  <2> DEFINE todo == IF Cardinality(ps) = 1 THEN SetToSeq(ps) ELSE <<>>
             at == CASE ps = {} -> "failed"
                     [] Cardinality(ps) = 1 -> "find"
                     [] OTHER -> "done"
             x == [request[r] EXCEPT !.todo = todo, !.at = at]
  <2>1. todo \in Seq(Pages) /\ (Cardinality(ps) = 1 => todo # <<>>)
    BY ListsOfPages
  <2>2. at \in {"failed", "find", "done"} /\ (at = "find" => Cardinality(ps) = 1)
    OBVIOUS
  <2>3. request' = [request EXCEPT ![r] = x] /\ request[r].at = "list"
    <3>1. request' = [request EXCEPT ![r].todo = todo, ![r].at = at] /\ request[r].at = "list"
      BY <1>5 DEF ListPages
    <3> HIDE DEF at, todo
    <3> QED
      BY <1>t, <3>1, TwoFields
  <2> HIDE DEF at, todo
  <2>4. /\ x \in RequestType /\ x.todo = todo
        /\ x.at = at /\ x.did = request[r].did /\ x.tenant = request[r].tenant /\ x.kind = request[r].kind
    BY <1>t, <2>1, <2>2 DEF RequestType
  <2> HIDE DEF x
  <2>5. RequestInv(x) /\ request[r].tenant \in Tenants
    BY <1>t, <2>1, <2>2, <2>3, <2>4 DEF RequestInv, AtPage, OfTenant
  <2>6. UNCHANGED <<page, tenantPage, subscribed, pageFaults, disturbed>>
        /\ pending' \in [Tenants -> SUBSET Pages]
    BY <1>t, <1>5, <2>5 DEF ListPages, DocumentsTypeOK
  <2> QED
    BY <1>t, <2>2, <2>3, <2>4, <2>5, <2>6, RequestOnly DEF DocumentsTypeOK
<1>6. ASSUME NEW ok \in BOOLEAN, SubscribePage(r, ok) PROVE ServiceInv'
  <2>1. request[r].at = "subscribe" /\ This(r) \in Pages
        /\ UNCHANGED <<page, tenantPage, pending, pageFaults, disturbed>>
    BY <1>6, FromService DEF SubscribePage, AtPage
  <2>2. CASE ok
    <3> DEFINE x == [request[r] EXCEPT !.at = "mark"]
    <3>1. request' = [request EXCEPT ![r] = x] /\ subscribed' = subscribed \cup {This(r)}
      BY <1>t, <1>6, <2>2 DEF SubscribePage, Go
    <3>2. /\ x \in RequestType /\ x.todo = request[r].todo
          /\ x.at = "mark" /\ x.did = request[r].did /\ x.tenant = request[r].tenant /\ x.kind = request[r].kind
      BY <1>t DEF RequestType
    <3> HIDE DEF x
    <3>3. RequestInv(x)
      BY <1>t, <2>1, <3>2 DEF RequestInv, AtPage, OfTenant
    <3> QED
      BY <1>t, <2>1, <3>1, <3>2, <3>3, RequestOnly DEF DocumentsTypeOK
  <2>3. CASE ~ok
    <3>1. request' = [request EXCEPT ![r] = Advanced(request[r])] /\ UNCHANGED subscribed
      BY <1>t, <1>6, <2>3, NextPageAdvances DEF SubscribePage
    <3> QED
      BY <1>t, <2>1, <3>1, AdvancedIsSound, RequestOnly DEF DocumentsTypeOK, AtPage
  <2> QED
    BY <2>2, <2>3
<1>7. CASE ClearPending(r)
  <2>1. /\ request' = [request EXCEPT ![r] = [request[r] EXCEPT !.at = "done"]]
        /\ pending' \in [Tenants -> SUBSET Pages]
        /\ UNCHANGED <<page, tenantPage, subscribed, pageFaults, disturbed>>
    BY <1>t, <1>7 DEF ClearPending, Go, DocumentsTypeOK
  <2> QED
    BY <1>t, <2>1, EndedIsSound, RequestOnly DEF DocumentsTypeOK
<1> QED
  BY <1>1, <1>2, <1>3, <1>4, <1>5, <1>6, <1>7

(* The steps that write something else than a page, or not its service.    *)
LEMMA OtherStep ==
  ASSUME ServiceInv, NEW r \in Requests,
         \/ MarkWebhookSubscribed(r)
         \/ FailPageCall(r)
         \/ CreatePage(r) /\ page[This(r)] # NoPage
         \/ \E t \in Tenants, p \in Pages : ConnectFacebook(r, t, p)
         \/ \E t \in Tenants : DisconnectFacebook(r, t)
  PROVE  ServiceInv'
<1>t. /\ DocumentsTypeOK /\ request \in [Requests -> RequestType] /\ RequestInv(request[r])
      /\ DocumentsInv
  BY FromService DEF ServiceInv
<1>1. CASE MarkWebhookSubscribed(r)
  <2>1. request[r].at = "mark" /\ This(r) \in Pages
    BY <1>1, FromService DEF MarkWebhookSubscribed, AtPage
  <2>2. /\ page' = [page EXCEPT ![This(r)] = [page[This(r)] EXCEPT !.subscribed = TRUE]]
        /\ UNCHANGED <<tenantPage, pending, subscribed, pageFaults, disturbed>>
    BY <1>t, <1>1, <2>1 DEF MarkWebhookSubscribed, DocumentsTypeOK
  <2>3. request' = [request EXCEPT ![r] = Advanced(request[r])]
    BY <1>t, <1>1, NextPageAdvances DEF MarkWebhookSubscribed
  <2>4. /\ page' \in [Pages -> PageType]
        /\ \A p \in Pages : /\ page'[p].owner = page[p].owner
                             /\ page'[p].active = page[p].active
                             /\ page'[p].token = page[p].token
    <3>1. page[This(r)] \in PageType /\ page \in [Pages -> PageType]
      BY <1>t, <2>1 DEF DocumentsTypeOK
    <3> DEFINE y == [page[This(r)] EXCEPT !.subscribed = TRUE]
    <3>2. /\ y \in PageType /\ y.owner = page[This(r)].owner
          /\ y.active = page[This(r)].active /\ y.token = page[This(r)].token
      BY <3>1 DEF PageType
    <3> HIDE DEF y
    <3>3. page' = [page EXCEPT ![This(r)] = y]
      BY <2>2 DEF y
    <3> QED
      BY <2>1, <3>1, <3>2, <3>3
  <2>5. DocumentsTypeOK'
    BY <1>t, <2>2, <2>4 DEF DocumentsTypeOK
  <2>6. This(r) \in request[r].did /\ request[r].tenant \in Tenants
    BY <1>t, <2>1 DEF RequestInv, This, OfTenant, AtPage
  <2>7. page[This(r)] # NoPage
    BY <2>6, PagesAssumption DEF ServiceInv, Kept, NoPage
  <2>8. DocumentsInv'
    BY <1>t, <2>1, <2>2, <2>4, <2>7 DEF DocumentsInv
  <2> QED
    BY <1>t, <2>1, <2>2, <2>3, <2>4, <2>5, <2>8, AdvancedIsSound, QuietStep DEF AtPage
<1>2. CASE FailPageCall(r)
  <2>1. /\ UNCHANGED <<page, tenantPage, pending, subscribed, disturbed>>
        /\ pageFaults < MaxPageFaults /\ pageFaults' = pageFaults + 1
    BY <1>2 DEF FailPageCall
  <2>2. DocumentsTypeOK' /\ DocumentsInv'
    <3>1. pageFaults' \in 0 .. MaxPageFaults
      BY <1>t, <2>1, PagesAssumption DEF DocumentsTypeOK
    <3> QED
      BY <1>t, <2>1, <3>1 DEF DocumentsTypeOK, DocumentsInv
  <2>3. CASE request[r].at \in {"subscribe", "mark"}
    <3>1. request' = [request EXCEPT ![r] = Advanced(request[r])]
      BY <1>t, <1>2, <2>3, NextPageAdvances DEF FailPageCall
    <3> QED
      BY <1>t, <2>1, <2>2, <2>3, <3>1, AdvancedIsSound, QuietStep DEF AtPage
  <2>4. CASE request[r].at \notin {"subscribe", "mark"}
    <3>1. request' = [request EXCEPT ![r] = [request[r] EXCEPT !.at = "failed"]]
      BY <1>t, <1>2, <2>4 DEF FailPageCall, Go
    <3> QED
      BY <1>t, <2>1, <2>2, <3>1, EndedIsSound, QuietStep
  <2> QED
    BY <2>3, <2>4
<1>3. CASE CreatePage(r) /\ page[This(r)] # NoPage
  <2>1. /\ request' = [request EXCEPT ![r] = [request[r] EXCEPT !.at = "failed"]]
        /\ UNCHANGED <<page, tenantPage, pending, subscribed, pageFaults, disturbed>>
    BY <1>t, <1>3 DEF CreatePage, Go
  <2> QED
    BY <1>t, <2>1, EndedIsSound, RequestOnly DEF DocumentsTypeOK
<1>4. ASSUME NEW t \in Tenants, NEW p \in Pages, ConnectFacebook(r, t, p) PROVE ServiceInv'
  <2>1. UNCHANGED <<page, pending, subscribed, pageFaults, disturbed>>
    BY <1>4 DEF ConnectFacebook
  <2>2. CASE \E u \in Tenants \ {t} : tenantPage[u].page = p
    <3>1. /\ request' = [request EXCEPT ![r] = [request[r] EXCEPT !.at = "failed"]]
          /\ UNCHANGED tenantPage
      BY <1>t, <1>4, <2>2 DEF ConnectFacebook, Go
    <3> QED
      BY <1>t, <2>1, <3>1, EndedIsSound, RequestOnly DEF DocumentsTypeOK
  <2>3. CASE ~\E u \in Tenants \ {t} : tenantPage[u].page = p
    <3>1. /\ request' = [request EXCEPT ![r] = [request[r] EXCEPT !.at = "done"]]
          /\ tenantPage' = [tenantPage EXCEPT ![t] = [page |-> p, token |-> r]]
      BY <1>t, <1>4, <2>3 DEF ConnectFacebook, Go
    <3>2. DocumentsTypeOK'
      BY <1>t, <2>1, <3>1 DEF DocumentsTypeOK
    <3>3. DocumentsInv'
      BY <1>t, <2>1, <2>3, <3>1, PagesAssumption DEF DocumentsTypeOK, DocumentsInv
    <3> QED
      BY <1>t, <2>1, <3>1, <3>2, <3>3, EndedIsSound, QuietStep
  <2> QED
    BY <2>2, <2>3
<1>5. ASSUME NEW t \in Tenants, DisconnectFacebook(r, t) PROVE ServiceInv'
  <2>1. /\ UNCHANGED <<page, pending, subscribed, pageFaults, disturbed>>
        /\ request' = [request EXCEPT ![r] = [request[r] EXCEPT !.at = "done"]]
        /\ tenantPage' = [tenantPage EXCEPT ![t] = [page |-> None, token |-> None]]
    BY <1>t, <1>5 DEF DisconnectFacebook, Go
  <2>2. DocumentsTypeOK'
    BY <1>t, <2>1 DEF DocumentsTypeOK
  <2>3. DocumentsInv'
    BY <1>t, <2>1 DEF DocumentsTypeOK, DocumentsInv
  <2> QED
    BY <1>t, <2>1, <2>2, <2>3, EndedIsSound, QuietStep
<1> QED
  BY <1>1, <1>2, <1>3, <1>4, <1>5

(* The steps of no request in particular.                                  *)
LEMMA NoRequestStep ==
  ASSUME ServiceInv,
         ForgetRequests \/ UNCHANGED pagesVars \/ \E t \in Tenants : ExpirePending(t)
  PROVE  ServiceInv'
<1>t. DocumentsTypeOK /\ request \in [Requests -> RequestType]
      /\ \A r \in Requests : RequestInv(request[r])
  BY FromService
<1>1. /\ UNCHANGED <<page, tenantPage, subscribed, pageFaults, disturbed>>
      /\ pending' \in [Tenants -> SUBSET Pages]
  BY <1>t DEF ForgetRequests, pagesVars, ExpirePending, DocumentsTypeOK
<1>2. /\ request' \in [Requests -> RequestType]
      /\ \A r \in Requests :
           \/ request'[r] = request[r]
           \/ request'[r] = [request[r] EXCEPT !.at = "failed"]
  <2>1. CASE ForgetRequests
    <3>1. \A r \in Requests :
            request'[r] = IF Working(r) THEN [request[r] EXCEPT !.at = "failed"] ELSE request[r]
      BY <2>1 DEF ForgetRequests
    <3>2. \A r \in Requests : [request[r] EXCEPT !.at = "failed"] \in RequestType
      BY <1>t DEF RequestType
    <3>3. request' = [r \in Requests |-> request'[r]]
      BY <2>1 DEF ForgetRequests
    <3>4. \A r \in Requests : request'[r] \in RequestType
      BY <1>t, <3>1, <3>2
    <3> QED
      BY <3>1, <3>3, <3>4
  <2>2. CASE ~ForgetRequests
    <3>1. UNCHANGED request
      BY <2>2 DEF pagesVars, ExpirePending
    <3> QED
      BY <1>t, <3>1
  <2> QED
    BY <2>1, <2>2
<1>3. ASSUME NEW r \in Requests
      PROVE  /\ RequestInv(request'[r])
             /\ request'[r].did = request[r].did
             /\ request'[r].kind = request[r].kind /\ request'[r].tenant = request[r].tenant
             /\ request'[r].at = "save" => request'[r] = request[r]
  <2>1. CASE request'[r] = request[r]
    BY <1>t, <2>1
  <2>2. CASE request'[r] = [request[r] EXCEPT !.at = "failed"]
    <3>1. request[r] \in RequestType /\ RequestInv(request[r])
      BY <1>t
    <3>2. RequestInv(request'[r])
      BY <2>2, <3>1, EndedIsSound
    <3>3. /\ request'[r].did = request[r].did /\ request'[r].kind = request[r].kind
          /\ request'[r].tenant = request[r].tenant /\ request'[r].at = "failed"
      BY <2>2, <3>1 DEF RequestType
    <3> QED
      BY <3>2, <3>3
  <2> QED
    BY <1>2, <2>1, <2>2
<1>4. PagesTypeOK'
  BY <1>t, <1>1, <1>2 DEF PagesTypeOK, DocumentsTypeOK, RequestType
<1>5. RequestsInv' /\ DocumentsInv'
  BY <1>1, <1>3, <1>4 DEF ServiceInv, RequestsInv, DocumentsInv
<1>6. ASSUME NEW q \in Requests, request'[q].at = "save" PROVE KnownAtSave(q)'
  BY <1>1, <1>3, <1>6 DEF ServiceInv, KnownAtSave, This, Undisturbed
<1>7. ASSUME NEW q \in Requests, NEW p \in request'[q].did PROVE Kept(q, p)'
  BY <1>1, <1>3, <1>7 DEF ServiceInv, Kept, Undisturbed
<1> QED
  BY <1>5, <1>6, <1>7 DEF ServiceInv

LEMMA ServiceStep ==
  ASSUME ServiceInv, ConfigTypeOK, PagesNext \/ ForgetRequests \/ UNCHANGED pagesVars
  PROVE  ServiceInv'
<1>1. ASSUME NEW r \in Requests, CreatePage(r) PROVE ServiceInv'
  BY <1>1, CreateStep, OtherStep
<1> QED
  BY <1>1, BeginStep, FindStep, SaveStep, OtherStep, NoRequestStep DEF PagesNext

LEMMA ServiceInitial == PagesInit => ServiceInv
<1> SUFFICES ASSUME PagesInit PROVE ServiceInv
  OBVIOUS
<1>1. DocumentsTypeOK
  <2>1. pageFaults \in 0 .. MaxPageFaults
    BY PagesAssumption DEF PagesInit
  <2>2. page \in [Pages -> PageType]
    BY NoPageType DEF PagesInit
  <2> QED
    BY <2>1, <2>2 DEF PagesInit, DocumentsTypeOK
<1>2. \A r \in Requests : request[r] = NoRequest
  BY DEF PagesInit
<1>3. request \in [Requests -> RequestType] /\ \A r \in Requests : RequestInv(request[r])
  BY NoRequestType DEF PagesInit
<1>4. \A r \in Requests : request[r].at = "idle" /\ request[r].did = {}
  BY <1>2, NoRequestType DEF NoRequest
<1>5. DocumentsInv
  BY DEF PagesInit, DocumentsInv
<1> QED
  BY <1>1, <1>3, <1>4, <1>5, TypesInTwo DEF ServiceInv, RequestsInv

LEMMA ServiceInvariant == Spec => []ServiceInv
<1>1. Init => ConfigInv /\ ServiceInv
  BY ConfigInitial, ServiceInitial DEF Init
<1>2. ConfigInv /\ ServiceInv /\ [Next]_vars => ConfigInv' /\ ServiceInv'
  BY ConfigStep, ServiceStep, StepOfParts DEF ConfigInv
<1> QED
  BY <1>1, <1>2, PTL DEF Spec

(* The types of all three parts.                                           *)
THEOREM TypeCorrect == Spec => []TypeOK
<1>1. Init => ConfigInv
  BY ConfigInitial DEF Init
<1>2. ConfigInv /\ [Next]_vars => ConfigInv'
  BY ConfigStep, StepOfParts
<1>3. ConfigInv /\ ParserInv /\ ServiceInv => TypeOK
  BY DEF ConfigInv, ParserInv, ServiceInv, RequestsInv, TypeOK
<1> QED
  BY <1>1, <1>2, <1>3, ParserInvariant, ServiceInvariant, PTL DEF Spec

(* However many tenants connect, disconnect and rotate at once, what one   *)
(* of them was answered is so until another request undoes it.             *)
(* (facebook.service.ts:17-63, webhook.service.ts:33-40.)                  *)
THEOREM AnswersHold == Spec => []ReportedIsServed
<1>1. ServiceInv => ReportedIsServed
  <2> SUFFICES ASSUME ServiceInv, NEW r \in Requests, request[r].at = "done", NEW p \in request[r].did
               PROVE  LET t == request[r].tenant
                          legacy == {u \in Tenants : tenantPage[u].page = p}
                      IN /\ page[p].owner = t
                         /\ request[r].kind \in Connects /\ Undisturbed(r, p, {"removed"}) =>
                              resolveTenantId(p) = {t} /\ getSendToken(t, p) # None
                         /\ request[r].kind # "removePage" /\ Undisturbed(r, p, {"connected", "rotated"}) =>
                              page[p].token = r
                         /\ request[r].kind = "removePage" /\ Undisturbed(r, p, {"connected"}) =>
                              /\ resolveTenantId(p) = legacy /\ Cardinality(legacy) <= 1
                              /\ getSendToken(t, p) # None => t \in legacy
    BY DEF ReportedIsServed
  <2> DEFINE t == request[r].tenant
             legacy == {u \in Tenants : tenantPage[u].page = p}
  <2>1. p \in Pages /\ t \in Tenants /\ Kept(r, p)
    BY FromService DEF ServiceInv, RequestType
  <2>2. page[p].owner = t /\ page[p].token \in Requests
    BY <2>1, PagesAssumption DEF ServiceInv, DocumentsInv, Kept, NoPage
  <2>3. ASSUME page[p].active PROVE resolveTenantId(p) = {t} /\ getSendToken(t, p) # None
    <3>1. resolveTenantId(p) = {t}
      BY <2>2, <2>3 DEF resolveTenantId
    <3>2. getSendToken(t, p) = page[p].token
      BY <2>2, <2>3 DEF getSendToken
    <3> QED
      BY <2>2, <3>1, <3>2, PagesAssumption
  <2>4. Cardinality(legacy) <= 1
    <3>1. CASE legacy = {}
      <4>1. Cardinality({}) = 0
        BY FS_EmptySet
      <4> HIDE DEF legacy
      <4> QED
        BY <3>1, <4>1
    <3>2. CASE legacy # {}
      <4>1. PICK u \in Tenants : tenantPage[u].page = p
        BY <3>2
      <4>2. \A w \in Tenants : tenantPage[w].page = p => w = u
        BY <2>1, <4>1, PagesAssumption DEF ServiceInv, DocumentsInv
      <4>3. legacy = {u}
        BY <4>1, <4>2
      <4>4. Cardinality({u}) = 1
        BY FS_Singleton
      <4> HIDE DEF legacy
      <4> QED
        BY <4>3, <4>4
    <3> QED
      BY <3>1, <3>2
  <2>5. ASSUME ~page[p].active
        PROVE  resolveTenantId(p) = legacy /\ (getSendToken(t, p) # None => t \in legacy)
    <3>1. resolveTenantId(p) = legacy
      BY <2>5 DEF resolveTenantId
    <3>2. t \notin legacy => getSendToken(t, p) = None
      BY <2>1, <2>5 DEF getSendToken
    <3> QED
      BY <3>1, <3>2
  <2> HIDE DEF legacy
  <2> QED
    BY <2>1, <2>2, <2>3, <2>4, <2>5 DEF Kept, legacy
<1> QED
  BY <1>1, ServiceInvariant, PTL

(* A page that has an owner keeps it, through every step.                  *)
(* (FacebookPage.ts:19, facebook.service.ts:17-33.)                        *)
LEMMA OwnerKept ==
  ASSUME ServiceInv, PagesNext \/ ForgetRequests \/ UNCHANGED pagesVars
  PROVE  \A p \in Pages : page[p] # NoPage => page'[p].owner = page[p].owner
<1>1. ASSUME NEW r \in Requests, CreatePage(r)
      PROVE  \A p \in Pages : page[p] # NoPage => page'[p].owner = page[p].owner
  <2>1. CASE page[This(r)] = NoPage
    BY <1>1, <2>1, CreateStep
  <2>2. CASE page[This(r)] # NoPage
    BY <1>1, <2>2 DEF CreatePage
  <2> QED
    BY <2>1, <2>2
<1>2. ASSUME NEW r \in Requests, MarkWebhookSubscribed(r)
      PROVE  \A p \in Pages : page'[p].owner = page[p].owner
  <2>1. page \in [Pages -> PageType]
    BY FromService DEF DocumentsTypeOK
  <2> QED
    BY <1>2, <2>1 DEF MarkWebhookSubscribed, PageType
<1>3. ASSUME NEW r \in Requests, SavePage(r)
      PROVE  \A p \in Pages : page'[p].owner = page[p].owner
  BY <1>3, SaveStep
<1>4. CASE UNCHANGED page
  BY <1>4
<1>5. ASSUME PagesNext,
             ~\E r \in Requests : CreatePage(r) \/ SavePage(r) \/ MarkWebhookSubscribed(r)
      PROVE  UNCHANGED page
  BY <1>5 DEF PagesNext, BeginCallback, DisconnectFacebook, SelectPages, BeginRequest,
     ConnectFacebook, ExchangeToken, ListPages, FindPage, SubscribePage, ClearPending,
     FailPageCall, ExpirePending
<1>6. ForgetRequests \/ UNCHANGED pagesVars => UNCHANGED page
  BY DEF ForgetRequests, pagesVars
<1> QED
  BY <1>1, <1>2, <1>3, <1>4, <1>5, <1>6

THEOREM OwnersStay == Spec => OwnerNeverChanges
<1>1. ServiceInv /\ [Next]_vars
        => [\A p \in Pages : page[p] # NoPage => page'[p].owner = page[p].owner]_page
  BY StepOfParts, OwnerKept
<1> QED
  BY <1>1, ServiceInvariant, PTL DEF Spec, OwnerNeverChanges

----------------------------------------------------------------------------
(* The badge of a page.                                                    *)

(* Nothing of a page or of Facebook changes, nor who is to mark one.       *)
LEMMA BadgeUntouched ==
  ASSUME BadgeInv, UNCHANGED <<page, subscribed>>,
         \/ UNCHANGED <<pageFaults, configFaults>>
         \/ ~(pageFaults' = 0 /\ configFaults' = 0),
         \A q \in Requests : request'[q].at = "mark" => request'[q] = request[q],
         \/ ~(pageFaults' = 0 /\ configFaults' = 0)
         \/ \A q \in Requests : request[q].at = "mark" => request'[q] = request[q]
  PROVE  BadgeInv'
BY DEF BadgeInv, BadgeIsHonest, This

LEMMA BadgeQuiet ==
  ASSUME ServiceInv, NEW r \in Requests,
         \/ \E t \in Tenants, p \in Pages, kind \in {"addPage", "removePage", "rotateToken"} :
              BeginRequest(r, kind, t, p)
         \/ \E t \in Tenants : BeginCallback(r, t)
         \/ \E t \in Tenants, ps \in SUBSET Pages : SelectPages(r, t, ps)
         \/ ExchangeToken(r)
         \/ \E ps \in SUBSET Pages : ListPages(r, ps)
         \/ SubscribePage(r, FALSE)
         \/ ClearPending(r)
         \/ FindPage(r)
         \/ CreatePage(r) /\ page[This(r)] # NoPage
         \/ \E t \in Tenants, p \in Pages : ConnectFacebook(r, t, p)
         \/ \E t \in Tenants : DisconnectFacebook(r, t)
  PROVE  /\ UNCHANGED <<page, subscribed, pageFaults>>
         /\ \A q \in Requests : request[q].at = "mark" \/ request'[q].at = "mark"
              => request'[q] = request[q]
<1>t. request \in [Requests -> RequestType] /\ RequestInv(request[r])
  BY FromService
<1> SUFFICES
      /\ UNCHANGED <<page, subscribed, pageFaults>>
      /\ request[r].at # "mark" /\ request'[r].at # "mark"
      /\ \A q \in Requests : q # r => request'[q] = request[q]
  BY <1>t
<1>1. ASSUME NEW at \in {"find", "code", "failed"}, NEW kind, NEW t, NEW todo, Begin(r, kind, t, at, todo)
      PROVE  /\ request'[r].at # "mark"
             /\ \A q \in Requests : q # r => request'[q] = request[q]
  <2>1. [NoRequest EXCEPT !.at = at, !.kind = kind, !.tenant = t, !.todo = todo].at = at
    BY NoRequestType DEF RequestType
  <2> DEFINE x == [NoRequest EXCEPT !.at = at, !.kind = kind, !.tenant = t, !.todo = todo]
  <2>2. request' = [request EXCEPT ![r] = x] /\ x.at = at
    BY <1>1, <2>1 DEF Begin
  <2> HIDE DEF x
  <2> QED
    BY <1>t, <2>2
<1>2. CASE \E t \in Tenants, p \in Pages, kind \in {"addPage", "removePage", "rotateToken"} :
             BeginRequest(r, kind, t, p)
  BY <1>1, <1>2 DEF BeginRequest
<1>3. CASE \E t \in Tenants : BeginCallback(r, t)
  BY <1>1, <1>3 DEF BeginCallback
<1>4. CASE \E t \in Tenants, ps \in SUBSET Pages : SelectPages(r, t, ps)
  BY <1>1, <1>4 DEF SelectPages
<1>5. ASSUME NEW a, NEW at, at # "mark",
             \/ request' = [request EXCEPT ![r].seen = a, ![r].at = at]
             \/ request' = [request EXCEPT ![r].app = a, ![r].at = at]
             \/ request' = [request EXCEPT ![r].todo = a, ![r].at = at]
      PROVE  /\ request'[r].at # "mark"
             /\ \A q \in Requests : q # r => request'[q] = request[q]
  BY <1>t, <1>5 DEF RequestType
<1>6. CASE ExchangeToken(r)
  BY <1>5, <1>6 DEF ExchangeToken
<1>7. CASE \E ps \in SUBSET Pages : ListPages(r, ps)
  <2>0. PICK ps \in SUBSET Pages : ListPages(r, ps)
    BY <1>7
  <2> DEFINE at == CASE ps = {} -> "failed"
                     [] Cardinality(ps) = 1 -> "find"
                     [] OTHER -> "done"
  <2>1. /\ request' = [request EXCEPT
              ![r].todo = IF Cardinality(ps) = 1 THEN SetToSeq(ps) ELSE <<>>, ![r].at = at]
        /\ request[r].at = "list" /\ UNCHANGED <<page, subscribed, pageFaults>>
    BY <2>0 DEF ListPages
  <2>2. at # "mark"
    OBVIOUS
  <2> HIDE DEF at
  <2> QED
    BY <1>5, <2>1, <2>2
<1>8. CASE FindPage(r)
  BY <1>5, <1>8 DEF FindPage
<1>9. CASE SubscribePage(r, FALSE)
  <2>1. /\ UNCHANGED <<page, subscribed, pageFaults>> /\ request[r].at = "subscribe"
        /\ request' = [request EXCEPT ![r] = Advanced(request[r])]
    BY <1>t, <1>9, NextPageAdvances DEF SubscribePage
  <2>2. Advanced(request[r]).at # "mark"
    BY <1>t, <2>1, AdvancedIsSound DEF AtPage
  <2> QED
    BY <1>t, <2>1, <2>2
<1>10. ASSUME NEW at \in {"done", "failed"}, Go(r, at)
       PROVE  /\ request'[r].at # "mark"
              /\ \A q \in Requests : q # r => request'[q] = request[q]
  BY <1>t, <1>10 DEF Go, RequestType
<1>11. CASE ClearPending(r)
  BY <1>10, <1>11 DEF ClearPending
<1>12. CASE CreatePage(r) /\ page[This(r)] # NoPage
  BY <1>10, <1>12 DEF CreatePage
<1>13. CASE \E t \in Tenants, p \in Pages : ConnectFacebook(r, t, p)
  BY <1>10, <1>13 DEF ConnectFacebook
<1>14. CASE \E t \in Tenants : DisconnectFacebook(r, t)
  BY <1>10, <1>14 DEF DisconnectFacebook
<1> QED
  BY <1>2, <1>3, <1>4, <1>6, <1>7, <1>8, <1>9, <1>11, <1>12, <1>13, <1>14

LEMMA BadgeStep ==
  ASSUME ServiceInv, ConfigTypeOK, BadgeInv, [Next]_vars
  PROVE  BadgeInv'
<1>t. /\ DocumentsTypeOK /\ request \in [Requests -> RequestType]
      /\ \A q \in Requests : RequestInv(request[q])
  BY FromService
<1>1. ASSUME NEW r \in Requests, SubscribePage(r, TRUE), UNCHANGED configVars PROVE BadgeInv'
  <2>1. /\ request[r].at = "subscribe" /\ This(r) \in Pages /\ This(r) \in request[r].did
        /\ request[r].tenant \in Tenants
    BY <1>t, <1>1, FromService DEF SubscribePage, AtPage, RequestInv, This
  <2>2. /\ request' = [request EXCEPT ![r].at = "mark"] /\ subscribed' = subscribed \cup {This(r)}
        /\ UNCHANGED <<page, pageFaults, configFaults>>
    BY <1>1 DEF SubscribePage, Go, configVars
  <2>3. page[This(r)] # NoPage
    BY <2>1, PagesAssumption DEF ServiceInv, Kept, NoPage
  <2>4. /\ request'[r].at = "mark" /\ This(r)' = This(r)
        /\ \A q \in Requests : q # r => request'[q] = request[q] /\ This(q)' = This(q)
    BY <1>t, <2>2 DEF RequestType, This
  <2> QED
    BY <2>1, <2>2, <2>3, <2>4 DEF BadgeInv, BadgeIsHonest
<1>2. ASSUME NEW r \in Requests, MarkWebhookSubscribed(r), UNCHANGED configVars PROVE BadgeInv'
  <2>1. request[r].at = "mark" /\ This(r) \in Pages /\ This(r) \in subscribed
    BY <1>2, FromService DEF MarkWebhookSubscribed, AtPage, BadgeInv
  <2>2. /\ request' = [request EXCEPT ![r] = Advanced(request[r])]
        /\ page' = [page EXCEPT ![This(r)].subscribed = TRUE]
        /\ UNCHANGED <<subscribed, pageFaults, configFaults>>
    BY <1>t, <1>2, NextPageAdvances DEF MarkWebhookSubscribed, configVars
  <2>3. Advanced(request[r]).at # "mark"
    BY <1>t, <2>1, AdvancedIsSound DEF AtPage
  <2>4. /\ request'[r].at # "mark"
        /\ \A q \in Requests : q # r => request'[q] = request[q] /\ This(q)' = This(q)
    BY <1>t, <2>2, <2>3 DEF This
  <2>5. /\ page'[This(r)].subscribed
        /\ \A p \in Pages : p # This(r) => page'[p] = page[p]
    BY <1>t, <2>1, <2>2 DEF DocumentsTypeOK, PageType
  <2>6. page'[This(r)] # NoPage
    BY <2>5 DEF NoPage
  <2>7. subscribed \subseteq Pages
    BY <1>t DEF DocumentsTypeOK
  <2>8. \A q \in Requests : request'[q].at = "mark" => This(q)' \in subscribed'
    BY <2>2, <2>4 DEF BadgeInv
  <2>9. \A p \in subscribed' : page'[p] # NoPage
    BY <2>2, <2>5, <2>6, <2>7 DEF BadgeInv
  <2>10. ASSUME NEW p \in Pages
         PROVE  /\ page'[p].subscribed => p \in subscribed'
                /\ p \in subscribed' /\ ~page'[p].subscribed /\ pageFaults' = 0 /\ configFaults' = 0
                     => \E q \in Requests : request'[q].at = "mark" /\ This(q)' = p
    <3>1. CASE p = This(r)
      BY <2>1, <2>2, <2>5, <3>1
    <3>2. CASE p # This(r)
      BY <2>2, <2>4, <2>5, <3>2 DEF BadgeInv, BadgeIsHonest
    <3> QED
      BY <3>1, <3>2
  <2> QED
    BY <2>8, <2>9, <2>10 DEF BadgeInv, BadgeIsHonest
<1>3. ASSUME NEW r \in Requests, CreatePage(r), page[This(r)] = NoPage, UNCHANGED configVars
      PROVE  BadgeInv'
  <2>1. request[r].at = "create" /\ This(r) \in Pages
    BY <1>3, FromService DEF CreatePage, AtPage
  <2>2. /\ page' = [page EXCEPT ![This(r)] =
               [owner |-> request[r].tenant, token |-> r, active |-> TRUE, subscribed |-> FALSE]]
        /\ UNCHANGED <<subscribed, pageFaults, configFaults>>
    BY <1>3 DEF CreatePage, configVars
  <2>3. /\ ~page'[This(r)].subscribed
        /\ \A p \in Pages : p # This(r) => page'[p] = page[p]
    BY <1>t, <2>1, <2>2 DEF DocumentsTypeOK
  <2>4. /\ request'[r].at # "mark"
        /\ \A q \in Requests : q # r => request'[q] = request[q] /\ This(q)' = This(q)
    BY <1>t, <1>3 DEF CreatePage, Saved, RequestType, This
  <2>5. This(r) \notin subscribed /\ subscribed \subseteq Pages
    BY <1>t, <1>3 DEF BadgeInv, DocumentsTypeOK
  <2> QED
    BY <2>1, <2>2, <2>3, <2>4, <2>5 DEF BadgeInv, BadgeIsHonest
<1>4. ASSUME NEW r \in Requests, SavePage(r), UNCHANGED configVars PROVE BadgeInv'
  <2>1. request[r].at = "save" /\ This(r) \in Pages /\ request[r].tenant \in Tenants
    BY <1>4, FromService DEF SavePage, AtPage
  <2>2. /\ page' = [page EXCEPT ![This(r)] = Changed(r, page[This(r)])]
        /\ UNCHANGED <<subscribed, pageFaults, configFaults>>
    BY <1>t, <1>4, <2>1 DEF SavePage, DocumentsTypeOK, configVars
  <2>3. page[This(r)].owner = request[r].tenant
    BY <2>1 DEF ServiceInv, KnownAtSave
  <2>4. /\ page'[This(r)].subscribed = page[This(r)].subscribed
        /\ page'[This(r)].owner = page[This(r)].owner
        /\ \A p \in Pages : p # This(r) => page'[p] = page[p]
    BY <1>t, <2>1, <2>2, ChangedFields DEF DocumentsTypeOK
  <2>5. page'[This(r)] # NoPage
    BY <2>1, <2>3, <2>4, PagesAssumption DEF NoPage
  <2>6. /\ request'[r].at # "mark"
        /\ \A q \in Requests : q # r => request'[q] = request[q] /\ This(q)' = This(q)
    BY <1>t, <1>4 DEF SavePage, Saved, RequestType, This
  <2>7. subscribed \subseteq Pages
    BY <1>t DEF DocumentsTypeOK
  <2> QED
    BY <2>1, <2>2, <2>4, <2>5, <2>6, <2>7 DEF BadgeInv, BadgeIsHonest
<1>5. ASSUME NEW r \in Requests, FailPageCall(r) PROVE BadgeInv'
  <2>1. UNCHANGED <<page, subscribed>> /\ pageFaults' # 0
    BY <1>t, <1>5 DEF FailPageCall, DocumentsTypeOK
  <2>2. request'[r].at # "mark" /\ \A q \in Requests : q # r => request'[q] = request[q]
    <3>1. CASE request[r].at \in {"subscribe", "mark"}
      <4>1. request' = [request EXCEPT ![r] = Advanced(request[r])]
        BY <1>t, <1>5, <3>1, NextPageAdvances DEF FailPageCall
      <4>2. Advanced(request[r]).at # "mark"
        BY <1>t, <3>1, AdvancedIsSound DEF AtPage
      <4> QED
        BY <1>t, <4>1, <4>2
    <3>2. CASE request[r].at \notin {"subscribe", "mark"}
      BY <1>t, <1>5, <3>2 DEF FailPageCall, Go, RequestType
    <3> QED
      BY <3>1, <3>2
  <2> QED
    BY <2>1, <2>2, BadgeUntouched
<1>6. CASE Restart
  <2>1. UNCHANGED <<page, subscribed>> /\ configFaults' # 0
    BY <1>6 DEF Restart, Reboot, ForgetRequests, ConfigTypeOK
  <2>2. \A q \in Requests : request'[q].at = "mark" => request'[q] = request[q]
    BY <1>t, <1>6 DEF Restart, ForgetRequests, Working, RequestType
  <2> QED
    BY <2>1, <2>2, BadgeUntouched
<1>7. ASSUME NEW t \in Tenants, ExpirePending(t), UNCHANGED configVars PROVE BadgeInv'
  BY <1>7, BadgeUntouched DEF ExpirePending, configVars
<1>8. ASSUME UNCHANGED pagesVars,
             UNCHANGED configVars \/ ConfigNext
      PROVE  BadgeInv'
  <2>1. UNCHANGED <<page, subscribed, pageFaults, request>>
    BY <1>8 DEF pagesVars
  <2>2. UNCHANGED configFaults \/ configFaults' # 0
    <3>1. ASSUME NEW u \in Updates, FailLoad(u) PROVE configFaults' # 0
      BY <3>1 DEF FailLoad, ConfigTypeOK
    <3>2. ASSUME NEW u \in Updates, OpenForm(u) \/ LoadConfig(u) \/ AssignCache(u)
          PROVE  UNCHANGED configFaults
      BY <3>2 DEF OpenForm, LoadConfig, AssignCache
    <3>3. ASSUME NEW u \in Updates, NEW f \in Fields, NEW v \in Values \cup {Unset}, WriteConfig(u, f, v)
          PROVE  UNCHANGED configFaults
      BY <3>3 DEF WriteConfig
    <3> QED
      BY <1>8, <3>1, <3>2, <3>3 DEF configVars, ConfigNext
  <2> QED
    BY <2>1, <2>2, BadgeUntouched
<1>9. CASE PagesNext /\ UNCHANGED configVars
  <2>1. ASSUME NEW r \in Requests,
               /\ UNCHANGED <<page, subscribed, pageFaults>>
               /\ \A q \in Requests : request[q].at = "mark" \/ request'[q].at = "mark"
                    => request'[q] = request[q]
        PROVE  BadgeInv'
    BY <1>9, <2>1, BadgeUntouched DEF configVars
  <2> QED
    BY <1>1, <1>2, <1>3, <1>4, <1>5, <1>7, <1>9, <2>1, BadgeQuiet DEF PagesNext
<1> QED
  BY <1>6, <1>8, <1>9 DEF Next, vars, configVars, pagesVars

(* A page's badge says that Facebook sends its messages only if it does,   *)
(* and without failures says so of every page of which it does.            *)
(* (facebookOAuth.controller.ts:97-118.)                                   *)
THEOREM BadgesAreHonest == Spec => []BadgeIsHonest
<1>1. Init => ConfigInv /\ ServiceInv /\ BadgeInv
  <2> SUFFICES ASSUME Init PROVE BadgeInv
    BY ConfigInitial, ServiceInitial DEF Init
  <2>1. /\ subscribed = {}
        /\ \A r \in Requests : request[r].at = "idle"
        /\ \A p \in Pages : ~page[p].subscribed
    BY NoRequestType DEF Init, PagesInit, NoRequest, NoPage
  <2> QED
    BY <2>1 DEF BadgeInv, BadgeIsHonest
<1>2. ConfigInv /\ ServiceInv /\ BadgeInv /\ [Next]_vars => ConfigInv' /\ ServiceInv' /\ BadgeInv'
  BY ConfigStep, ServiceStep, BadgeStep, StepOfParts DEF ConfigInv
<1>3. BadgeInv => BadgeIsHonest
  BY DEF BadgeInv
<1> QED
  BY <1>1, <1>2, <1>3, PTL DEF Spec
=============================================================================
