----------------------------- MODULE HybridParser -----------------------------
(***************************************************************************)
(* What a message is taken to say.  Rules read it and say how sure they    *)
(* are; if that is not enough, and the tenant has it enabled, a language   *)
(* model is asked, whose answer is logged and put in order before it is    *)
(* used.  Any failure on that way falls back to what the rules read.  The  *)
(* result is then validated by the schema of ParsedOrder.                  *)
(*                                                                         *)
(* A text is what the rules' patterns find in it, an answer what the code  *)
(* finds in its fields; confidence and quantities are in tenths.           *)
(***************************************************************************)
EXTENDS PlatformConfig, Integers

CONSTANTS
  aiApiKey,      \* a field of the configuration
  Parses,        \* attempts at messages
  Texts, Answers,
  Nothing

Intents == {"order", "question", "spam", "unknown"}

(* Quantities and confidences the model may answer.                        *)
Quantities == {-10, 0, 4, 5, 24}
Scores == {-5, 3, 15}

(* A text: how many its first quantity pattern says, and the bare number,  *)
(* of 2 or more, it would fall back to.                                    *)
TextType == [spam : BOOLEAN, intent : {"order", "question", "unknown"},
             phone : BOOLEAN, address : BOOLEAN, product : BOOLEAN,
             counted : {Nothing, 0, 10}, bare : {Nothing, 20}]

(* The text of an answer: not an object, or one whose fields may be junk.  *)
AnswerType == [object : BOOLEAN, intent : Intents \cup {Nothing},
               quantity : Quantities \cup {Nothing},
               phone : {"good", "bad"}, score : Scores \cup {Nothing}]

ASSUME ParserAssumption ==
  /\ aiApiKey \in Fields
  /\ Texts \subseteq TextType
  /\ Answers \subseteq AnswerType
  /\ Nothing \notin Values \cup Texts \cup Answers \cup Intents \cup Int

VARIABLES parse   \* of each attempt

NoResult == [source |-> "rule", intent |-> "unknown", quantity |-> Nothing,
             phone |-> FALSE, score |-> 0]

NoParse == [at |-> "idle", text |-> Nothing, enabled |-> FALSE, key |-> Unset, answer |-> Nothing,
            logged |-> {}, unlogged |-> FALSE, result |-> NoResult]

ParserInit == parse = [p \in Parses |-> NoParse]

----------------------------------------------------------------------------
(* ruleBasedParse.                                                         *)

One(b, n) == IF b THEN n ELSE 0

Score(t) == One(t.intent # "unknown", 2) + One(t.phone, 3) + One(t.address, 2) + One(t.product, 3)

(* A count of 0 is falsy, and gives way to a bare number if there is one.  *)
Counted(t) == IF t.counted \in {Nothing, 0} /\ t.bare # Nothing THEN t.bare ELSE t.counted

ruleBasedParse(t) ==
  IF t.spam THEN [NoResult EXCEPT !.intent = "spam", !.score = 9]
  ELSE [source |-> "rule", intent |-> t.intent, quantity |-> Counted(t), phone |-> t.phone,
        score |-> Score(t)]

Accepted(r) == r.score >= 7

----------------------------------------------------------------------------
(* hybridParse: a result that is not accepted is asked of the model, which *)
(* is not done without a key.                                              *)
BeginParse(p, t, enabled) ==
  /\ parse[p].at = "idle"
  /\ LET r == ruleBasedParse(t)
         asks == ~Accepted(r) /\ enabled /\ cache[aiApiKey] # Unset
     IN parse' = [parse EXCEPT ![p] =
          [NoParse EXCEPT !.at = IF asks THEN "asked" ELSE "parsed",
                          !.text = t, !.enabled = enabled,
                          !.key = IF asks THEN cache[aiApiKey] ELSE Unset, !.result = r]]

(* The headers are there in time, or the call ends in an error: of the     *)
(* network, by the timeout, or of the HTTP status.                         *)
Fetched(p) ==
  /\ parse[p].at = "asked"
  /\ parse' = [parse EXCEPT ![p].at = "reading"]

FetchFails(p) ==
  /\ parse[p].at \in {"asked", "reading"}
  /\ parse' = [parse EXCEPT ![p].at = "failing"]

(* The body, which no timeout bounds any more.                             *)
ReadBody(p, a) ==
  /\ parse[p].at = "reading"
  /\ parse' = [parse EXCEPT ![p].at = "logging", ![p].answer = a]

(* Mutant: the write of the log is not awaited.                            *)
LogResponse_NotAwaited(p, ok) ==
  /\ parse[p].at = "logging"
  /\ parse' = [parse EXCEPT ![p].at = "validating",
                            ![p].logged = IF ok THEN @ \cup {"response"} ELSE @]

LogResponse(p, ok) ==
  /\ parse[p].at = "logging"
  /\ parse' = [parse EXCEPT ![p].at = IF ok THEN "validating" ELSE "failing",
                            ![p].logged = IF ok THEN @ \cup {"response"} ELSE @]

(* Mutant: a quantity need not be positive.                                *)
Rounded_Unchecked(q) == IF q = Nothing THEN Nothing ELSE 10 * ((q + 5) \div 10)

(* Math.round of what is positive, and a confidence between 0 and 1.       *)
Rounded(q) == IF q = Nothing \/ q <= 0 THEN Nothing ELSE 10 * ((q + 5) \div 10)

(* Mutant: a confidence is not kept to 1.                                  *)
Clamped_Below(s) == CASE s = Nothing -> 0 [] s < 0 -> 0 [] OTHER -> s

Clamped(s) == CASE s = Nothing -> 0 [] s < 0 -> 0 [] s > 10 -> 10 [] OTHER -> s

ValidateResponse(p) ==
  /\ parse[p].at = "validating"
  /\ LET a == parse[p].answer IN
       parse' = [parse EXCEPT ![p] =
         IF a.object
         THEN [@ EXCEPT !.at = "parsed",
                 !.result = [source |-> "ai", quantity |-> Rounded(a.quantity),
                             intent |-> IF a.intent = Nothing THEN "unknown" ELSE a.intent,
                             phone |-> a.phone = "good", score |-> Clamped(a.score)]]
         ELSE [@ EXCEPT !.at = "failing"]]

(* The error is logged, if that works; the result stays that of the rules. *)
LogError(p, ok) ==
  /\ parse[p].at = "failing"
  /\ parse' = [parse EXCEPT ![p].at = "parsed", ![p].unlogged = ~ok,
                            ![p].logged = IF ok THEN @ \cup {"error"} ELSE @]

(* processMessage then stores the result, which the schema may reject.     *)
Storable(r) ==
  /\ r.intent \in Intents
  /\ r.quantity = Nothing \/ r.quantity >= 10
  /\ r.score \in 0 .. 10

StoreParsed(p) ==
  /\ parse[p].at = "parsed"
  /\ parse' = [parse EXCEPT ![p].at = IF Storable(parse[p].result) THEN "stored" ELSE "rejected"]

(* A process that dies takes its attempts along.                           *)
ForgetParses ==
  parse' = [p \in Parses |-> IF parse[p].at \in {"stored", "rejected"} THEN parse[p] ELSE NoParse]

ParserNext ==
  \E p \in Parses :
    \/ \E t \in Texts, enabled \in BOOLEAN : BeginParse(p, t, enabled)
    \/ Fetched(p) \/ FetchFails(p)
    \/ \E a \in Answers : ReadBody(p, a)
    \/ \E ok \in BOOLEAN : LogResponse(p, ok) \/ LogError(p, ok)
    \/ ValidateResponse(p)
    \/ StoreParsed(p)

----------------------------------------------------------------------------
ResultType == [source : {"rule", "ai"}, intent : Intents,
               quantity : {Nothing} \cup {0, 10, 20}, phone : BOOLEAN, score : 0 .. 15]

ParserTypeOK ==
  parse \in [Parses ->
    [at : {"idle", "asked", "reading", "logging", "validating", "failing", "parsed",
           "stored", "rejected"},
     text : Texts \cup {Nothing}, enabled : BOOLEAN, key : Values \cup {Unset},
     answer : Answers \cup {Nothing}, logged : SUBSET {"response", "error"},
     unlogged : BOOLEAN, result : ResultType]]

Found(t) == {x \in {"intent", "phone", "address", "product"} :
               CASE x = "intent" -> t.intent # "unknown"
                 [] x = "phone" -> t.phone
                 [] x = "address" -> t.address
                 [] x = "product" -> t.product}

(* The model is asked only of what a rule leaves open: of a text in which  *)
(* they find two things at most and no spam, with the tenant's consent.    *)
(* (The weights of ruleParser.ts:98-161 against the threshold of           *)
(* hybridParser.ts:5 and :20.)                                             *)
AiOnlyWhenUnsure ==
  \A p \in Parses : parse[p].key # Unset =>
    /\ parse[p].enabled
    /\ ~parse[p].text.spam
    /\ ~\E x, y, z \in Found(parse[p].text) : x # y /\ y # z /\ x # z

(* Whatever the text, and whatever the model answers, ParsedOrder rejects  *)
(* nothing but a quantity of 0: one the text itself gives, or a positive   *)
(* one below a half that is rounded.  (aiParser.ts:63-84 and               *)
(* ruleParser.ts:111-127 against the schema, ParsedOrder.ts:18-36.)        *)
OnlyZeroIsRejected ==
  \A p \in Parses : parse[p].at = "rejected" =>
    /\ parse[p].result.quantity = 0
    /\ IF parse[p].result.source = "ai"
         THEN parse[p].answer.quantity \in 1 .. 4
         ELSE parse[p].text.counted = 0 /\ parse[p].text.bare = Nothing

(* Every call of the model leaves a trace: one whose answer is used has it *)
(* logged, one that came to nothing has an error logged, unless that write *)
(* failed too.  (docs/architecture.md:45-46; aiParser.ts:132, :152-158.)   *)
LogsTell ==
  \A p \in Parses :
    parse[p].at \in {"parsed", "stored", "rejected"} /\ parse[p].key # Unset =>
      IF parse[p].result.source = "ai" THEN "response" \in parse[p].logged
      ELSE "error" \in parse[p].logged \/ parse[p].unlogged
=============================================================================
