----------------------------- MODULE Integrations -----------------------------
(***************************************************************************)
(* What the server has to do with the outside under one configuration:     *)
(* messages parsed with the help of a language model, and pages connected  *)
(* through the Facebook app, while admins change both.                     *)
(***************************************************************************)
EXTENDS HybridParser, FacebookPages

vars == <<doc, cache, update, configFaults, astray, parse,
          page, tenantPage, pending, subscribed, request, pageFaults, disturbed>>

Init == ConfigInit /\ ParserInit /\ PagesInit

(* The process dies, with what it was doing, and starts again.             *)
Restart == Reboot /\ ForgetParses /\ ForgetRequests

Next ==
  \/ ConfigNext /\ UNCHANGED <<parse, pagesVars>>
  \/ ParserNext /\ UNCHANGED <<configVars, pagesVars>>
  \/ PagesNext /\ UNCHANGED <<configVars, parse>>
  \/ Restart

Spec == Init /\ [][Next]_vars

TypeOK == ConfigTypeOK /\ ParserTypeOK /\ PagesTypeOK
=============================================================================
