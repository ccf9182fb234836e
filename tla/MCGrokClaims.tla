---------------------------- MODULE MCGrokClaims ----------------------------
(* What a comment of the repository says of the AI agent and its code does *)
(* not do.                                                                 *)
EXTENDS MCGrokAgent

(* grokAgentBot.service.ts:58 says that the decision about an open order   *)
(* and the new order never come of one turn without the customer in        *)
(* between: an order is placed under the decision of another message.      *)
DecisionIsOfAnotherTurn ==
  \A m \in Messages :
    pc[m] = "details" /\ State(m).decision # None => State(m).resolver # m
=============================================================================
