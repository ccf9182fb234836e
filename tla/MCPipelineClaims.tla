--------------------------- MODULE MCPipelineClaims --------------------------
(***************************************************************************)
(* What the documents and comments of the repository say of the pipeline   *)
(* and the code does not do, refuted on an environment no harsher than the *)
(* sentence itself speaks of.                                              *)
(***************************************************************************)
EXTENDS MCMessagePipeline

(* webhook.service.ts:67: a duplicate is skipped.  Whatever is duplicated, *)
(* a handler that has ended has stored every message it was given.         *)
HandledBatchIsStored ==
  \A d \in Deliveries : handler[d] \in {"done", "aborted"} =>
    \A i \in 1..Len(Batch[d]) : message[Batch[d][i]] # "absent"
=============================================================================
