-------------------------- MODULE MCMessagePipeline --------------------------
(* Small instances of MessagePipeline. *)
EXTENDS MessagePipeline, TLC

CONSTANTS m1, m2, d1, d2

(* A message delivered twice, the second time behind another one. *)
Redelivered == d1 :> <<m1>> @@ d2 :> <<m2, m1>>

(* A message delivered twice, the second time ahead of a new one. *)
RedeliveredWithNew == d1 :> <<m1>> @@ d2 :> <<m1, m2>>

(* One delivery of two messages. *)
Pair == d1 :> <<m1, m2>>

(* One delivery of one message. *)
Single == d1 :> <<m1>>
=============================================================================
