------------------------ MODULE MessagePipelineProofs ------------------------
(***************************************************************************)
(* Theorems of MessagePipeline, for every set of messages and deliveries,  *)
(* every batch and every bound.                                            *)
(***************************************************************************)
EXTENDS MessagePipeline, FiniteSetTheorems, TLAPS

(* A group of variables that does not change keeps its types. *)
LEMMA UnchangedTypes ==
  /\ WebhookTypeOK /\ UNCHANGED webhookVars => WebhookTypeOK'
  /\ DocumentTypeOK /\ UNCHANGED documentVars => DocumentTypeOK'
  /\ QueueTypeOK /\ UNCHANGED queueVars => QueueTypeOK'
  /\ WorkerTypeOK /\ UNCHANGED workerVars => WorkerTypeOK'
  /\ ProcessTypeOK /\ UNCHANGED <<processVars, aged, redisUp, boundVars>>
       => ProcessTypeOK'
<1>1. WebhookTypeOK /\ UNCHANGED webhookVars => WebhookTypeOK'
  BY DEF WebhookTypeOK, webhookVars
<1>2. DocumentTypeOK /\ UNCHANGED documentVars => DocumentTypeOK'
  BY DEF DocumentTypeOK, documentVars
<1>3. QueueTypeOK /\ UNCHANGED queueVars => QueueTypeOK'
  BY DEF QueueTypeOK, queueVars
<1>4. WorkerTypeOK /\ UNCHANGED workerVars => WorkerTypeOK'
  BY DEF WorkerTypeOK, workerVars
<1>5. ProcessTypeOK /\ UNCHANGED <<processVars, aged, redisUp, boundVars>>
        => ProcessTypeOK'
  BY DEF ProcessTypeOK, processVars, boundVars
<1> QED
  BY <1>1, <1>2, <1>3, <1>4, <1>5

(* The message a handler is at is one of the messages. *)
LEMMA AtIsMessage ==
  ASSUME WebhookTypeOK, NEW d \in Deliveries, handler[d] \notin {"idle", "done"}
  PROVE  At(d) \in Messages
BY PipelineAssumption DEF At, WebhookTypeOK

LEMMA NextMessageTypes ==
  ASSUME WebhookTypeOK, NEW d \in Deliveries, Active(d), NextMessage(d)
  PROVE  WebhookTypeOK'
<1> USE PipelineAssumption DEF Active
<1>1. /\ handler \in [Deliveries -> HandlerState]
      /\ pos \in [Deliveries -> Nat \ {0}]
      /\ \A e \in Deliveries :
           /\ handler[e] = "idle" => pos[e] = 1
           /\ handler[e] \notin {"idle", "done"} => pos[e] <= Len(Batch[e])
      /\ Len(Batch[d]) \in Nat
  BY DEF WebhookTypeOK
<1>2. CASE pos[d] < Len(Batch[d])
  <2>1. /\ pos' = [pos EXCEPT ![d] = @ + 1]
        /\ handler' = [handler EXCEPT ![d] = "look"]
    BY <1>2 DEF NextMessage
  <2> QED
    BY <1>1, <1>2, <2>1 DEF WebhookTypeOK, HandlerState
<1>3. CASE ~ pos[d] < Len(Batch[d])
  <2>1. pos' = pos /\ handler' = [handler EXCEPT ![d] = "done"]
    BY <1>3 DEF NextMessage
  <2> QED
    BY <1>1, <2>1 DEF WebhookTypeOK, HandlerState
<1> QED
  BY <1>2, <1>3

LEMMA AddJobTypes ==
  ASSUME QueueTypeOK, NEW m \in Messages, NEW b \in BOOLEAN, AddJob(m, b)
  PROVE  QueueTypeOK'
<1>1. CASE job[m] = "absent"
  BY <1>1 DEF AddJob, QueueTypeOK, JobState
<1>2. CASE job[m] # "absent"
  BY <1>2 DEF AddJob, QueueTypeOK, queueVars
<1> QED
  BY <1>1, <1>2

(* A dying process leaves every type as it was. *)
LEMMA DieTypes ==
  ASSUME TypeOK, Die, crashes' \in Nat
  PROVE  TypeOK'
<1>1. WebhookTypeOK'
  BY DEF Die, TypeOK, WebhookTypeOK, HandlerState, Active, Interrupted
<1>2. WorkerTypeOK'
  BY DEF Die, TypeOK, WorkerTypeOK, ExecState
<1>3. ProcessTypeOK'
  BY DEF Die, TypeOK, ProcessTypeOK, ServerState
<1> QED
  BY <1>1, <1>2, <1>3, UnchangedTypes DEF Die, TypeOK

(* Every reachable state is well typed. *)
THEOREM TypeCorrect == Spec => []TypeOK
<1>1. Init => TypeOK
  BY PipelineAssumption
  DEF Init, TypeOK, WebhookTypeOK, DocumentTypeOK, QueueTypeOK, WorkerTypeOK,
      ProcessTypeOK, HandlerState, JobState, ExecState, ServerState
<1>2. TypeOK /\ [Next]_vars => TypeOK'
  <2> SUFFICES ASSUME TypeOK, [Next]_vars PROVE TypeOK'
    OBVIOUS
  <2> USE UnchangedTypes DEF TypeOK
  <2>1. ASSUME NEW d \in Deliveries, HandlePost(d) PROVE TypeOK'
    BY <2>1, PipelineAssumption
    DEF HandlePost, WebhookTypeOK, HandlerState, webhookVars
  <2>2. ASSUME NEW d \in Deliveries, MessageExists(d) PROVE TypeOK'
    <3>1. CASE NextMessage(d)
      BY <2>2, <3>1, NextMessageTypes DEF MessageExists, Active, ProcessTypeOK, processVars, boundVars
    <3>2. CASE handler' = [handler EXCEPT ![d] = "create"] /\ UNCHANGED pos
      BY <2>2, <3>2 DEF MessageExists, WebhookTypeOK, HandlerState
    <3> QED
      BY <2>2, <3>1, <3>2 DEF MessageExists
  <2>3. ASSUME NEW d \in Deliveries, CreateMessage(d) PROVE TypeOK'
    <3>1. WebhookTypeOK'
      BY <2>3 DEF CreateMessage, WebhookTypeOK, HandlerState
    <3>2. At(d) \in Messages
      BY <2>3, AtIsMessage DEF CreateMessage
    <3>3. DocumentTypeOK'
      BY <2>3, <3>2 DEF CreateMessage, DocumentTypeOK
    <3> QED
      BY <2>3, <3>1, <3>3 DEF CreateMessage
  <2>4. ASSUME NEW d \in Deliveries, CreateWebhookLog(d) PROVE TypeOK'
    BY <2>4, PipelineAssumption
    DEF CreateWebhookLog, At, WebhookTypeOK, DocumentTypeOK, HandlerState, webhookVars, documentVars
  <2>5. ASSUME NEW d \in Deliveries, EnqueueMessage(d) PROVE TypeOK'
    <3>1. WebhookTypeOK'
      BY <2>5, NextMessageTypes DEF EnqueueMessage, Active
    <3>2. QueueTypeOK'
      BY <2>5, AtIsMessage, AddJobTypes DEF EnqueueMessage
    <3> QED
      BY <2>5, <3>1, <3>2 DEF EnqueueMessage
  <2>6. ASSUME NEW d \in Deliveries, HandlerFault(d) PROVE TypeOK'
    BY <2>6, PipelineAssumption
    DEF HandlerFault, Active, Interrupted, WebhookTypeOK, ProcessTypeOK, HandlerState, ServerState, webhookVars, processVars, boundVars
  <2>7. ASSUME NEW m \in Messages, StartJob(m) PROVE TypeOK'
    BY <2>7, PipelineAssumption
    DEF StartJob, QueueTypeOK, WorkerTypeOK, JobState, ExecState, queueVars, workerVars
  <2>8. ASSUME NEW m \in Messages, CreateParsedOrder(m) PROVE TypeOK'
    <3>1. DocumentTypeOK'
      BY <2>8 DEF CreateParsedOrder, DocumentTypeOK
    <3>2. WorkerTypeOK'
      BY <2>8 DEF CreateParsedOrder, WorkerTypeOK, ExecState
    <3> QED
      BY <2>8, <3>1, <3>2 DEF CreateParsedOrder
  <2>9. ASSUME NEW m \in Messages, RouteConversation(m) PROVE TypeOK'
    BY <2>9, PipelineAssumption
    DEF RouteConversation, DocumentTypeOK, WorkerTypeOK, ExecState, documentVars, workerVars
  <2>10. ASSUME NEW m \in Messages, MarkProcessed(m) PROVE TypeOK'
    BY <2>10, PipelineAssumption
    DEF MarkProcessed, AfterMark, DocumentTypeOK, WorkerTypeOK, ExecState, documentVars, workerVars
  <2>11. ASSUME NEW m \in Messages, ResolveLog(m) PROVE TypeOK'
    BY <2>11, PipelineAssumption
    DEF ResolveLog, DocumentTypeOK, WorkerTypeOK, ExecState, documentVars, workerVars
  <2>12. ASSUME NEW m \in Messages, CompleteJob(m) PROVE TypeOK'
    BY <2>12, PipelineAssumption
    DEF CompleteJob, QueueTypeOK, WorkerTypeOK, JobState, ExecState, queueVars, workerVars
  <2>13. ASSUME NEW m \in Messages, FailJob(m) PROVE TypeOK'
    BY <2>13, PipelineAssumption
    DEF FailJob, QueueTypeOK, WorkerTypeOK, JobState, ExecState, queueVars, workerVars
  <2>14. ASSUME NEW m \in Messages, Throw(m) PROVE TypeOK'
    BY <2>14, PipelineAssumption
    DEF Throw, WorkerTypeOK, ProcessTypeOK, ExecState, ServerState, workerVars, processVars, boundVars
  <2>15. ASSUME NEW m \in Messages, BackoffEnds(m) PROVE TypeOK'
    BY <2>15, PipelineAssumption
    DEF BackoffEnds, QueueTypeOK, JobState, queueVars
  <2>16. ASSUME NEW m \in Messages, RequeueStalled(m) PROVE TypeOK'
    BY <2>16, PipelineAssumption
    DEF RequeueStalled, QueueTypeOK, JobState, queueVars
  <2>17. ASSUME NEW m \in Messages, FailStalled(m) PROVE TypeOK'
    <3>1. QueueTypeOK'
      BY <2>17 DEF FailStalled, QueueTypeOK, JobState
    <3>2. made[m] + 1 \in Nat \ {0}
      BY DEF QueueTypeOK
    <3>3. failures' \in [Messages -> SUBSET (Nat \ {0})] /\ UNCHANGED <<exec, alerts>>
      BY <2>17, <3>2 DEF FailStalled, WorkerTypeOK
    <3>4. WorkerTypeOK'
      BY <3>3 DEF WorkerTypeOK
    <3> QED
      BY <2>17, <3>1, <3>4 DEF FailStalled
  <2>18. ASSUME NEW m \in Messages, NEW k \in failures[m], OnFailed(m, k) PROVE TypeOK'
    <3>1. DocumentTypeOK'
      BY <2>18 DEF OnFailed, DocumentTypeOK
    <3>2. WorkerTypeOK'
      BY <2>18 DEF OnFailed, WorkerTypeOK
    <3>3. ProcessTypeOK'
      BY <2>18 DEF OnFailed, ProcessTypeOK, processVars
    <3> QED
      BY <2>18, <3>1, <3>2, <3>3 DEF OnFailed
  <2>19. ASSUME NEW m \in Messages, EvictJob(m) PROVE TypeOK'
    BY <2>19, PipelineAssumption
    DEF EvictJob, QueueTypeOK, JobState, queueVars
  <2>20. ASSUME NEW m \in Messages, RecoverMessage(m) PROVE TypeOK'
    <3>1. QueueTypeOK'
      BY <2>20, AddJobTypes DEF RecoverMessage
    <3>2. ProcessTypeOK'
      BY <2>20 DEF RecoverMessage, ProcessTypeOK
    <3> QED
      BY <2>20, <3>1, <3>2 DEF RecoverMessage
  <2>21. ASSUME Boot PROVE TypeOK'
    BY <2>21, PipelineAssumption
    DEF Boot, ProcessTypeOK, ServerState, processVars, boundVars
  <2>22. ASSUME FindStuck PROVE TypeOK'
    BY <2>22, PipelineAssumption
    DEF FindStuck, Stuck, ProcessTypeOK, ServerState, processVars, boundVars
  <2>23. ASSUME Listen PROVE TypeOK'
    BY <2>23, PipelineAssumption
    DEF Listen, ProcessTypeOK, ServerState, processVars, boundVars
  <2>24. ASSUME Crash PROVE TypeOK'
    <3>1. crashes' \in Nat
      BY <2>24 DEF Crash, ProcessTypeOK
    <3> QED
      BY <2>24, <3>1, DieTypes DEF Crash
  <2>25. ASSUME Shutdown PROVE TypeOK'
    BY <2>25, PipelineAssumption
    DEF Shutdown, ProcessTypeOK, ServerState, processVars, boundVars
  <2>26. ASSUME StopWorker PROVE TypeOK'
    BY <2>26, PipelineAssumption
    DEF StopWorker, ProcessTypeOK, ServerState, processVars, boundVars
  <2>27. ASSUME Exit PROVE TypeOK'
    BY <2>27, DieTypes DEF Exit, ProcessTypeOK
  <2>28. ASSUME ForcedExit PROVE TypeOK'
    BY <2>28, DieTypes DEF ForcedExit, ProcessTypeOK
  <2>29. ASSUME MinutePasses PROVE TypeOK'
    BY <2>29, PipelineAssumption
    DEF MinutePasses, ProcessTypeOK, ServerState, processVars, boundVars
  <2>30. ASSUME RedisFails PROVE TypeOK'
    <3>1. redisUp' \in BOOLEAN
      BY <2>30 DEF RedisFails
    <3>2. UNCHANGED <<processVars, aged>> /\ {crashes, faults, outages}' \subseteq Nat
      BY <2>30 DEF RedisFails, ProcessTypeOK
    <3>3. ProcessTypeOK'
      BY <3>1, <3>2 DEF ProcessTypeOK, processVars
    <3> QED
      BY <2>30, <3>3 DEF RedisFails
  <2>31. ASSUME RedisReturns PROVE TypeOK'
    BY <2>31, PipelineAssumption
    DEF RedisReturns, ProcessTypeOK, ServerState, processVars, boundVars
  <2>32. CASE UNCHANGED vars
    BY <2>32 DEF vars
  <2> QED
    BY <2>1, <2>2, <2>3, <2>4, <2>5, <2>6, <2>7, <2>8, <2>9, <2>10, <2>11, <2>12, <2>13, <2>14, <2>15, <2>16, <2>17, <2>18, <2>19, <2>20, <2>21, <2>22, <2>23, <2>24, <2>25, <2>26, <2>27, <2>28, <2>29, <2>30, <2>31, <2>32
    DEF Next, HandlerStep, AttemptStep, QueueStep, Listener
<1> QED
  BY <1>1, <1>2, PTL DEF Spec

----------------------------------------------------------------------------
(* Who holds a message: the part of the invariant about handlers, the scan *)
(* and the attempts.                                                       *)
Possession == HandlerCustody /\ AttemptHoldsJob /\ OneHandlerStores

(* What a step of an attempt or of the queue has to leave as it is.        *)
LEMMA JobsKeepPossession ==
  ASSUME TypeOK, Possession, UNCHANGED <<handler, pos, server, recovery, aged>>,
         \A k \in Messages :
           /\ job[k] = "absent" => job'[k] = "absent"
           /\ message[k] # "absent" => message'[k] # "absent"
           /\ exec'[k] # "idle" => job'[k] = "active" /\ server # "down"
  PROVE  Possession'
<1>1. \A d \in Deliveries : Storing(d) => At(d) \in Messages
  BY AtIsMessage DEF Storing, TypeOK
<1>2. \A d \in Deliveries :
        At(d)' = At(d) /\ (Active(d)' <=> Active(d)) /\ (Storing(d)' <=> Storing(d))
  BY DEF At, Active, Storing
<1>3. \A k \in aged \cup recovery : k \in Messages
  BY DEF TypeOK, ProcessTypeOK
<1>4. HandlerCustody'
  BY <1>1, <1>2, <1>3 DEF Possession, HandlerCustody
<1>5. AttemptHoldsJob'
  BY DEF Possession, AttemptHoldsJob
<1>6. OneHandlerStores'
  BY <1>2 DEF Possession, OneHandlerStores
<1> QED
  BY <1>4, <1>5, <1>6 DEF Possession

LEMMA WorkerKeepsPossession ==
  ASSUME TypeOK, Possession, NEW m \in Messages,
         \/ StartJob(m) \/ CreateParsedOrder(m) \/ RouteConversation(m) \/ MarkProcessed(m)
         \/ ResolveLog(m) \/ CompleteJob(m) \/ FailJob(m) \/ Throw(m) \/ BackoffEnds(m)
         \/ RequeueStalled(m) \/ FailStalled(m) \/ EvictJob(m)
  PROVE  Possession'
<1>1. /\ job \in [Messages -> JobState] /\ exec \in [Messages -> ExecState]
      /\ message \in [Messages -> {"absent", "unprocessed", "processed"}]
      /\ \A k \in Messages : exec[k] # "idle" => job[k] = "active" /\ server # "down"
  BY DEF TypeOK, QueueTypeOK, WorkerTypeOK, DocumentTypeOK, Possession, AttemptHoldsJob
<1> USE DEF webhookVars, documentVars, queueVars, workerVars, processVars
<1>2. CASE StartJob(m)
  BY <1>1, <1>2, JobsKeepPossession DEF StartJob
<1>3. CASE CreateParsedOrder(m) \/ RouteConversation(m) \/ ResolveLog(m) \/ Throw(m)
  <2>1. /\ UNCHANGED <<handler, pos, message, job, server, recovery, aged>>
        /\ exec[m] # "idle" /\ \A k \in Messages \ {m} : exec'[k] = exec[k]
    BY <1>1, <1>3 DEF CreateParsedOrder, RouteConversation, ResolveLog, Throw
  <2> QED
    BY <1>1, <2>1, JobsKeepPossession
<1>4. CASE MarkProcessed(m)
  <2>1. /\ UNCHANGED <<handler, pos, job, server, recovery, aged>>
        /\ exec[m] # "idle" /\ \A k \in Messages \ {m} : exec'[k] = exec[k]
        /\ message' = [message EXCEPT ![m] = "processed"]
    BY <1>1, <1>4 DEF MarkProcessed
  <2> QED
    BY <1>1, <2>1, JobsKeepPossession
<1>5. CASE CompleteJob(m) \/ FailJob(m)
  <2>1. /\ UNCHANGED <<handler, pos, message, server, recovery, aged>>
        /\ exec[m] # "idle" /\ exec' = [exec EXCEPT ![m] = "idle"]
        /\ \A k \in Messages \ {m} : job'[k] = job[k]
    BY <1>1, <1>5 DEF CompleteJob, FailJob
  <2>2. job[m] # "absent"
    BY <1>1, <2>1
  <2> QED
    BY <1>1, <2>1, <2>2, JobsKeepPossession
<1>6. CASE BackoffEnds(m) \/ RequeueStalled(m) \/ FailStalled(m) \/ EvictJob(m)
  <2>1. /\ UNCHANGED <<handler, pos, message, exec, server, recovery, aged>>
        /\ job[m] # "absent"
        /\ \A k \in Messages \ {m} : job'[k] = job[k]
        /\ job[m] # "active" \/ exec[m] = "idle"
    BY <1>1, <1>6 DEF BackoffEnds, RequeueStalled, FailStalled, EvictJob
  <2>2. exec[m] = "idle"
    BY <1>1, <2>1
  <2> QED
    BY <1>1, <2>1, <2>2, JobsKeepPossession
<1> QED
  BY <1>2, <1>3, <1>4, <1>5, <1>6

LEMMA PossessionStep ==
  ASSUME TypeOK, TypeOK', Possession, [Next]_vars
  PROVE  Possession'
<1>w. ASSUME NEW m \in Messages,
             \/ StartJob(m) \/ CreateParsedOrder(m) \/ RouteConversation(m) \/ MarkProcessed(m)
             \/ ResolveLog(m) \/ CompleteJob(m) \/ FailJob(m) \/ Throw(m) \/ BackoffEnds(m)
             \/ RequeueStalled(m) \/ FailStalled(m) \/ EvictJob(m)
      PROVE  Possession'
  BY <1>w, WorkerKeepsPossession
<1>1. Possession'
  <2> USE DEF Possession, HandlerCustody, AttemptHoldsJob, OneHandlerStores, Active, Storing, At,
          TypeOK, WebhookTypeOK, DocumentTypeOK, QueueTypeOK, WorkerTypeOK, ProcessTypeOK,
          webhookVars, documentVars, queueVars, workerVars, processVars, boundVars
  <2>0. \A e \in Deliveries : Storing(e) => At(e) \in Messages
    BY AtIsMessage
  <2>1. ASSUME NEW d \in Deliveries, HandlePost(d) PROVE Possession'
    BY <2>1 DEF HandlePost
  <2>2. ASSUME NEW d \in Deliveries, MessageExists(d) PROVE Possession'
    <3>1. /\ handler' \in {[handler EXCEPT ![d] = s] : s \in {"look", "create", "done"}}
          /\ \A e \in Deliveries : e # d => pos'[e] = pos[e]
      BY <2>2 DEF MessageExists, NextMessage
    <3>2. \A e \in Deliveries :
            /\ Storing(e)' => Storing(e) /\ At(e)' = At(e)
            /\ Active(e)' => Active(e)
      BY <2>2, <3>1 DEF MessageExists
    <3>3. UNCHANGED <<message, job, exec, server, recovery, aged>>
      BY <2>2 DEF MessageExists
    <3> HIDE DEF Active, Storing, At
    <3> QED
      BY <3>2, <3>3
  <2>3. ASSUME NEW d \in Deliveries, CreateMessage(d) PROVE Possession'
    <3>1. At(d) \in Messages /\ Active(d)
      BY <2>3, AtIsMessage DEF CreateMessage
    <3>2. UNCHANGED <<job, exec, server, recovery, aged>> /\ \A e \in Deliveries : At(e)' = At(e)
      BY <2>3 DEF CreateMessage
    <3>3. CASE message[At(d)] = "absent"
      <4>1. /\ message' = [message EXCEPT ![At(d)] = "unprocessed"]
            /\ handler' = [handler EXCEPT ![d] = "log"]
        BY <2>3, <3>3 DEF CreateMessage
      <4>2. job[At(d)] = "absent"
        BY <3>1, <3>3
      <4>3. \A e \in Deliveries :
              /\ Storing(e)' <=> Storing(e) \/ e = d
              /\ Active(e)' <=> Active(e)
        BY <3>1, <4>1
      <4> HIDE DEF Active, Storing, At
      <4>4. \A e \in Deliveries : Storing(e) => At(e) # At(d)
        BY <3>3
      <4>8. \A k \in Messages : message[k] # "absent" => message'[k] # "absent"
        BY <4>1
      <4>9. message'[At(d)] # "absent"
        BY <3>1, <4>1
      <4>10. \A e \in Deliveries : Storing(e)' /\ Active(e)' => job'[At(e)'] = "absent"
        <5>1. \A e \in Deliveries : Storing(e) /\ Active(e) => job[At(e)] = "absent"
          OBVIOUS
        <5> HIDE DEF Possession, HandlerCustody, AttemptHoldsJob, OneHandlerStores, TypeOK
        <5> QED
          BY <3>2, <4>2, <4>3, <5>1
      <4>11. \A e \in Deliveries : Storing(e)' => message'[At(e)'] # "absent"
        BY <2>0, <3>2, <4>3, <4>8, <4>9
      <4>12. \A e \in Deliveries : Active(e)' => server' \in {"up", "closing", "draining"}
        BY <3>2, <4>3
      <4>5. HandlerCustody'
        BY <3>2, <4>8, <4>10, <4>11, <4>12
      <4>6. AttemptHoldsJob'
        BY <3>1, <3>2, <4>1
      <4>7. OneHandlerStores'
        BY <2>3, <4>1, <4>4 DEF CreateMessage, Storing, At
      <4> QED
        BY <4>5, <4>6, <4>7
    <3>4. CASE message[At(d)] # "absent"
      <4>1. handler' = [handler EXCEPT ![d] = "aborted"] /\ UNCHANGED message
        BY <2>3, <3>4 DEF CreateMessage
      <4>2. \A e \in Deliveries :
              /\ Storing(e)' => Storing(e)
              /\ Active(e)' => Active(e)
        BY <4>1
      <4> HIDE DEF Active, Storing, At
      <4> QED
        BY <3>2, <4>1, <4>2
    <3> QED
      BY <3>3, <3>4
  <2>4. ASSUME NEW d \in Deliveries, CreateWebhookLog(d) PROVE Possession'
    <3>1. \A e \in Deliveries :
            /\ Storing(e)' <=> Storing(e)
            /\ Active(e)' <=> Active(e)
            /\ At(e)' = At(e)
      BY <2>4 DEF CreateWebhookLog
    <3>2. UNCHANGED <<message, job, exec, server, recovery, aged>>
      BY <2>4 DEF CreateWebhookLog
    <3> HIDE DEF Active, Storing, At
    <3> QED
      BY <3>1, <3>2
  <2>5. ASSUME NEW d \in Deliveries, EnqueueMessage(d) PROVE Possession'
    <3>1. /\ handler' \in {[handler EXCEPT ![d] = s] : s \in {"look", "done"}}
          /\ \A e \in Deliveries : e # d => pos'[e] = pos[e]
      BY <2>5 DEF EnqueueMessage, NextMessage
    <3>2. \A e \in Deliveries :
            /\ Storing(e)' => Storing(e) /\ At(e)' = At(e) /\ At(e) # At(d)
            /\ Active(e)' => Active(e)
      BY <2>5, <3>1 DEF EnqueueMessage
    <3>3. /\ job' = [job EXCEPT ![At(d)] = "waiting"]
          /\ At(d) \in Messages
          /\ job[At(d)] = "absent"
          /\ message[At(d)] # "absent"
      BY <2>5, AtIsMessage DEF EnqueueMessage, AddJob
    <3>4. UNCHANGED <<message, exec, server, recovery, aged>>
      BY <2>5 DEF EnqueueMessage
    <3>5. AttemptHoldsJob'
      BY <3>3, <3>4
    <3> HIDE DEF Active, Storing, At
    <3>6. OneHandlerStores'
      BY <3>2
    <3>7. \A e \in Deliveries : Storing(e)' /\ Active(e)' => job'[At(e)'] = "absent"
      BY <2>0, <3>2, <3>3
    <3>8. HandlerCustody'
      BY <3>2, <3>4, <3>7
    <3> QED
      BY <3>5, <3>6, <3>8
  <2>6. ASSUME NEW d \in Deliveries, HandlerFault(d) PROVE Possession'
    BY <2>6 DEF HandlerFault, Interrupted
  <2>7. ASSUME NEW m \in Messages, StartJob(m) PROVE Possession'
    BY <2>7, <1>w
  <2>8. ASSUME NEW m \in Messages, CreateParsedOrder(m) PROVE Possession'
    BY <2>8, <1>w
  <2>9. ASSUME NEW m \in Messages, RouteConversation(m) PROVE Possession'
    BY <2>9, <1>w
  <2>10. ASSUME NEW m \in Messages, MarkProcessed(m) PROVE Possession'
    BY <2>10, <1>w
  <2>11. ASSUME NEW m \in Messages, ResolveLog(m) PROVE Possession'
    BY <2>11, <1>w
  <2>12. ASSUME NEW m \in Messages, CompleteJob(m) PROVE Possession'
    BY <2>12, <1>w
  <2>13. ASSUME NEW m \in Messages, FailJob(m) PROVE Possession'
    BY <2>13, <1>w
  <2>14. ASSUME NEW m \in Messages, Throw(m) PROVE Possession'
    BY <2>14, <1>w
  <2>15. ASSUME NEW m \in Messages, BackoffEnds(m) PROVE Possession'
    BY <2>15, <1>w
  <2>16. ASSUME NEW m \in Messages, RequeueStalled(m) PROVE Possession'
    BY <2>16, <1>w
  <2>17. ASSUME NEW m \in Messages, FailStalled(m) PROVE Possession'
    BY <2>17, <1>w
  <2>18. ASSUME NEW m \in Messages, NEW k \in failures[m], OnFailed(m, k) PROVE Possession'
    BY <2>18 DEF OnFailed, Exhausted
  <2>19. ASSUME NEW m \in Messages, EvictJob(m) PROVE Possession'
    BY <2>19, <1>w
  <2>20. ASSUME NEW m \in Messages, RecoverMessage(m) PROVE Possession'
    <3>1. /\ \A e \in Deliveries : ~ Active(e)
          /\ message[m] # "absent"
      BY <2>20 DEF RecoverMessage
    <3>2. \/ UNCHANGED job
          \/ job[m] = "absent" /\ job' = [job EXCEPT ![m] = "waiting"]
      BY <2>20 DEF RecoverMessage, AddJob
    <3>3. /\ recovery' \subseteq recovery
          /\ UNCHANGED <<handler, pos, message, exec, server, aged>>
      BY <2>20 DEF RecoverMessage
    <3>8. exec[m] # "idle" => job[m] = "active"
      OBVIOUS
    <3>9. \A k \in Messages : job'[k] = job[k] \/ (k = m /\ job[m] = "absent" /\ job'[m] = "waiting")
      <4>1. job \in [Messages -> JobState]
        OBVIOUS
      <4>2. CASE UNCHANGED job
        BY <4>2
      <4>3. CASE job[m] = "absent" /\ job' = [job EXCEPT ![m] = "waiting"]
        BY <4>1, <4>3
      <4> QED
        BY <3>2, <4>2, <4>3
    <3>4. AttemptHoldsJob'
      BY <3>1, <3>3, <3>8, <3>9
    <3>5. OneHandlerStores'
      BY <3>3
    <3>6. \A e \in Deliveries : ~ Active(e)' /\ At(e)' = At(e) /\ (Storing(e)' <=> Storing(e))
      BY <3>1, <3>3
    <3> HIDE DEF Active, Storing, At
    <3>7. HandlerCustody'
      BY <3>3, <3>6
    <3> QED
      BY <3>4, <3>5, <3>7
  <2>21. ASSUME Boot PROVE Possession'
    BY <2>21 DEF Boot
  <2>22. ASSUME FindStuck PROVE Possession'
    BY <2>22 DEF FindStuck, Stuck
  <2>23. ASSUME Listen PROVE Possession'
    BY <2>23 DEF Listen
  <2>24. ASSUME Crash PROVE Possession'
    BY <2>24 DEF Crash, Die, Interrupted
  <2>25. ASSUME Shutdown PROVE Possession'
    BY <2>25 DEF Shutdown
  <2>26. ASSUME StopWorker PROVE Possession'
    BY <2>26 DEF StopWorker
  <2>27. ASSUME Exit PROVE Possession'
    BY <2>27 DEF Exit, Die, Interrupted
  <2>28. ASSUME ForcedExit PROVE Possession'
    BY <2>28 DEF ForcedExit, Die, Interrupted
  <2>29. ASSUME MinutePasses PROVE Possession'
    BY <2>29 DEF MinutePasses
  <2>30. ASSUME RedisFails PROVE Possession'
    BY <2>30 DEF RedisFails
  <2>31. ASSUME RedisReturns PROVE Possession'
    BY <2>31 DEF RedisReturns
  <2>32. CASE UNCHANGED vars
    BY <2>32 DEF vars
  <2> QED
    BY <2>1, <2>2, <2>3, <2>4, <2>5, <2>6, <2>7, <2>8, <2>9, <2>10, <2>11, <2>12, <2>13, <2>14, <2>15, <2>16, <2>17, <2>18, <2>19, <2>20, <2>21, <2>22, <2>23, <2>24, <2>25, <2>26, <2>27, <2>28, <2>29, <2>30, <2>31, <2>32
    DEF Next, HandlerStep, AttemptStep, QueueStep, Listener
<1> QED
  BY <1>1

(* What an attempt has done: the part of the invariant about effects. *)
Effects == AttemptCustody /\ EffectsInOrder /\ CompletedIsSettled

LEMMA EffectsStep ==
  ASSUME TypeOK, Possession, Effects, [Next]_vars
  PROVE  Effects'
<1>1. Effects'
  <2> USE DEF Effects, AttemptCustody, EffectsInOrder, CompletedIsSettled,
          webhookVars, documentVars, queueVars, workerVars, processVars, boundVars,
          TypeOK, DocumentTypeOK, QueueTypeOK, WorkerTypeOK
  <2>0. /\ \A d \in Deliveries : Active(d) => At(d) \in Messages
        /\ \A d \in Deliveries : Storing(d) /\ Active(d) => job[At(d)] = "absent"
        /\ AttemptHoldsJob
    BY AtIsMessage DEF Possession, HandlerCustody, Active, TypeOK
  <2>1. ASSUME NEW d \in Deliveries, HandlePost(d) PROVE Effects'
    BY <2>1 DEF HandlePost
  <2>2. ASSUME NEW d \in Deliveries, MessageExists(d) PROVE Effects'
    BY <2>2 DEF MessageExists, NextMessage
  <2>3. ASSUME NEW d \in Deliveries, CreateMessage(d) PROVE Effects'
    BY <2>3 DEF CreateMessage
  <2>4. ASSUME NEW d \in Deliveries, CreateWebhookLog(d) PROVE Effects'
    <3>1. At(d) \in Messages /\ job[At(d)] = "absent" /\ exec[At(d)] = "idle"
      BY <2>0, <2>4 DEF CreateWebhookLog, Active, Storing, AttemptHoldsJob
    <3>2. log' = [log EXCEPT ![At(d)] = "open"]
      BY <2>4 DEF CreateWebhookLog
    <3> QED
      BY <2>4, <3>1, <3>2 DEF CreateWebhookLog
  <2>5. ASSUME NEW d \in Deliveries, EnqueueMessage(d) PROVE Effects'
    <3>1. At(d) \in Messages /\ job[At(d)] = "absent" /\ exec[At(d)] = "idle"
      BY <2>0, <2>5 DEF EnqueueMessage, Active, Storing, AttemptHoldsJob
    <3>2. /\ job' = [job EXCEPT ![At(d)] = "waiting"]
          /\ linked' = [linked EXCEPT ![At(d)] = TRUE]
      BY <2>5, <3>1 DEF EnqueueMessage, AddJob
    <3> QED
      BY <2>5, <3>1, <3>2 DEF EnqueueMessage
  <2>6. ASSUME NEW d \in Deliveries, HandlerFault(d) PROVE Effects'
    BY <2>6 DEF HandlerFault, Interrupted
  <2>7. ASSUME NEW m \in Messages, StartJob(m) PROVE Effects'
    BY <2>7 DEF StartJob
  <2>8. ASSUME NEW m \in Messages, CreateParsedOrder(m) PROVE Effects'
    BY <2>8 DEF CreateParsedOrder
  <2>9. ASSUME NEW m \in Messages, RouteConversation(m) PROVE Effects'
    BY <2>9 DEF RouteConversation
  <2>10. ASSUME NEW m \in Messages, MarkProcessed(m) PROVE Effects'
    BY <2>10 DEF MarkProcessed, AfterMark
  <2>11. ASSUME NEW m \in Messages, ResolveLog(m) PROVE Effects'
    BY <2>11 DEF ResolveLog
  <2>12. ASSUME NEW m \in Messages, CompleteJob(m) PROVE Effects'
    BY <2>12 DEF CompleteJob
  <2>13. ASSUME NEW m \in Messages, FailJob(m) PROVE Effects'
    BY <2>13 DEF FailJob
  <2>14. ASSUME NEW m \in Messages, Throw(m) PROVE Effects'
    BY <2>14 DEF Throw
  <2>15. ASSUME NEW m \in Messages, BackoffEnds(m) PROVE Effects'
    BY <2>15 DEF BackoffEnds
  <2>16. ASSUME NEW m \in Messages, RequeueStalled(m) PROVE Effects'
    BY <2>16 DEF RequeueStalled
  <2>17. ASSUME NEW m \in Messages, FailStalled(m) PROVE Effects'
    BY <2>17 DEF FailStalled
  <2>18. ASSUME NEW m \in Messages, NEW k \in failures[m], OnFailed(m, k) PROVE Effects'
    BY <2>18 DEF OnFailed, Exhausted
  <2>19. ASSUME NEW m \in Messages, EvictJob(m) PROVE Effects'
    BY <2>19 DEF EvictJob
  <2>20. ASSUME NEW m \in Messages, RecoverMessage(m) PROVE Effects'
    <3>1. CASE UNCHANGED queueVars
      BY <2>20, <3>1 DEF RecoverMessage
    <3>2. CASE /\ job[m] = "absent"
               /\ job' = [job EXCEPT ![m] = "waiting"]
               /\ linked' = [linked EXCEPT ![m] = log[m] = "open"]
      <4>1. exec[m] = "idle"
        BY <2>0, <3>2 DEF AttemptHoldsJob
      <4> QED
        BY <2>20, <3>2, <4>1 DEF RecoverMessage
    <3> QED
      BY <2>20, <3>1, <3>2 DEF RecoverMessage, AddJob
  <2>21. ASSUME Boot PROVE Effects'
    BY <2>21 DEF Boot
  <2>22. ASSUME FindStuck PROVE Effects'
    BY <2>22 DEF FindStuck, Stuck
  <2>23. ASSUME Listen PROVE Effects'
    BY <2>23 DEF Listen
  <2>24. ASSUME Crash PROVE Effects'
    BY <2>24 DEF Crash, Die, Interrupted
  <2>25. ASSUME Shutdown PROVE Effects'
    BY <2>25 DEF Shutdown
  <2>26. ASSUME StopWorker PROVE Effects'
    BY <2>26 DEF StopWorker
  <2>27. ASSUME Exit PROVE Effects'
    BY <2>27 DEF Exit, Die, Interrupted
  <2>28. ASSUME ForcedExit PROVE Effects'
    BY <2>28 DEF ForcedExit, Die, Interrupted
  <2>29. ASSUME MinutePasses PROVE Effects'
    BY <2>29 DEF MinutePasses
  <2>30. ASSUME RedisFails PROVE Effects'
    BY <2>30 DEF RedisFails
  <2>31. ASSUME RedisReturns PROVE Effects'
    BY <2>31 DEF RedisReturns
  <2>32. CASE UNCHANGED vars
    BY <2>32 DEF vars
  <2> QED
    BY <2>1, <2>2, <2>3, <2>4, <2>5, <2>6, <2>7, <2>8, <2>9, <2>10, <2>11, <2>12, <2>13, <2>14, <2>15, <2>16, <2>17, <2>18, <2>19, <2>20, <2>21, <2>22, <2>23, <2>24, <2>25, <2>26, <2>27, <2>28, <2>29, <2>30, <2>31, <2>32
    DEF Next, HandlerStep, AttemptStep, QueueStep, Listener
<1> QED
  BY <1>1

(* A step that keeps every storing handler where it is, the documents and  *)
(* the queue leaves every stranded message explained.                      *)
LEMMA KeepsExplained ==
  ASSUME StrandedIsExplained, UNCHANGED <<message, job, evicted>>,
         \A e \in Deliveries : Storing(e) => Storing(e)' /\ At(e)' = At(e)
  PROVE  StrandedIsExplained'
BY DEF StrandedIsExplained, Unprocessed

LEMMA StrandedStep ==
  ASSUME TypeOK, Possession, StrandedIsExplained, [Next]_vars
  PROVE  StrandedIsExplained'
<1>1. StrandedIsExplained'
  <2> USE DEF StrandedIsExplained, Unprocessed, Storing, At,
          webhookVars, documentVars, queueVars, workerVars, processVars, boundVars,
          TypeOK, WebhookTypeOK, DocumentTypeOK, QueueTypeOK
  <2>1. ASSUME NEW d \in Deliveries, HandlePost(d) PROVE StrandedIsExplained'
    BY <2>1 DEF HandlePost
  <2>2. ASSUME NEW d \in Deliveries, MessageExists(d) PROVE StrandedIsExplained'
    <3>1. /\ handler' \in {[handler EXCEPT ![d] = s] : s \in {"look", "create", "done"}}
          /\ \A e \in Deliveries : e # d => pos'[e] = pos[e]
      BY <2>2 DEF MessageExists, NextMessage
    <3>2. \A e \in Deliveries : Storing(e) => Storing(e)' /\ At(e)' = At(e)
      BY <2>2, <3>1 DEF MessageExists
    <3> QED
      BY <2>2, <3>2, KeepsExplained DEF MessageExists
  <2>3. ASSUME NEW d \in Deliveries, CreateMessage(d) PROVE StrandedIsExplained'
    <3>1. CASE message[At(d)] = "absent"
      <4>1. At(d) \in Messages
        BY <2>3, AtIsMessage DEF CreateMessage
      <4>2. /\ message' = [message EXCEPT ![At(d)] = "unprocessed"]
            /\ handler' = [handler EXCEPT ![d] = "log"]
            /\ UNCHANGED <<pos, job, evicted>>
        BY <2>3, <3>1 DEF CreateMessage
      <4> QED
        BY <4>1, <4>2
    <3>2. CASE message[At(d)] # "absent"
      <4>1. /\ handler[d] = "create"
            /\ handler' = [handler EXCEPT ![d] = "aborted"]
            /\ UNCHANGED <<pos, message, job, evicted>>
        BY <2>3, <3>2 DEF CreateMessage
      <4> QED
        BY <4>1
    <3> QED
      BY <3>1, <3>2
  <2>4. ASSUME NEW d \in Deliveries, CreateWebhookLog(d) PROVE StrandedIsExplained'
    BY <2>4 DEF CreateWebhookLog
  <2>5. ASSUME NEW d \in Deliveries, EnqueueMessage(d) PROVE StrandedIsExplained'
    <3>1. /\ handler' \in {[handler EXCEPT ![d] = s] : s \in {"look", "done"}}
          /\ \A e \in Deliveries : e # d => pos'[e] = pos[e]
      BY <2>5 DEF EnqueueMessage, NextMessage
    <3>2. At(d) \in Messages /\ job[At(d)] = "absent"
      BY <2>5, AtIsMessage DEF EnqueueMessage, Possession, HandlerCustody, Active
    <3>3. job' = [job EXCEPT ![At(d)] = "waiting"]
      BY <2>5, <3>2 DEF EnqueueMessage, AddJob
    <3>4. UNCHANGED <<message, evicted>>
      BY <2>5, <3>2 DEF EnqueueMessage, AddJob
    <3>5. \A e \in Deliveries : Storing(e) /\ e # d => Storing(e)' /\ At(e)' = At(e)
      BY <3>1
    <3> HIDE DEF Storing, At
    <3> QED
      BY <3>2, <3>3, <3>4, <3>5
  <2>6. ASSUME NEW d \in Deliveries, HandlerFault(d) PROVE StrandedIsExplained'
    <3>1. \A e \in Deliveries : Storing(e) => Storing(e)' /\ At(e)' = At(e)
      BY <2>6 DEF HandlerFault, Interrupted, Active
    <3> QED
      BY <2>6, <3>1, KeepsExplained DEF HandlerFault
  <2>7. ASSUME NEW m \in Messages, StartJob(m) PROVE StrandedIsExplained'
    BY <2>7 DEF StartJob
  <2>8. ASSUME NEW m \in Messages, CreateParsedOrder(m) PROVE StrandedIsExplained'
    BY <2>8 DEF CreateParsedOrder
  <2>9. ASSUME NEW m \in Messages, RouteConversation(m) PROVE StrandedIsExplained'
    BY <2>9 DEF RouteConversation
  <2>10. ASSUME NEW m \in Messages, MarkProcessed(m) PROVE StrandedIsExplained'
    BY <2>10 DEF MarkProcessed, AfterMark
  <2>11. ASSUME NEW m \in Messages, ResolveLog(m) PROVE StrandedIsExplained'
    BY <2>11 DEF ResolveLog
  <2>12. ASSUME NEW m \in Messages, CompleteJob(m) PROVE StrandedIsExplained'
    BY <2>12 DEF CompleteJob
  <2>13. ASSUME NEW m \in Messages, FailJob(m) PROVE StrandedIsExplained'
    BY <2>13 DEF FailJob
  <2>14. ASSUME NEW m \in Messages, Throw(m) PROVE StrandedIsExplained'
    BY <2>14 DEF Throw
  <2>15. ASSUME NEW m \in Messages, BackoffEnds(m) PROVE StrandedIsExplained'
    BY <2>15 DEF BackoffEnds
  <2>16. ASSUME NEW m \in Messages, RequeueStalled(m) PROVE StrandedIsExplained'
    BY <2>16 DEF RequeueStalled
  <2>17. ASSUME NEW m \in Messages, FailStalled(m) PROVE StrandedIsExplained'
    BY <2>17 DEF FailStalled
  <2>18. ASSUME NEW m \in Messages, NEW k \in failures[m], OnFailed(m, k) PROVE StrandedIsExplained'
    BY <2>18 DEF OnFailed, Exhausted
  <2>19. ASSUME NEW m \in Messages, EvictJob(m) PROVE StrandedIsExplained'
    BY <2>19 DEF EvictJob
  <2>20. ASSUME NEW m \in Messages, RecoverMessage(m) PROVE StrandedIsExplained'
    BY <2>20 DEF RecoverMessage, AddJob
  <2>21. ASSUME Boot PROVE StrandedIsExplained'
    BY <2>21 DEF Boot
  <2>22. ASSUME FindStuck PROVE StrandedIsExplained'
    BY <2>22 DEF FindStuck, Stuck
  <2>23. ASSUME Listen PROVE StrandedIsExplained'
    BY <2>23 DEF Listen
  <2>24. ASSUME Crash PROVE StrandedIsExplained'
    <3>1. \A e \in Deliveries : Storing(e) => Storing(e)' /\ At(e)' = At(e)
      BY <2>24 DEF Crash, Die, Active, Interrupted
    <3> QED
      BY <2>24, <3>1, KeepsExplained DEF Crash, Die
  <2>25. ASSUME Shutdown PROVE StrandedIsExplained'
    BY <2>25 DEF Shutdown
  <2>26. ASSUME StopWorker PROVE StrandedIsExplained'
    BY <2>26 DEF StopWorker
  <2>27. ASSUME Exit PROVE StrandedIsExplained'
    <3>1. \A e \in Deliveries : Storing(e) => Storing(e)' /\ At(e)' = At(e)
      BY <2>27 DEF Exit, Die, Active, Interrupted
    <3> QED
      BY <2>27, <3>1, KeepsExplained DEF Exit, Die
  <2>28. ASSUME ForcedExit PROVE StrandedIsExplained'
    <3>1. \A e \in Deliveries : Storing(e) => Storing(e)' /\ At(e)' = At(e)
      BY <2>28 DEF ForcedExit, Die, Active, Interrupted
    <3> QED
      BY <2>28, <3>1, KeepsExplained DEF ForcedExit, Die
  <2>29. ASSUME MinutePasses PROVE StrandedIsExplained'
    BY <2>29 DEF MinutePasses
  <2>30. ASSUME RedisFails PROVE StrandedIsExplained'
    BY <2>30 DEF RedisFails
  <2>31. ASSUME RedisReturns PROVE StrandedIsExplained'
    BY <2>31 DEF RedisReturns
  <2>32. CASE UNCHANGED vars
    BY <2>32 DEF vars
  <2> QED
    BY <2>1, <2>2, <2>3, <2>4, <2>5, <2>6, <2>7, <2>8, <2>9, <2>10, <2>11, <2>12, <2>13, <2>14, <2>15, <2>16, <2>17, <2>18, <2>19, <2>20, <2>21, <2>22, <2>23, <2>24, <2>25, <2>26, <2>27, <2>28, <2>29, <2>30, <2>31, <2>32
    DEF Next, HandlerStep, AttemptStep, QueueStep, Listener
<1> QED
  BY <1>1

(* The inductive invariant. *)
IInv == TypeOK /\ Possession /\ Effects /\ StrandedIsExplained

(* Every reachable state satisfies it: handlers, the scan and the attempts *)
(* each hold only what is theirs, whatever crashes, fails or is repeated.  *)
THEOREM Invariance == Spec => []IInv
<1>1. Init => IInv
  <2> SUFFICES ASSUME Init PROVE IInv
    OBVIOUS
  <2>1. TypeOK
    BY PipelineAssumption
    DEF Init, TypeOK, WebhookTypeOK, DocumentTypeOK, QueueTypeOK, WorkerTypeOK,
        ProcessTypeOK, HandlerState, JobState, ExecState, ServerState
  <2>2. Possession
    BY DEF Init, Possession, HandlerCustody, AttemptHoldsJob, OneHandlerStores,
           Active, Storing
  <2>3. Effects
    BY DEF Init, Effects, AttemptCustody, EffectsInOrder, CompletedIsSettled
  <2>4. StrandedIsExplained
    BY DEF Init, StrandedIsExplained, Unprocessed
  <2> QED
    BY <2>1, <2>2, <2>3, <2>4 DEF IInv
<1>2. TypeOK /\ TypeOK' /\ IInv /\ [Next]_vars => IInv'
  BY PossessionStep, EffectsStep, StrandedStep DEF IInv
<1> QED
  BY <1>1, <1>2, TypeCorrect, PTL DEF Spec

(* No stored message is left without a job, except by a handler that has   *)
(* not reached the enqueue or died before it, or after the queue dropped   *)
(* its finished job.                                                       *)
THEOREM NothingStranded == Spec => []StrandedIsExplained
<1>1. IInv => StrandedIsExplained
  BY DEF IInv
<1> QED
  BY <1>1, Invariance, PTL

(* A completed job has marked its message and resolved its log. *)
THEOREM CompletionSettles == Spec => []CompletedIsSettled
<1>1. IInv => CompletedIsSettled
  BY DEF IInv, Effects
<1> QED
  BY <1>1, Invariance, PTL

(* Parses are saved before the conversation, the conversation handles a    *)
(* message before it is marked, and it is marked before its log is closed. *)
THEOREM EffectsOrdered == Spec => []EffectsInOrder
<1>1. IInv => EffectsInOrder
  BY DEF IInv, Effects
<1> QED
  BY <1>1, Invariance, PTL

(* One delivery stores a message; the others never get past the create.    *)
THEOREM DuplicatesStopAtCreate == Spec => []OneHandlerStores
<1>1. IInv => OneHandlerStores
  BY DEF IInv, Possession
<1> QED
  BY <1>1, Invariance, PTL

(* An attempt runs on an active job of a stored message in a live process. *)
THEOREM AttemptsHoldJobs == Spec => []AttemptHoldsJob
<1>1. IInv => AttemptHoldsJob
  BY DEF IInv, Possession
<1> QED
  BY <1>1, Invariance, PTL

----------------------------------------------------------------------------
(* Refinement: what each step is to the ledger. *)
LedgerStep == [Ledger!Next]_<<phase, handled>>

(* A step on no Message and no job, and no conversation, is no ledger step. *)
LEMMA QuietStep ==
  ASSUME UNCHANGED <<message, job, routed>>
  PROVE  LedgerStep
BY DEF LedgerStep, phase, handled

(* A step on the document and the job of one message moves its phase only. *)
LEMMA OnePhaseMoves ==
  ASSUME NEW m \in Messages, UNCHANGED routed,
         \A n \in Messages \ {m} : message'[n] = message[n] /\ job'[n] = job[n]
  PROVE  /\ UNCHANGED handled
         /\ phase'[m] = phase[m] => UNCHANGED phase
         /\ \A s \in Ledger!Phase : phase'[m] = s => phase' = [phase EXCEPT ![m] = s]
BY DEF phase, handled

(* A job added for a stored message queues it, unless it is processed.     *)
LEMMA JobIsAdded ==
  ASSUME TypeOK, NEW m \in Messages, job[m] = "absent", message[m] # "absent",
         job' = [job EXCEPT ![m] = "waiting"], UNCHANGED <<message, routed>>
  PROVE  LedgerStep
<1>1. message[m] \in {"unprocessed", "processed"} /\ job'[m] = "waiting"
  BY DEF TypeOK, DocumentTypeOK, QueueTypeOK
<1>2. phase[m] = PhaseOf(message[m], "absent") /\ phase'[m] = PhaseOf(message[m], "waiting")
  BY <1>1 DEF phase
<1>3. \/ phase'[m] = phase[m]
      \/ phase[m] = "stored" /\ phase'[m] = "queued"
  BY <1>1, <1>2 DEF phase, PhaseOf
<1> QED
  BY <1>3, OnePhaseMoves DEF LedgerStep, Ledger!Next, Ledger!Queue, Ledger!Move, Ledger!Phase

LEMMA StepIsLedgerStep ==
  ASSUME IInv, [Next]_vars
  PROVE  LedgerStep
<1>1. LedgerStep
  <2> USE DEF IInv, Possession, Effects, TypeOK, DocumentTypeOK, QueueTypeOK, webhookVars,
          documentVars, queueVars, LedgerStep, Ledger!Next, Ledger!Phase
  <2>1. ASSUME NEW d \in Deliveries, HandlePost(d) PROVE LedgerStep
    BY <2>1, QuietStep DEF HandlePost
  <2>2. ASSUME NEW d \in Deliveries, MessageExists(d) PROVE LedgerStep
    BY <2>2, QuietStep DEF MessageExists
  <2>3. ASSUME NEW d \in Deliveries, CreateMessage(d) PROVE LedgerStep
    <3>1. CASE message[At(d)] = "absent"
      <4>1. At(d) \in Messages /\ job[At(d)] = "absent"
        BY <2>3, <3>1, AtIsMessage DEF CreateMessage, AttemptHoldsJob
      <4>2. /\ message' = [message EXCEPT ![At(d)] = "unprocessed"]
            /\ UNCHANGED <<job, routed>>
        BY <2>3, <3>1 DEF CreateMessage
      <4>3. phase[At(d)] = "unseen" /\ phase'[At(d)] = "stored"
        BY <3>1, <4>1, <4>2 DEF phase, PhaseOf
      <4> QED
        BY <4>1, <4>2, <4>3, OnePhaseMoves DEF Ledger!Store, Ledger!Move
    <3>2. CASE message[At(d)] # "absent"
      BY <2>3, <3>2, QuietStep DEF CreateMessage
    <3> QED
      BY <3>1, <3>2
  <2>4. ASSUME NEW d \in Deliveries, CreateWebhookLog(d) PROVE LedgerStep
    BY <2>4, QuietStep DEF CreateWebhookLog
  <2>5. ASSUME NEW d \in Deliveries, EnqueueMessage(d) PROVE LedgerStep
    <3>1. /\ At(d) \in Messages
          /\ job[At(d)] = "absent"
          /\ message[At(d)] # "absent"
      BY <2>5, AtIsMessage DEF EnqueueMessage, HandlerCustody, Active, Storing
    <3>2. job' = [job EXCEPT ![At(d)] = "waiting"] /\ UNCHANGED <<message, routed>>
      BY <2>5, <3>1 DEF EnqueueMessage, AddJob
    <3> QED
      BY <3>1, <3>2, JobIsAdded
  <2>6. ASSUME NEW d \in Deliveries, HandlerFault(d) PROVE LedgerStep
    BY <2>6, QuietStep DEF HandlerFault
  <2>7. ASSUME NEW m \in Messages, StartJob(m) PROVE LedgerStep
    <3>1. /\ job[m] = "waiting" /\ job' = [job EXCEPT ![m] = "active"]
          /\ UNCHANGED <<message, routed>>
      BY <2>7 DEF StartJob
    <3>2. phase'[m] = phase[m]
      BY <3>1 DEF phase, PhaseOf
    <3> QED
      BY <3>1, <3>2, OnePhaseMoves
  <2>8. ASSUME NEW m \in Messages, CreateParsedOrder(m) PROVE LedgerStep
    BY <2>8, QuietStep DEF CreateParsedOrder
  <2>9. ASSUME NEW m \in Messages, RouteConversation(m) PROVE LedgerStep
    <3>1. /\ routed' = [routed EXCEPT ![m] = @ + 1]
          /\ job[m] = "active" /\ message[m] # "absent"
          /\ UNCHANGED <<message, job>>
      BY <2>9 DEF RouteConversation, AttemptHoldsJob
    <3>2. handled' = handled \cup {m} /\ UNCHANGED phase
      BY <3>1 DEF phase, handled
    <3>3. CASE message[m] = "processed"
      <4>1. m \in handled
        BY <3>3 DEF handled, EffectsInOrder
      <4> QED
        BY <3>2, <4>1
    <3>4. CASE message[m] = "unprocessed"
      <4>1. phase[m] = "queued"
        BY <3>1, <3>4 DEF phase, PhaseOf
      <4> QED
        BY <3>2, <4>1 DEF Ledger!Handle
    <3> QED
      BY <3>1, <3>3, <3>4
  <2>10. ASSUME NEW m \in Messages, MarkProcessed(m) PROVE LedgerStep
    <3>1. /\ message' = [message EXCEPT ![m] = "processed"]
          /\ job[m] = "active" /\ message[m] # "absent" /\ routed[m] > 0
          /\ UNCHANGED <<job, routed>>
      BY <2>10 DEF MarkProcessed, AttemptHoldsJob, AttemptCustody
    <3>2. /\ m \in handled
          /\ phase'[m] = "processed"
          /\ phase[m] \in {"queued", "processed"}
      BY <3>1 DEF handled, phase, PhaseOf
    <3> QED
      BY <3>1, <3>2, OnePhaseMoves DEF Ledger!Process, Ledger!Move
  <2>11. ASSUME NEW m \in Messages, ResolveLog(m) PROVE LedgerStep
    BY <2>11, QuietStep DEF ResolveLog
  <2>12. ASSUME NEW m \in Messages, CompleteJob(m) PROVE LedgerStep
    <3>1. /\ job' = [job EXCEPT ![m] = "completed"]
          /\ message[m] = "processed"
          /\ UNCHANGED <<message, routed>>
      BY <2>12 DEF CompleteJob, AttemptCustody
    <3>2. phase'[m] = phase[m]
      BY <3>1 DEF phase, PhaseOf
    <3> QED
      BY <3>1, <3>2, OnePhaseMoves
  <2>13. ASSUME NEW m \in Messages, FailJob(m) PROVE LedgerStep
    <3>1. /\ job[m] = "active" /\ message[m] # "absent"
          /\ job' \in {[job EXCEPT ![m] = s] : s \in {"delayed", "failed"}}
          /\ UNCHANGED <<message, routed>>
      BY <2>13 DEF FailJob, AttemptHoldsJob
    <3>2. \/ phase'[m] = phase[m]
          \/ phase[m] = "queued" /\ phase'[m] = "abandoned"
      BY <3>1 DEF phase, PhaseOf
    <3> QED
      BY <3>1, <3>2, OnePhaseMoves DEF Ledger!Abandon, Ledger!Move
  <2>14. ASSUME NEW m \in Messages, Throw(m) PROVE LedgerStep
    BY <2>14, QuietStep DEF Throw
  <2>15. ASSUME NEW m \in Messages, BackoffEnds(m) PROVE LedgerStep
    <3>1. /\ job[m] = "delayed" /\ job' = [job EXCEPT ![m] = "waiting"]
          /\ UNCHANGED <<message, routed>>
      BY <2>15 DEF BackoffEnds
    <3>2. phase'[m] = phase[m]
      BY <3>1 DEF phase, PhaseOf
    <3> QED
      BY <3>1, <3>2, OnePhaseMoves
  <2>16. ASSUME NEW m \in Messages, RequeueStalled(m) PROVE LedgerStep
    <3>1. /\ job[m] = "active" /\ job' = [job EXCEPT ![m] = "waiting"]
          /\ UNCHANGED <<message, routed>>
      BY <2>16 DEF RequeueStalled
    <3>2. phase'[m] = phase[m]
      BY <3>1 DEF phase, PhaseOf
    <3> QED
      BY <3>1, <3>2, OnePhaseMoves
  <2>17. ASSUME NEW m \in Messages, FailStalled(m) PROVE LedgerStep
    <3>1. /\ job[m] = "waiting" /\ message[m] # "absent"
          /\ job' \in {[job EXCEPT ![m] = s] : s \in {"failed"}}
          /\ UNCHANGED <<message, routed>>
      BY <2>17 DEF FailStalled, AttemptHoldsJob
    <3>2. \/ phase'[m] = phase[m]
          \/ phase[m] = "queued" /\ phase'[m] = "abandoned"
      BY <3>1 DEF phase, PhaseOf
    <3> QED
      BY <3>1, <3>2, OnePhaseMoves DEF Ledger!Abandon, Ledger!Move
  <2>18. ASSUME NEW m \in Messages, NEW k \in failures[m], OnFailed(m, k) PROVE LedgerStep
    BY <2>18, QuietStep DEF OnFailed
  <2>19. ASSUME NEW m \in Messages, EvictJob(m) PROVE LedgerStep
    <3>1. /\ job[m] \in {"completed", "failed"} /\ message[m] # "absent"
          /\ job' = [job EXCEPT ![m] = "absent"]
          /\ UNCHANGED <<message, routed>>
      BY <2>19 DEF EvictJob, AttemptHoldsJob
    <3>2. \/ phase'[m] = phase[m]
          \/ phase[m] = "abandoned" /\ phase'[m] = "stored"
      BY <3>1 DEF phase, PhaseOf, CompletedIsSettled
    <3> QED
      BY <3>1, <3>2, OnePhaseMoves DEF Ledger!Forget, Ledger!Move
  <2>20. ASSUME NEW m \in Messages, RecoverMessage(m) PROVE LedgerStep
    <3>1. UNCHANGED <<message, routed>> /\ message[m] # "absent"
      BY <2>20 DEF RecoverMessage, HandlerCustody
    <3>2. CASE UNCHANGED queueVars
      BY <3>1, <3>2, QuietStep
    <3>3. CASE job[m] = "absent" /\ job' = [job EXCEPT ![m] = "waiting"]
      BY <3>1, <3>3, JobIsAdded
    <3> QED
      BY <2>20, <3>2, <3>3 DEF RecoverMessage, AddJob
  <2>21. ASSUME Boot PROVE LedgerStep
    BY <2>21, QuietStep DEF Boot
  <2>22. ASSUME FindStuck PROVE LedgerStep
    BY <2>22, QuietStep DEF FindStuck
  <2>23. ASSUME Listen PROVE LedgerStep
    BY <2>23, QuietStep DEF Listen
  <2>24. ASSUME Crash PROVE LedgerStep
    BY <2>24, QuietStep DEF Crash, Die
  <2>25. ASSUME Shutdown PROVE LedgerStep
    BY <2>25, QuietStep DEF Shutdown
  <2>26. ASSUME StopWorker PROVE LedgerStep
    BY <2>26, QuietStep DEF StopWorker
  <2>27. ASSUME Exit PROVE LedgerStep
    BY <2>27, QuietStep DEF Exit, Die
  <2>28. ASSUME ForcedExit PROVE LedgerStep
    BY <2>28, QuietStep DEF ForcedExit, Die
  <2>29. ASSUME MinutePasses PROVE LedgerStep
    BY <2>29, QuietStep DEF MinutePasses
  <2>30. ASSUME RedisFails PROVE LedgerStep
    BY <2>30, QuietStep DEF RedisFails
  <2>31. ASSUME RedisReturns PROVE LedgerStep
    BY <2>31, QuietStep DEF RedisReturns
  <2>32. CASE UNCHANGED vars
    BY <2>32, QuietStep DEF vars
  <2> QED
    BY <2>1, <2>2, <2>3, <2>4, <2>5, <2>6, <2>7, <2>8, <2>9, <2>10, <2>11, <2>12, <2>13, <2>14, <2>15, <2>16, <2>17, <2>18, <2>19, <2>20, <2>21, <2>22, <2>23, <2>24, <2>25, <2>26, <2>27, <2>28, <2>29, <2>30, <2>31, <2>32
    DEF Next, HandlerStep, AttemptStep, QueueStep, Listener
<1> QED
  BY <1>1

(* The pipeline implements the ledger: a message is stored once, queued,   *)
(* handled before it is processed, and stays processed.                    *)
THEOREM Refinement == Spec => ImplementsLedger
<1>1. Init => Ledger!Init
  BY DEF Init, Ledger!Init, phase, handled, PhaseOf
<1>2. IInv /\ [Next]_vars => [Ledger!Next]_Ledger!ledger
  BY StepIsLedgerStep DEF LedgerStep, Ledger!ledger
<1> QED
  BY <1>1, <1>2, Invariance, PTL DEF Spec, ImplementsLedger, Ledger!Safe

----------------------------------------------------------------------------
(* The budget of a job: how many parses it, and the jobs of its message    *)
(* before it, have made, by the state it is in.                            *)
Budget == MaxAttempts + MaxStalled

BudgetOK(j, pc, parses, past, failed, stalled) ==
  /\ j = "absent" => parses <= past
  /\ j \in {"waiting", "active", "delayed"} => failed < MaxAttempts
  /\ j \in {"active", "delayed"} => stalled <= MaxStalled
  /\ j = "waiting" => stalled <= MaxStalled + 1
  /\ j \in {"waiting", "delayed"} => parses <= past + failed + stalled
  /\ j = "active" => parses <= past + failed + stalled + 1
  /\ j = "active" /\ pc = "parse" => parses <= past + failed + stalled
  /\ j \in {"completed", "failed"} => parses <= past + Budget

WithinBudget ==
  \A m \in Messages :
    BudgetOK(job[m], exec[m], parsed[m], evicted[m] * Budget, made[m], stalls[m])

LEMMA QuietBudget ==
  ASSUME WithinBudget, UNCHANGED <<job, made, stalls, evicted, parsed, exec>>
  PROVE  WithinBudget'
BY DEF WithinBudget

LEMMA OneJobMoves ==
  ASSUME WithinBudget, NEW m \in Messages,
         \A k \in Messages \ {m} :
           /\ job'[k] = job[k] /\ exec'[k] = exec[k] /\ parsed'[k] = parsed[k]
           /\ evicted'[k] = evicted[k] /\ made'[k] = made[k] /\ stalls'[k] = stalls[k],
         BudgetOK(job'[m], exec'[m], parsed'[m], evicted'[m] * Budget, made'[m], stalls'[m])
  PROVE  WithinBudget'
BY DEF WithinBudget

(* A death of the process takes the place of an attempt, never its count.  *)
LEMMA DeathKeepsBudget ==
  ASSUME WithinBudget, UNCHANGED <<job, made, stalls, evicted, parsed>>,
         exec' = [m \in Messages |-> "idle"]
  PROVE  WithinBudget'
<1> SUFFICES ASSUME NEW m \in Messages
             PROVE  BudgetOK(job[m], "idle", parsed[m], evicted[m] * Budget, made[m], stalls[m])
  BY DEF WithinBudget
<1> DEFINE past == evicted[m] * Budget
<1>1. BudgetOK(job[m], exec[m], parsed[m], past, made[m], stalls[m])
  BY DEF WithinBudget
<1> HIDE DEF past
<1>2. BudgetOK(job[m], "idle", parsed[m], past, made[m], stalls[m])
  BY <1>1 DEF BudgetOK
<1> QED
  BY <1>2 DEF past

(* A new job starts with a new budget, and only where there was none.      *)
LEMMA AddKeepsBudget ==
  ASSUME PipelineAssumption, WithinBudget, NEW m \in Messages, NEW withLog,
         job \in [Messages -> JobState], made \in [Messages -> Nat],
         stalls \in [Messages -> Nat], parsed[m] \in Nat, evicted[m] * Budget \in Nat,
         AddJob(m, withLog), UNCHANGED <<exec, parsed>>
  PROVE  WithinBudget'
<1> DEFINE past == evicted[m] * Budget
<1>1. CASE UNCHANGED queueVars
  BY <1>1, QuietBudget DEF queueVars
<1>2. CASE job[m] = "absent"
  <2>1. BudgetOK(job[m], exec[m], parsed[m], past, made[m], stalls[m]) /\ past \in Nat
    BY DEF WithinBudget
  <2> HIDE DEF past
  <2>2. BudgetOK("waiting", exec[m], parsed[m], past, 0, 0)
    BY <1>2, <2>1, PipelineAssumption DEF BudgetOK
  <2>3. /\ job' = [job EXCEPT ![m] = "waiting"] /\ made' = [made EXCEPT ![m] = 0]
        /\ stalls' = [stalls EXCEPT ![m] = 0] /\ UNCHANGED evicted
    BY <1>2 DEF AddJob
  <2> QED
    BY <2>2, <2>3, OneJobMoves DEF past
<1> QED
  BY <1>1, <1>2 DEF AddJob

(* The arithmetic of a job's moves.                                        *)
LEMMA BudgetMoves ==
  ASSUME PipelineAssumption, NEW parses \in Nat, NEW past \in Nat, NEW made1 \in Nat,
         NEW stalls1 \in Nat, NEW pc
  PROVE  /\ BudgetOK("waiting", pc, parses, past, made1, stalls1) /\ stalls1 <= MaxStalled =>
              BudgetOK("active", "parse", parses, past, made1, stalls1)
         /\ BudgetOK("waiting", pc, parses, past, made1, stalls1) /\ stalls1 > MaxStalled =>
              BudgetOK("failed", pc, parses, past, made1 + 1, stalls1)
         /\ BudgetOK("active", "parse", parses, past, made1, stalls1) =>
              BudgetOK("active", "route", parses + 1, past, made1, stalls1)
         /\ BudgetOK("active", pc, parses, past, made1, stalls1) =>
              /\ BudgetOK("waiting", pc, parses, past, made1, stalls1 + 1)
              /\ made1 + 1 < MaxAttempts => BudgetOK("delayed", "idle", parses, past, made1 + 1, stalls1)
              /\ ~ made1 + 1 < MaxAttempts => BudgetOK("failed", "idle", parses, past, made1 + 1, stalls1)
<1>1. MaxAttempts \in Nat /\ MaxStalled \in Nat /\ Budget = MaxAttempts + MaxStalled
  BY PipelineAssumption DEF Budget
<1>2. BudgetOK("waiting", pc, parses, past, made1, stalls1) /\ stalls1 <= MaxStalled =>
        BudgetOK("active", "parse", parses, past, made1, stalls1)
  BY <1>1 DEF BudgetOK
<1>3. BudgetOK("waiting", pc, parses, past, made1, stalls1) /\ stalls1 > MaxStalled =>
        BudgetOK("failed", pc, parses, past, made1 + 1, stalls1)
  BY <1>1 DEF BudgetOK
<1>4. BudgetOK("active", "parse", parses, past, made1, stalls1) =>
        BudgetOK("active", "route", parses + 1, past, made1, stalls1)
  BY <1>1 DEF BudgetOK
<1>5. BudgetOK("active", pc, parses, past, made1, stalls1) =>
        BudgetOK("waiting", pc, parses, past, made1, stalls1 + 1)
  BY <1>1 DEF BudgetOK
<1>6. BudgetOK("active", pc, parses, past, made1, stalls1) /\ made1 + 1 < MaxAttempts =>
        BudgetOK("delayed", "idle", parses, past, made1 + 1, stalls1)
  BY <1>1 DEF BudgetOK
<1>7. BudgetOK("active", pc, parses, past, made1, stalls1) /\ ~ made1 + 1 < MaxAttempts =>
        BudgetOK("failed", "idle", parses, past, made1 + 1, stalls1)
  BY <1>1 DEF BudgetOK
<1> QED
  BY <1>2, <1>3, <1>4, <1>5, <1>6, <1>7

LEMMA BudgetStep ==
  ASSUME TypeOK, Possession, WithinBudget, [Next]_vars
  PROVE  WithinBudget'
<1>1. WithinBudget'
  <2> USE PipelineAssumption DEF documentVars, queueVars, workerVars
  <2>0. /\ job \in [Messages -> JobState]
        /\ exec \in [Messages -> ExecState]
        /\ {parsed, made, stalls, evicted} \subseteq [Messages -> Nat]
        /\ Budget \in Nat /\ Budget = MaxAttempts + MaxStalled
        /\ \A m \in Messages : parsed[m] \in Nat /\ evicted[m] * Budget \in Nat
        /\ \A m \in Messages : exec[m] # "idle" => job[m] = "active"
    BY DEF TypeOK, DocumentTypeOK, QueueTypeOK, WorkerTypeOK, Budget, Possession,
           AttemptHoldsJob
  <2>1. ASSUME NEW d \in Deliveries, HandlePost(d) PROVE WithinBudget'
    BY <2>1, QuietBudget DEF HandlePost, queueVars
  <2>2. ASSUME NEW d \in Deliveries, MessageExists(d) PROVE WithinBudget'
    BY <2>2, QuietBudget DEF MessageExists, queueVars
  <2>3. ASSUME NEW d \in Deliveries, CreateMessage(d) PROVE WithinBudget'
    BY <2>3, QuietBudget DEF CreateMessage, queueVars
  <2>4. ASSUME NEW d \in Deliveries, CreateWebhookLog(d) PROVE WithinBudget'
    BY <2>4, QuietBudget DEF CreateWebhookLog, queueVars
  <2>5. ASSUME NEW d \in Deliveries, EnqueueMessage(d) PROVE WithinBudget'
    <3>1. At(d) \in Messages /\ UNCHANGED <<exec, parsed>> /\ AddJob(At(d), TRUE)
      BY <2>5, AtIsMessage DEF EnqueueMessage, Active, TypeOK
    <3> QED
      BY <3>1, <2>0, AddKeepsBudget
  <2>6. ASSUME NEW d \in Deliveries, HandlerFault(d) PROVE WithinBudget'
    BY <2>6, QuietBudget DEF HandlerFault, queueVars
  <2>7. ASSUME NEW m \in Messages, StartJob(m) PROVE WithinBudget'
    <3> DEFINE past == evicted[m] * Budget
    <3>1. /\ past \in Nat /\ parsed[m] \in Nat /\ made[m] \in Nat /\ stalls[m] \in Nat
          /\ BudgetOK(job[m], exec[m], parsed[m], past, made[m], stalls[m])
      BY <2>0 DEF WithinBudget
    <3>2. job[m] = "waiting" /\ stalls[m] <= MaxStalled
      BY <2>7, <2>0 DEF StartJob
    <3>3. /\ job'[m] = "active" /\ exec'[m] = "parse"
          /\ parsed'[m] = parsed[m] /\ made'[m] = made[m] /\ stalls'[m] = stalls[m] /\ evicted' = evicted
      BY <2>7, <2>0 DEF StartJob
    <3>4. \A k \in Messages \ {m} :
            /\ job'[k] = job[k] /\ exec'[k] = exec[k] /\ parsed'[k] = parsed[k]
            /\ evicted'[k] = evicted[k] /\ made'[k] = made[k] /\ stalls'[k] = stalls[k]
      BY <2>7, <2>0 DEF StartJob
    <3> HIDE DEF past
    <3>5. BudgetOK("waiting", exec[m], parsed[m], past, made[m], stalls[m])
      BY <3>1, <3>2
    <3>6. BudgetOK("active", "parse", parsed[m], past, made[m], stalls[m])
      BY <3>1, <3>2, <3>5, BudgetMoves
    <3>7. BudgetOK(job'[m], exec'[m], parsed'[m], past, made'[m], stalls'[m])
      BY <3>3, <3>6
    <3>8. evicted'[m] * Budget = past
      BY <3>3 DEF past
    <3> QED
      BY <3>4, <3>7, <3>8, OneJobMoves
  <2>8. ASSUME NEW m \in Messages, CreateParsedOrder(m) PROVE WithinBudget'
    <3> DEFINE past == evicted[m] * Budget
    <3>1. /\ past \in Nat /\ parsed[m] \in Nat /\ made[m] \in Nat /\ stalls[m] \in Nat
          /\ BudgetOK(job[m], exec[m], parsed[m], past, made[m], stalls[m])
      BY <2>0 DEF WithinBudget
    <3>2. job[m] = "active" /\ exec[m] = "parse"
      BY <2>8, <2>0 DEF CreateParsedOrder
    <3>3. /\ job'[m] = "active" /\ exec'[m] = "route"
          /\ parsed'[m] = parsed[m] + 1 /\ made'[m] = made[m] /\ stalls'[m] = stalls[m] /\ evicted' = evicted
      BY <2>8, <2>0 DEF CreateParsedOrder
    <3>4. \A k \in Messages \ {m} :
            /\ job'[k] = job[k] /\ exec'[k] = exec[k] /\ parsed'[k] = parsed[k]
            /\ evicted'[k] = evicted[k] /\ made'[k] = made[k] /\ stalls'[k] = stalls[k]
      BY <2>8, <2>0 DEF CreateParsedOrder
    <3> HIDE DEF past
    <3>5. BudgetOK("active", "parse", parsed[m], past, made[m], stalls[m])
      BY <3>1, <3>2
    <3>6. BudgetOK("active", "route", parsed[m] + 1, past, made[m], stalls[m])
      BY <3>1, <3>2, <3>5, BudgetMoves
    <3>7. BudgetOK(job'[m], exec'[m], parsed'[m], past, made'[m], stalls'[m])
      BY <3>3, <3>6
    <3>8. evicted'[m] * Budget = past
      BY <3>3 DEF past
    <3> QED
      BY <3>4, <3>7, <3>8, OneJobMoves
  <2>9. ASSUME NEW m \in Messages, RouteConversation(m) PROVE WithinBudget'
    <3> DEFINE past == evicted[m] * Budget
    <3>1. /\ past \in Nat
          /\ {parsed[m], made[m], stalls[m]} \subseteq Nat
          /\ BudgetOK(job[m], exec[m], parsed[m], past, made[m], stalls[m])
      BY <2>0 DEF WithinBudget
    <3> HIDE DEF past
    <3>2. BudgetOK(job'[m], exec'[m], parsed'[m], past, made'[m], stalls'[m])
      BY <2>9, <2>0, <3>1 DEF RouteConversation, BudgetOK
    <3> QED
      BY <2>9, <2>0, <3>2, OneJobMoves DEF RouteConversation, past
  <2>10. ASSUME NEW m \in Messages, MarkProcessed(m) PROVE WithinBudget'
    <3> DEFINE past == evicted[m] * Budget
    <3>1. /\ past \in Nat
          /\ {parsed[m], made[m], stalls[m]} \subseteq Nat
          /\ BudgetOK(job[m], exec[m], parsed[m], past, made[m], stalls[m])
      BY <2>0 DEF WithinBudget
    <3> HIDE DEF past
    <3>2. BudgetOK(job'[m], exec'[m], parsed'[m], past, made'[m], stalls'[m])
      BY <2>10, <2>0, <3>1 DEF MarkProcessed, AfterMark, BudgetOK
    <3> QED
      BY <2>10, <2>0, <3>2, OneJobMoves DEF MarkProcessed, past
  <2>11. ASSUME NEW m \in Messages, ResolveLog(m) PROVE WithinBudget'
    <3> DEFINE past == evicted[m] * Budget
    <3>1. /\ past \in Nat
          /\ {parsed[m], made[m], stalls[m]} \subseteq Nat
          /\ BudgetOK(job[m], exec[m], parsed[m], past, made[m], stalls[m])
      BY <2>0 DEF WithinBudget
    <3> HIDE DEF past
    <3>2. BudgetOK(job'[m], exec'[m], parsed'[m], past, made'[m], stalls'[m])
      BY <2>11, <2>0, <3>1 DEF ResolveLog, BudgetOK
    <3> QED
      BY <2>11, <2>0, <3>2, OneJobMoves DEF ResolveLog, past
  <2>12. ASSUME NEW m \in Messages, CompleteJob(m) PROVE WithinBudget'
    <3> DEFINE past == evicted[m] * Budget
    <3>1. /\ past \in Nat
          /\ {parsed[m], made[m], stalls[m]} \subseteq Nat
          /\ BudgetOK(job[m], exec[m], parsed[m], past, made[m], stalls[m])
      BY <2>0 DEF WithinBudget
    <3> HIDE DEF past
    <3>2. BudgetOK(job'[m], exec'[m], parsed'[m], past, made'[m], stalls'[m])
      BY <2>12, <2>0, <3>1 DEF CompleteJob, BudgetOK
    <3> QED
      BY <2>12, <2>0, <3>2, OneJobMoves DEF CompleteJob, past
  <2>13. ASSUME NEW m \in Messages, FailJob(m) PROVE WithinBudget'
    <3> DEFINE past == evicted[m] * Budget
    <3>1. /\ past \in Nat /\ parsed[m] \in Nat /\ made[m] \in Nat /\ stalls[m] \in Nat
          /\ BudgetOK(job[m], exec[m], parsed[m], past, made[m], stalls[m])
      BY <2>0 DEF WithinBudget
    <3>2. job[m] = "active"
      BY <2>13, <2>0 DEF FailJob
    <3>3. /\ job'[m] = (IF made[m] + 1 < MaxAttempts THEN "delayed" ELSE "failed")
          /\ exec'[m] = "idle" /\ parsed'[m] = parsed[m] /\ made'[m] = made[m] + 1
          /\ stalls'[m] = stalls[m] /\ evicted' = evicted
      BY <2>13, <2>0 DEF FailJob
    <3>4. \A k \in Messages \ {m} :
            /\ job'[k] = job[k] /\ exec'[k] = exec[k] /\ parsed'[k] = parsed[k]
            /\ evicted'[k] = evicted[k] /\ made'[k] = made[k] /\ stalls'[k] = stalls[k]
      BY <2>13, <2>0 DEF FailJob
    <3> HIDE DEF past
    <3>5. BudgetOK("active", exec[m], parsed[m], past, made[m], stalls[m])
      BY <3>1, <3>2
    <3>6. BudgetOK(IF made[m] + 1 < MaxAttempts THEN "delayed" ELSE "failed", "idle",
                   parsed[m], past, made[m] + 1, stalls[m])
      BY <3>1, <3>2, <3>5, BudgetMoves
    <3>7. BudgetOK(job'[m], exec'[m], parsed'[m], past, made'[m], stalls'[m])
      BY <3>3, <3>6
    <3>8. evicted'[m] * Budget = past
      BY <3>3 DEF past
    <3> QED
      BY <3>4, <3>7, <3>8, OneJobMoves
  <2>14. ASSUME NEW m \in Messages, Throw(m) PROVE WithinBudget'
    <3> DEFINE past == evicted[m] * Budget
    <3>1. /\ past \in Nat
          /\ {parsed[m], made[m], stalls[m]} \subseteq Nat
          /\ BudgetOK(job[m], exec[m], parsed[m], past, made[m], stalls[m])
      BY <2>0 DEF WithinBudget
    <3> HIDE DEF past
    <3>2. BudgetOK(job'[m], exec'[m], parsed'[m], past, made'[m], stalls'[m])
      BY <2>14, <2>0, <3>1 DEF Throw, BudgetOK
    <3> QED
      BY <2>14, <2>0, <3>2, OneJobMoves DEF Throw, past
  <2>15. ASSUME NEW m \in Messages, BackoffEnds(m) PROVE WithinBudget'
    <3> DEFINE past == evicted[m] * Budget
    <3>1. /\ past \in Nat
          /\ {parsed[m], made[m], stalls[m]} \subseteq Nat
          /\ BudgetOK(job[m], exec[m], parsed[m], past, made[m], stalls[m])
      BY <2>0 DEF WithinBudget
    <3> HIDE DEF past
    <3>2. BudgetOK(job'[m], exec'[m], parsed'[m], past, made'[m], stalls'[m])
      BY <2>15, <2>0, <3>1 DEF BackoffEnds, BudgetOK
    <3> QED
      BY <2>15, <2>0, <3>2, OneJobMoves DEF BackoffEnds, past
  <2>16. ASSUME NEW m \in Messages, RequeueStalled(m) PROVE WithinBudget'
    <3> DEFINE past == evicted[m] * Budget
    <3>1. /\ past \in Nat /\ parsed[m] \in Nat /\ made[m] \in Nat /\ stalls[m] \in Nat
          /\ BudgetOK(job[m], exec[m], parsed[m], past, made[m], stalls[m])
      BY <2>0 DEF WithinBudget
    <3>2. job[m] = "active"
      BY <2>16, <2>0 DEF RequeueStalled
    <3>3. /\ job'[m] = "waiting" /\ exec'[m] = exec[m]
          /\ parsed'[m] = parsed[m] /\ made'[m] = made[m] /\ stalls'[m] = stalls[m] + 1 /\ evicted' = evicted
      BY <2>16, <2>0 DEF RequeueStalled
    <3>4. \A k \in Messages \ {m} :
            /\ job'[k] = job[k] /\ exec'[k] = exec[k] /\ parsed'[k] = parsed[k]
            /\ evicted'[k] = evicted[k] /\ made'[k] = made[k] /\ stalls'[k] = stalls[k]
      BY <2>16, <2>0 DEF RequeueStalled
    <3> HIDE DEF past
    <3>5. BudgetOK("active", exec[m], parsed[m], past, made[m], stalls[m])
      BY <3>1, <3>2
    <3>6. BudgetOK("waiting", exec[m], parsed[m], past, made[m], stalls[m] + 1)
      BY <3>1, <3>2, <3>5, BudgetMoves
    <3>7. BudgetOK(job'[m], exec'[m], parsed'[m], past, made'[m], stalls'[m])
      BY <3>3, <3>6
    <3>8. evicted'[m] * Budget = past
      BY <3>3 DEF past
    <3> QED
      BY <3>4, <3>7, <3>8, OneJobMoves
  <2>17. ASSUME NEW m \in Messages, FailStalled(m) PROVE WithinBudget'
    <3> DEFINE past == evicted[m] * Budget
    <3>1. /\ past \in Nat /\ parsed[m] \in Nat /\ made[m] \in Nat /\ stalls[m] \in Nat
          /\ BudgetOK(job[m], exec[m], parsed[m], past, made[m], stalls[m])
      BY <2>0 DEF WithinBudget
    <3>2. job[m] = "waiting" /\ stalls[m] > MaxStalled
      BY <2>17, <2>0 DEF FailStalled
    <3>3. /\ job'[m] = "failed" /\ exec'[m] = exec[m]
          /\ parsed'[m] = parsed[m] /\ made'[m] = made[m] + 1 /\ stalls'[m] = stalls[m] /\ evicted' = evicted
      BY <2>17, <2>0 DEF FailStalled
    <3>4. \A k \in Messages \ {m} :
            /\ job'[k] = job[k] /\ exec'[k] = exec[k] /\ parsed'[k] = parsed[k]
            /\ evicted'[k] = evicted[k] /\ made'[k] = made[k] /\ stalls'[k] = stalls[k]
      BY <2>17, <2>0 DEF FailStalled
    <3> HIDE DEF past
    <3>5. BudgetOK("waiting", exec[m], parsed[m], past, made[m], stalls[m])
      BY <3>1, <3>2
    <3>6. BudgetOK("failed", exec[m], parsed[m], past, made[m] + 1, stalls[m])
      BY <3>1, <3>2, <3>5, BudgetMoves
    <3>7. BudgetOK(job'[m], exec'[m], parsed'[m], past, made'[m], stalls'[m])
      BY <3>3, <3>6
    <3>8. evicted'[m] * Budget = past
      BY <3>3 DEF past
    <3> QED
      BY <3>4, <3>7, <3>8, OneJobMoves
  <2>18. ASSUME NEW m \in Messages, NEW k \in failures[m], OnFailed(m, k) PROVE WithinBudget'
    BY <2>18, QuietBudget DEF OnFailed, queueVars
  <2>19. ASSUME NEW m \in Messages, EvictJob(m) PROVE WithinBudget'
    <3> DEFINE past == evicted[m] * Budget
    <3>1. /\ past \in Nat
          /\ {parsed[m], made[m], stalls[m]} \subseteq Nat
          /\ BudgetOK(job[m], exec[m], parsed[m], past, made[m], stalls[m])
      BY <2>0 DEF WithinBudget
    <3>2. evicted'[m] * Budget = past + Budget
      BY <2>19, <2>0 DEF EvictJob
    <3> HIDE DEF past
    <3>3. BudgetOK("absent", exec[m], parsed[m], past + Budget, made[m], stalls[m])
      BY <2>19, <2>0, <3>1 DEF EvictJob, BudgetOK
    <3>4. /\ job'[m] = "absent"
          /\ UNCHANGED <<exec, parsed, made, stalls>>
      BY <2>19, <2>0 DEF EvictJob
    <3>5. BudgetOK(job'[m], exec'[m], parsed'[m], evicted'[m] * Budget, made'[m], stalls'[m])
      BY <3>2, <3>3, <3>4
    <3> QED
      BY <2>19, <2>0, <3>4, <3>5, OneJobMoves DEF EvictJob
  <2>20. ASSUME NEW m \in Messages, RecoverMessage(m) PROVE WithinBudget'
    <3>1. UNCHANGED <<exec, parsed>>
      BY <2>20 DEF RecoverMessage
    <3>2. CASE UNCHANGED queueVars
      BY <3>1, <3>2, QuietBudget
    <3>3. CASE AddJob(m, log[m] = "open")
      BY <3>1, <3>3, <2>0, AddKeepsBudget
    <3> QED
      BY <2>20, <3>2, <3>3 DEF RecoverMessage, AddJob
  <2>21. ASSUME Boot PROVE WithinBudget'
    BY <2>21, QuietBudget DEF Boot, queueVars
  <2>22. ASSUME FindStuck PROVE WithinBudget'
    BY <2>22, QuietBudget DEF FindStuck, queueVars
  <2>23. ASSUME Listen PROVE WithinBudget'
    BY <2>23, QuietBudget DEF Listen, queueVars
  <2>24. ASSUME Crash PROVE WithinBudget'
    BY <2>24, DeathKeepsBudget DEF Crash, Die
  <2>25. ASSUME Shutdown PROVE WithinBudget'
    BY <2>25, QuietBudget DEF Shutdown, queueVars
  <2>26. ASSUME StopWorker PROVE WithinBudget'
    BY <2>26, QuietBudget DEF StopWorker, queueVars
  <2>27. ASSUME Exit PROVE WithinBudget'
    BY <2>27, DeathKeepsBudget DEF Exit, Die
  <2>28. ASSUME ForcedExit PROVE WithinBudget'
    BY <2>28, DeathKeepsBudget DEF ForcedExit, Die
  <2>29. ASSUME MinutePasses PROVE WithinBudget'
    BY <2>29, QuietBudget DEF MinutePasses, queueVars
  <2>30. ASSUME RedisFails PROVE WithinBudget'
    BY <2>30, QuietBudget DEF RedisFails, queueVars
  <2>31. ASSUME RedisReturns PROVE WithinBudget'
    BY <2>31, QuietBudget DEF RedisReturns, queueVars
  <2>32. CASE UNCHANGED vars
    BY <2>32, QuietBudget DEF vars, queueVars, documentVars, workerVars
  <2> QED
    BY <2>1, <2>2, <2>3, <2>4, <2>5, <2>6, <2>7, <2>8, <2>9, <2>10, <2>11, <2>12, <2>13, <2>14, <2>15, <2>16, <2>17, <2>18, <2>19, <2>20, <2>21, <2>22, <2>23, <2>24, <2>25, <2>26, <2>27, <2>28, <2>29, <2>30, <2>31, <2>32
    DEF Next, HandlerStep, AttemptStep, QueueStep, Listener
<1> QED
  BY <1>1

(* However often a message is delivered, fails, stalls or is recovered, a  *)
(* job of it parses it at most MaxAttempts + MaxStalled times.             *)
THEOREM ParsesBounded == Spec => []ParsesWithinBudget
<1>1. Init => WithinBudget
  BY PipelineAssumption DEF Init, WithinBudget, BudgetOK, Budget
<1>2. IInv /\ WithinBudget /\ [Next]_vars => WithinBudget'
  BY BudgetStep DEF IInv
<1>3. TypeOK /\ WithinBudget => ParsesWithinBudget
  <2> SUFFICES ASSUME TypeOK, WithinBudget, NEW m \in Messages
               PROVE  parsed[m] <= (evicted[m] + 1) * Budget
    BY DEF ParsesWithinBudget, Budget
  <2>1. /\ {parsed[m], made[m], stalls[m], evicted[m]} \subseteq Nat
        /\ job[m] \in JobState
        /\ Budget \in Nat /\ Budget = MaxAttempts + MaxStalled
        /\ MaxAttempts \in Nat /\ MaxStalled \in Nat
    BY PipelineAssumption DEF TypeOK, DocumentTypeOK, QueueTypeOK, Budget
  <2>2. (evicted[m] + 1) * Budget = evicted[m] * Budget + Budget
    BY <2>1
  <2> DEFINE past == evicted[m] * Budget
  <2>3. past \in Nat
    BY <2>1
  <2> HIDE DEF past
  <2>4. parsed[m] <= past + Budget
    BY <2>1, <2>2, <2>3 DEF WithinBudget, BudgetOK, JobState, past
  <2> QED
    BY <2>2, <2>4 DEF past
<1>4. IInv => TypeOK
  BY DEF IInv
<1> QED
  BY <1>1, <1>2, <1>3, <1>4, Invariance, PTL DEF Spec

----------------------------------------------------------------------------
(* What the "failed" listener tells: of one message, its job's state and   *)
(* attempts, the jobs dropped before it, the failures that nobody has been *)
(* told of yet, and the retries and alerts there have been.                *)
GivenUp(unheard) == {k \in unheard : Exhausted(k)}

(* A job whose attempts are used up has failed for good, so each of them   *)
(* raises one alert, now or later, and the one there is only if it failed. *)
ToldOK(j, tried, past, unheard, counted, raised) ==
  /\ IsFiniteSet(unheard)
  /\ past = 0 /\ j = "absent" => tried = 0
  /\ past = 0 => counted + Cardinality(unheard) <= tried
  /\ raised + Cardinality(GivenUp(unheard)) <= past + (IF j = "failed" THEN 1 ELSE 0)

Told ==
  \A m \in Messages :
    ToldOK(job[m], made[m], evicted[m], failures[m], retries[m], alerts[m])

LEMMA QuietTold ==
  ASSUME Told, UNCHANGED <<job, made, evicted, failures, retries, alerts>>
  PROVE  Told'
BY DEF Told

LEMMA OneIsTold ==
  ASSUME Told, NEW m \in Messages,
         \A k \in Messages \ {m} :
           /\ job'[k] = job[k] /\ made'[k] = made[k] /\ evicted'[k] = evicted[k]
           /\ failures'[k] = failures[k] /\ retries'[k] = retries[k] /\ alerts'[k] = alerts[k],
         ToldOK(job'[m], made'[m], evicted'[m], failures'[m], retries'[m], alerts'[m])
  PROVE  Told'
BY DEF Told

(* The job changes its state, but neither fails nor goes away. *)
LEMMA JobMovesTold ==
  ASSUME Told, NEW m \in Messages, NEW j, j \notin {"absent", "failed"}, job[m] # "failed",
         job \in [Messages -> JobState], job' = [job EXCEPT ![m] = j],
         UNCHANGED <<made, evicted, failures, retries, alerts>>
  PROVE  Told'
<1>1. ToldOK(job[m], made[m], evicted[m], failures[m], retries[m], alerts[m])
  BY DEF Told
<1>2. ToldOK(j, made[m], evicted[m], failures[m], retries[m], alerts[m])
  BY <1>1 DEF ToldOK
<1> QED
  BY <1>2, OneIsTold

LEMMA GivenUpFinite ==
  ASSUME NEW unheard, IsFiniteSet(unheard)
  PROVE  /\ IsFiniteSet(GivenUp(unheard))
         /\ Cardinality(unheard) \in Nat /\ Cardinality(GivenUp(unheard)) \in Nat
<1>1. GivenUp(unheard) \subseteq unheard
  BY DEF GivenUp
<1> QED
  BY <1>1, FS_Subset, FS_CardinalityType

(* An attempt fails: one more to tell of, and to alert of if it was the last. *)
LEMMA OneMoreFailure ==
  ASSUME NEW j, j # "failed", NEW tried \in Nat, NEW past \in Nat, NEW unheard,
         NEW counted \in Nat, NEW raised \in Nat,
         ToldOK(j, tried, past, unheard, counted, raised), NEW after, after # "absent",
         Exhausted(tried + 1) => after = "failed"
  PROVE  ToldOK(after, tried + 1, past, unheard \cup {tried + 1}, counted, raised)
<1> DEFINE more == unheard \cup {tried + 1}
<1>1. /\ IsFiniteSet(unheard)
      /\ Cardinality(unheard) \in Nat /\ Cardinality(GivenUp(unheard)) \in Nat
      /\ IsFiniteSet(GivenUp(unheard))
  BY GivenUpFinite DEF ToldOK
<1>2. IsFiniteSet(more) /\ Cardinality(more) \in Nat
      /\ Cardinality(more) <= Cardinality(unheard) + 1
  <2>1. /\ IsFiniteSet(more)
        /\ Cardinality(more) = IF tried + 1 \in unheard THEN Cardinality(unheard)
                                                        ELSE Cardinality(unheard) + 1
    BY <1>1, FS_AddElement
  <2> HIDE DEF more
  <2> QED
    BY <1>1, <2>1
<1>3. Cardinality(GivenUp(more)) <=
        Cardinality(GivenUp(unheard)) + (IF after = "failed" THEN 1 ELSE 0)
  <2>1. CASE Exhausted(tried + 1)
    <3> DEFINE before == GivenUp(unheard)
    <3>1. GivenUp(more) = before \cup {tried + 1}
      BY <2>1 DEF GivenUp
    <3>2. Cardinality(before \cup {tried + 1}) =
            IF tried + 1 \in before THEN Cardinality(before) ELSE Cardinality(before) + 1
      <4>1. IsFiniteSet(before)
        BY <1>1
      <4> HIDE DEF before
      <4> QED
        BY <4>1, FS_AddElement
    <3> HIDE DEF more
    <3> QED
      BY <1>1, <2>1, <3>1, <3>2
  <2>2. CASE ~Exhausted(tried + 1)
    <3>1. GivenUp(more) = GivenUp(unheard)
      BY <2>2 DEF GivenUp
    <3> QED
      BY <1>1, <3>1
  <2> QED
    BY <2>1, <2>2
<1>4. Cardinality(GivenUp(more)) \in Nat
  BY <1>2, GivenUpFinite
<1> HIDE DEF more
<1>5. ToldOK(after, tried + 1, past, more, counted, raised)
  BY <1>1, <1>2, <1>3, <1>4 DEF ToldOK
<1> QED
  BY <1>5 DEF more

(* The listener has run: it counts the retry or fails to, and alerts. *)
LEMMA OneIsHeard ==
  ASSUME NEW j, NEW tried \in Nat, NEW past \in Nat, NEW unheard,
         NEW counted \in Nat, NEW raised \in Nat, NEW k \in unheard,
         ToldOK(j, tried, past, unheard, counted, raised),
         NEW more \in Nat, more <= counted + 1,
         NEW then \in Nat, then <= raised + 1, then # raised => Exhausted(k)
  PROVE  ToldOK(j, tried, past, unheard \ {k}, more, then)
<1> DEFINE rest == unheard \ {k}
<1>1. /\ IsFiniteSet(unheard)
      /\ Cardinality(unheard) \in Nat /\ Cardinality(GivenUp(unheard)) \in Nat
      /\ IsFiniteSet(GivenUp(unheard))
  BY GivenUpFinite DEF ToldOK
<1>2. IsFiniteSet(rest) /\ Cardinality(rest) = Cardinality(unheard) - 1
  BY <1>1, FS_RemoveElement
<1>3. Cardinality(GivenUp(rest)) =
        Cardinality(GivenUp(unheard)) - (IF Exhausted(k) THEN 1 ELSE 0)
  <2>1. CASE Exhausted(k)
    <3>1. GivenUp(rest) = GivenUp(unheard) \ {k} /\ k \in GivenUp(unheard)
      BY <2>1 DEF GivenUp
    <3> QED
      BY <1>1, <2>1, <3>1, FS_RemoveElement
  <2>2. CASE ~Exhausted(k)
    <3>1. GivenUp(rest) = GivenUp(unheard)
      BY <2>2 DEF GivenUp
    <3> QED
      BY <1>1, <2>2, <3>1
  <2> QED
    BY <2>1, <2>2
<1> HIDE DEF rest
<1>4. ToldOK(j, tried, past, rest, more, then)
  BY <1>1, <1>2, <1>3 DEF ToldOK
<1> QED
  BY <1>4 DEF rest

(* A job is added only where there is none; the first starts at no attempt. *)
LEMMA AddKeepsTold ==
  ASSUME Told, NEW m \in Messages, NEW withLog, AddJob(m, withLog),
         job \in [Messages -> JobState], made \in [Messages -> Nat],
         UNCHANGED <<failures, retries, alerts>>
  PROVE  Told'
<1>1. CASE UNCHANGED queueVars
  BY <1>1, QuietTold DEF queueVars
<1>2. CASE job[m] = "absent"
  <2>1. ToldOK(job[m], made[m], evicted[m], failures[m], retries[m], alerts[m])
    BY DEF Told
  <2>2. ToldOK("waiting", 0, evicted[m], failures[m], retries[m], alerts[m])
    BY <1>2, <2>1 DEF ToldOK
  <2>3. /\ job' = [job EXCEPT ![m] = "waiting"] /\ made' = [made EXCEPT ![m] = 0]
        /\ UNCHANGED evicted
    BY <1>2 DEF AddJob
  <2> QED
    BY <2>2, <2>3, OneIsTold
<1> QED
  BY <1>1, <1>2 DEF AddJob

(* A finished job is dropped: what it may still raise is counted for it.   *)
LEMMA EvictionKeepsTold ==
  ASSUME TypeOK, Told, NEW m \in Messages, EvictJob(m)
  PROVE  Told'
<1>1. /\ job' = [job EXCEPT ![m] = "absent"] /\ evicted' = [evicted EXCEPT ![m] = @ + 1]
      /\ UNCHANGED <<made, failures, retries, alerts>>
  BY DEF EvictJob, documentVars, workerVars
<1>2. /\ job \in [Messages -> JobState] /\ evicted \in [Messages -> Nat]
      /\ alerts[m] \in Nat /\ evicted[m] \in Nat
  BY DEF TypeOK, QueueTypeOK, WorkerTypeOK
<1>3. ToldOK(job[m], made[m], evicted[m], failures[m], retries[m], alerts[m])
  BY DEF Told
<1>4. ToldOK("absent", made[m], evicted[m] + 1, failures[m], retries[m], alerts[m])
  <2>1. Cardinality(GivenUp(failures[m])) \in Nat
    BY <1>3, GivenUpFinite DEF ToldOK
  <2> QED
    BY <1>2, <1>3, <2>1 DEF ToldOK
<1> QED
  BY <1>1, <1>2, <1>4, OneIsTold

(* What a process has not told when it dies is never told. *)
LEMMA DeathKeepsTold ==
  ASSUME TypeOK, Told, Die
  PROVE  Told'
<1>1. /\ UNCHANGED <<job, made, evicted, retries, alerts>>
      /\ failures' = [m \in Messages |-> {}]
  BY DEF Die, documentVars, queueVars
<1>2. SUFFICES ASSUME NEW m \in Messages
               PROVE  ToldOK(job[m], made[m], evicted[m], {}, retries[m], alerts[m])
  BY <1>1 DEF Told
<1>3. /\ retries[m] \in Nat /\ made[m] \in Nat /\ evicted[m] \in Nat /\ alerts[m] \in Nat
  BY DEF TypeOK, DocumentTypeOK, QueueTypeOK, WorkerTypeOK
<1>4. ToldOK(job[m], made[m], evicted[m], failures[m], retries[m], alerts[m])
  BY DEF Told
<1>5. Cardinality(failures[m]) \in Nat /\ Cardinality(GivenUp(failures[m])) \in Nat
  BY <1>4, GivenUpFinite DEF ToldOK
<1>6. IsFiniteSet({}) /\ Cardinality({}) = 0 /\ GivenUp({}) = {}
  BY FS_EmptySet DEF GivenUp
<1> DEFINE none == {}
<1>7. IsFiniteSet(none) /\ Cardinality(none) = 0 /\ Cardinality(GivenUp(none)) = 0
  BY <1>6
<1> HIDE DEF none
<1>8. ToldOK(job[m], made[m], evicted[m], none, retries[m], alerts[m])
  BY <1>3, <1>4, <1>5, <1>7 DEF ToldOK
<1> QED
  BY <1>8 DEF none

(* The attempt has thrown, or the job has stalled too often. *)
LEMMA FailureKeepsTold ==
  ASSUME TypeOK, Told, AttemptHoldsJob, NEW m \in Messages, FailJob(m) \/ FailStalled(m)
  PROVE  Told'
<1> DEFINE after == IF FailJob(m) /\ made[m] + 1 < MaxAttempts THEN "delayed" ELSE "failed"
<1>1. /\ job \in [Messages -> JobState] /\ made \in [Messages -> Nat]
      /\ failures \in [Messages -> SUBSET (Nat \ {0})]
      /\ made[m] \in Nat /\ evicted[m] \in Nat /\ retries[m] \in Nat /\ alerts[m] \in Nat
  BY DEF TypeOK, DocumentTypeOK, QueueTypeOK, WorkerTypeOK
<1>2. job[m] # "failed"
  BY DEF FailJob, FailStalled, AttemptHoldsJob
<1>3. PICK j \in {"delayed", "failed"} :
        /\ job' = [job EXCEPT ![m] = j]
        /\ j = "delayed" => made[m] + 1 < MaxAttempts
  BY DEF FailJob, FailStalled
<1>4. /\ made' = [made EXCEPT ![m] = made[m] + 1]
      /\ failures' = [failures EXCEPT ![m] = failures[m] \cup {made[m] + 1}]
      /\ UNCHANGED <<evicted, retries, alerts>>
  BY DEF FailJob, FailStalled, documentVars
<1>5. Exhausted(made[m] + 1) => j = "failed"
  BY <1>1, <1>3, PipelineAssumption DEF Exhausted
<1>6. ToldOK(job[m], made[m], evicted[m], failures[m], retries[m], alerts[m])
  BY DEF Told
<1>7. ToldOK(j, made[m] + 1, evicted[m], failures[m] \cup {made[m] + 1}, retries[m], alerts[m])
  BY <1>1, <1>2, <1>3, <1>5, <1>6, OneMoreFailure
<1> QED
  BY <1>1, <1>3, <1>4, <1>7, OneIsTold

LEMMA ListenerKeepsTold ==
  ASSUME TypeOK, Told, NEW m \in Messages, NEW k \in failures[m], OnFailed(m, k)
  PROVE  Told'
<1>1. /\ failures \in [Messages -> SUBSET (Nat \ {0})]
      /\ retries \in [Messages -> Nat] /\ alerts \in [Messages -> Nat]
      /\ made[m] \in Nat /\ evicted[m] \in Nat /\ retries[m] \in Nat /\ alerts[m] \in Nat
  BY DEF TypeOK, DocumentTypeOK, QueueTypeOK, WorkerTypeOK
<1>2. PICK more \in Nat :
        more <= retries[m] + 1 /\ retries' = [retries EXCEPT ![m] = more]
  <2>1. \/ retries' = [retries EXCEPT ![m] = retries[m]]
        \/ retries' = [retries EXCEPT ![m] = retries[m] + 1]
    BY <1>1 DEF OnFailed
  <2> QED
    BY <1>1, <2>1
<1>3. PICK raised \in Nat :
        /\ alerts' = [alerts EXCEPT ![m] = raised]
        /\ raised <= alerts[m] + 1
        /\ raised # alerts[m] => Exhausted(k)
  <2> DEFINE then == IF Exhausted(k) THEN alerts[m] + 1 ELSE alerts[m]
  <2>1. alerts' = [alerts EXCEPT ![m] = then]
    BY DEF OnFailed
  <2>2. then \in Nat /\ then <= alerts[m] + 1 /\ (then # alerts[m] => Exhausted(k))
    BY <1>1
  <2> HIDE DEF then
  <2> QED
    BY <2>1, <2>2
<1>6. /\ failures' = [failures EXCEPT ![m] = failures[m] \ {k}]
      /\ UNCHANGED <<job, made, evicted>>
  BY DEF OnFailed, queueVars
<1>4. ToldOK(job[m], made[m], evicted[m], failures[m], retries[m], alerts[m])
  BY DEF Told
<1>5. ToldOK(job[m], made[m], evicted[m], failures[m] \ {k}, more, raised)
  BY <1>1, <1>2, <1>3, <1>4, OneIsHeard
<1> QED
  BY <1>1, <1>2, <1>3, <1>5, <1>6, OneIsTold

LEMMA ToldStep ==
  ASSUME TypeOK, AttemptHoldsJob, Told, [Next]_vars
  PROVE  Told'
<1>1. job \in [Messages -> JobState] /\ made \in [Messages -> Nat]
  BY DEF TypeOK, QueueTypeOK
<1>2. ASSUME NEW d \in Deliveries, HandlePost(d) \/ HandlerStep(d) \/ HandlerFault(d)
      PROVE  Told'
  <2>1. CASE EnqueueMessage(d)
    <3>1. At(d) \in Messages /\ AddJob(At(d), TRUE) /\ UNCHANGED <<failures, retries, alerts>>
      BY <2>1, AtIsMessage DEF EnqueueMessage, TypeOK, documentVars, workerVars
    <3> QED
      BY <1>1, <3>1, AddKeepsTold
  <2>2. CASE \/ HandlePost(d) \/ MessageExists(d) \/ CreateMessage(d) \/ CreateWebhookLog(d)
             \/ HandlerFault(d)
    BY <2>2, QuietTold DEF HandlePost, MessageExists, CreateMessage, CreateWebhookLog, HandlerFault,
                           documentVars, queueVars, workerVars
  <2> QED
    BY <1>2, <2>1, <2>2 DEF HandlerStep
<1>3. ASSUME NEW m \in Messages,
             \/ CreateParsedOrder(m) \/ RouteConversation(m) \/ MarkProcessed(m)
             \/ ResolveLog(m) \/ Throw(m)
      PROVE  Told'
  BY <1>3, QuietTold DEF CreateParsedOrder, RouteConversation, MarkProcessed, ResolveLog, Throw,
                         documentVars, queueVars
<1>4. ASSUME NEW m \in Messages,
             StartJob(m) \/ CompleteJob(m) \/ BackoffEnds(m) \/ RequeueStalled(m)
      PROVE  Told'
  <2>1. /\ job[m] # "failed" /\ UNCHANGED <<made, evicted, failures, retries, alerts>>
        /\ \/ job' = [job EXCEPT ![m] = "active"]
           \/ job' = [job EXCEPT ![m] = "completed"]
           \/ job' = [job EXCEPT ![m] = "waiting"]
    BY <1>4 DEF StartJob, CompleteJob, BackoffEnds, RequeueStalled, AttemptHoldsJob,
                documentVars, workerVars
  <2> QED
    BY <1>1, <2>1, JobMovesTold
<1>5. ASSUME NEW m \in Messages, RecoverMessage(m)
      PROVE  Told'
  <2>1. UNCHANGED <<failures, retries, alerts>>
        /\ (AddJob(m, log[m] = "open") \/ UNCHANGED queueVars)
    BY <1>5 DEF RecoverMessage, documentVars, workerVars
  <2>2. CASE AddJob(m, log[m] = "open")
    BY <1>1, <2>1, <2>2, AddKeepsTold
  <2>3. CASE UNCHANGED queueVars
    BY <2>1, <2>3, QuietTold DEF queueVars
  <2> QED
    BY <2>1, <2>2, <2>3
<1>6. ASSUME NEW m \in Messages, Listener(m)
      PROVE  Told'
  BY <1>6, ListenerKeepsTold DEF Listener
<1>7. CASE Crash \/ Exit \/ ForcedExit
  BY <1>7, DeathKeepsTold DEF Crash, Exit, ForcedExit
<1>8. CASE \/ Boot \/ FindStuck \/ Listen \/ Shutdown \/ StopWorker
           \/ MinutePasses \/ RedisFails \/ RedisReturns \/ UNCHANGED vars
  BY <1>8, QuietTold DEF Boot, FindStuck, Listen, Shutdown, StopWorker, MinutePasses, RedisFails,
                         RedisReturns, vars, documentVars, queueVars, workerVars
<1> QED
  BY <1>2, <1>3, <1>4, <1>5, <1>6, <1>7, <1>8, FailureKeepsTold, EvictionKeepsTold
  DEF Next, AttemptStep, QueueStep

(* A log counts no more retries than its job had failures, and the         *)
(* dashboard is alerted at most once of each job, and only of one that has *)
(* failed for good (the "failed" listener, messageWorker.ts:50-72).        *)
THEOREM FailuresTold == Spec => []FailuresAreTold
<1>1. Init => Told
  BY FS_EmptySet DEF Init, Told, ToldOK, GivenUp
<1>2. IInv /\ Told /\ [Next]_vars => Told'
  BY ToldStep DEF IInv, Possession
<1>3. TypeOK /\ Told => FailuresAreTold
  <2>1. SUFFICES ASSUME TypeOK, Told, NEW m \in Messages
                 PROVE  /\ evicted[m] = 0 => retries[m] + Cardinality(failures[m]) <= made[m]
                        /\ alerts[m] <= evicted[m] + 1
                        /\ alerts[m] > 0 /\ evicted[m] = 0 => job[m] = "failed"
    BY DEF FailuresAreTold, RetriesAreFailures, AlertedOnceWhenAbandoned
  <2>2. ToldOK(job[m], made[m], evicted[m], failures[m], retries[m], alerts[m])
    BY <2>1 DEF Told
  <2>3. Cardinality(GivenUp(failures[m])) \in Nat
    BY <2>2, GivenUpFinite DEF ToldOK
  <2>4. evicted[m] \in Nat /\ alerts[m] \in Nat
    BY <2>1 DEF TypeOK, QueueTypeOK, WorkerTypeOK
  <2> QED
    BY <2>2, <2>3, <2>4 DEF ToldOK
<1>4. IInv => TypeOK
  BY DEF IInv
<1> QED
  BY <1>1, <1>2, <1>3, <1>4, Invariance, PTL DEF Spec
=============================================================================
