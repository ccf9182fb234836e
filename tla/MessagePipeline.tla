--------------------------- MODULE MessagePipeline ---------------------------
(***************************************************************************)
(* The path of a Facebook message from the webhook to "processed":         *)
(*                                                                         *)
(*   webhook handler  --(MongoDB: Message, WebhookLog)-->                  *)
(*   BullMQ job in Redis  -->  worker (parse, converse, mark)              *)
(*                                                                         *)
(* together with what interrupts it: duplicate deliveries, a failing call, *)
(* retries with backoff, an unreachable Redis, a process that dies and is  *)
(* restarted, and the recovery scan the restarted process runs.            *)
(*                                                                         *)
(* One action per await: between two awaits Node runs one callback at a    *)
(* time, so what lies between them is atomic.  MongoDB and Redis survive a *)
(* crash of the process; everything else of it is lost.  The conversation  *)
(* itself (RouteConversation here) is one step; ConversationBot opens it.  *)
(***************************************************************************)
EXTENDS Integers, Sequences, FiniteSets

CONSTANTS
  Messages,      \* Facebook messages (tenantId + fbMessageId)
  Deliveries,    \* POSTs Facebook makes; two may carry the same message
  Batch,         \* the messages each delivery carries, in order
  Skipped,       \* messages the handler passes over: unknown page, no text
  Unparseable,   \* messages whose ParsedOrder never validates (quantity 0)
  MaxAttempts,   \* attempts of a job: 4 in queues.ts
  MaxStalled,    \* times BullMQ restarts a job whose worker died: 1
  Concurrency,   \* jobs a worker runs at once: 5 in messageWorker.ts
  MaxCrashes, MaxFaults, MaxOutages, MaxEvictions  \* bounds on the environment

ASSUME PipelineAssumption ==
  /\ Batch \in [Deliveries -> Seq(Messages)]
  /\ Skipped \subseteq Messages
  /\ Unparseable \subseteq Messages
  /\ MaxAttempts \in Nat \ {0}
  /\ MaxStalled \in Nat
  /\ Concurrency \in Nat \ {0}
  /\ {MaxCrashes, MaxFaults, MaxOutages, MaxEvictions} \subseteq Nat

VARIABLES
  handler,    \* where the webhook handler of a delivery is
  pos,        \* index in its batch of the message it is at
  message,    \* Message document: absent, unprocessed, processed
  log,        \* WebhookLog document of a message: none, open, resolved
  retries,    \* its retries counter
  parsed,     \* ParsedOrder documents saved for a message
  routed,     \* times the conversation has handled a message
  job,        \* BullMQ job whose id is the message's id
  made,       \* its attemptsMade
  stalls,     \* its stalled counter
  linked,     \* its data carries a logId
  evicted,    \* times the queue has dropped the finished job
  exec,       \* where the worker is in the attempt it runs
  failures,   \* attempt numbers whose "failed" listener has yet to run
  alerts,     \* webhook failures pushed to the dashboard
  server,     \* down, starting, recovering, up, closing, draining
  recovery,   \* messages the startup scan has yet to re-enqueue
  aged,       \* messages stored more than a minute ago
  redisUp,
  crashes, faults, outages   \* how much of each bound is used

webhookVars  == <<handler, pos>>
documentVars == <<message, log, retries, parsed, routed>>
queueVars    == <<job, made, stalls, linked, evicted>>
workerVars   == <<exec, failures, alerts>>
processVars  == <<server, recovery>>
boundVars    == <<crashes, faults, outages>>
vars == <<webhookVars, documentVars, queueVars, workerVars, processVars,
          aged, redisUp, boundVars>>

HandlerState == {"idle", "look", "create", "log", "enqueue",
                 "done", "aborted", "orphaned"}
JobState     == {"absent", "waiting", "active", "delayed", "completed", "failed"}
ExecState    == {"idle", "parse", "route", "mark", "resolve", "return", "threw"}
ServerState  == {"down", "starting", "recovering", "up", "closing", "draining"}

Active(d) == handler[d] \in {"look", "create", "log", "enqueue"}

(* The message a handler is at. *)
At(d) == Batch[d][pos[d]]

Unprocessed(m) == message[m] = "unprocessed"

Running == {m \in Messages : exec[m] # "idle"}

Init ==
  /\ handler = [d \in Deliveries |-> "idle"]
  /\ pos = [d \in Deliveries |-> 1]
  /\ message = [m \in Messages |-> "absent"]
  /\ log = [m \in Messages |-> "none"]
  /\ retries = [m \in Messages |-> 0]
  /\ parsed = [m \in Messages |-> 0]
  /\ routed = [m \in Messages |-> 0]
  /\ job = [m \in Messages |-> "absent"]
  /\ made = [m \in Messages |-> 0]
  /\ stalls = [m \in Messages |-> 0]
  /\ linked = [m \in Messages |-> FALSE]
  /\ evicted = [m \in Messages |-> 0]
  /\ exec = [m \in Messages |-> "idle"]
  /\ failures = [m \in Messages |-> {}]
  /\ alerts = [m \in Messages |-> 0]
  /\ server = "up"
  /\ recovery = {}
  /\ aged = {}
  /\ redisUp = TRUE
  /\ crashes = 0
  /\ faults = 0
  /\ outages = 0

----------------------------------------------------------------------------
(* The webhook handler. *)

(* handlePost: the signature is valid; Facebook gets its 200 here, before  *)
(* any of the batch is looked at.                                          *)
HandlePost(d) ==
  /\ server = "up"
  /\ handler[d] = "idle"
  /\ handler' = [handler EXCEPT ![d] = IF Batch[d] = <<>> THEN "done" ELSE "look"]
  /\ UNCHANGED <<pos, documentVars, queueVars, workerVars, processVars,
                 aged, redisUp, boundVars>>

(* Mutant: the loop runs one past the end of the batch. *)
NextMessage_OnePast(d) ==
  IF pos[d] <= Len(Batch[d])
  THEN /\ pos' = [pos EXCEPT ![d] = @ + 1]
       /\ handler' = [handler EXCEPT ![d] = "look"]
  ELSE /\ handler' = [handler EXCEPT ![d] = "done"]
       /\ UNCHANGED pos

(* Mutant: the loop stays at the message it has dealt with. *)
NextMessage_NoAdvance(d) ==
  /\ handler' = [handler EXCEPT ![d] = IF pos[d] < Len(Batch[d]) THEN "look" ELSE "done"]
  /\ UNCHANGED pos

(* The end of one iteration of the loop over the batch. *)
NextMessage(d) ==
  IF pos[d] < Len(Batch[d])
  THEN /\ pos' = [pos EXCEPT ![d] = @ + 1]
       /\ handler' = [handler EXCEPT ![d] = "look"]
  ELSE /\ handler' = [handler EXCEPT ![d] = "done"]
       /\ UNCHANGED pos

(* resolveTenantId, the blank-text check and messageExists. *)
MessageExists(d) ==
  /\ handler[d] = "look"
  /\ IF At(d) \in Skipped \/ message[At(d)] # "absent"
     THEN NextMessage(d)
     ELSE /\ handler' = [handler EXCEPT ![d] = "create"]
          /\ UNCHANGED pos
  /\ UNCHANGED <<documentVars, queueVars, workerVars, processVars,
                 aged, redisUp, boundVars>>

(* Mutant: an upsert instead of a create, which resets the document.       *)
CreateMessage_Upsert(d) ==
  /\ handler[d] = "create"
  /\ message' = [message EXCEPT ![At(d)] = "unprocessed"]
  /\ handler' = [handler EXCEPT ![d] = "log"]
  /\ UNCHANGED <<pos, log, retries, parsed, routed, queueVars, workerVars,
                 processVars, aged, redisUp, boundVars>>

(* createMessage: the unique index refuses a second document, and the      *)
(* error leaves the loop and the handler.                                  *)
CreateMessage(d) ==
  /\ handler[d] = "create"
  /\ IF message[At(d)] = "absent"
     THEN /\ message' = [message EXCEPT ![At(d)] = "unprocessed"]
          /\ handler' = [handler EXCEPT ![d] = "log"]
     ELSE /\ handler' = [handler EXCEPT ![d] = "aborted"]
          /\ UNCHANGED message
  /\ UNCHANGED <<pos, log, retries, parsed, routed, queueVars, workerVars,
                 processVars, aged, redisUp, boundVars>>

CreateWebhookLog(d) ==
  /\ handler[d] = "log"
  /\ log' = [log EXCEPT ![At(d)] = "open"]
  /\ handler' = [handler EXCEPT ![d] = "enqueue"]
  /\ UNCHANGED <<pos, message, retries, parsed, routed, queueVars, workerVars,
                 processVars, aged, redisUp, boundVars>>

(* Mutant: the job id does not deduplicate. *)
AddJob_Always(m, withLog) ==
  /\ job' = [job EXCEPT ![m] = "waiting"]
  /\ made' = [made EXCEPT ![m] = 0]
  /\ stalls' = [stalls EXCEPT ![m] = 0]
  /\ linked' = [linked EXCEPT ![m] = withLog]
  /\ UNCHANGED evicted

(* queue.add with the message's id as jobId: ignored when a job of that id *)
(* exists in any state, a retained completed or failed one included.       *)
AddJob(m, withLog) ==
  IF job[m] = "absent"
  THEN /\ job' = [job EXCEPT ![m] = "waiting"]
       /\ made' = [made EXCEPT ![m] = 0]
       /\ stalls' = [stalls EXCEPT ![m] = 0]
       /\ linked' = [linked EXCEPT ![m] = withLog]
       /\ UNCHANGED evicted
  ELSE UNCHANGED queueVars

(* Mutant: an unreachable Redis rejects the add and the error is swallowed. *)
EnqueueMessage_Swallowed(d) ==
  /\ handler[d] = "enqueue"
  /\ IF redisUp THEN AddJob(At(d), TRUE) ELSE UNCHANGED queueVars
  /\ NextMessage(d)
  /\ UNCHANGED <<documentVars, workerVars, processVars, aged, redisUp, boundVars>>

(* enqueueMessage waits for as long as Redis is unreachable. *)
EnqueueMessage(d) ==
  /\ handler[d] = "enqueue"
  /\ redisUp
  /\ AddJob(At(d), TRUE)
  /\ NextMessage(d)
  /\ UNCHANGED <<documentVars, workerVars, processVars, aged, redisUp, boundVars>>

(* How a handler ends that does not reach the end of its batch: orphaned   *)
(* when the message it is at is stored and not yet enqueued.               *)
Interrupted(pc) == IF pc \in {"log", "enqueue"} THEN "orphaned" ELSE "aborted"

(* Any call of the handler rejects; handlePost logs the error and is done. *)
HandlerFault(d) ==
  /\ faults < MaxFaults
  /\ Active(d)
  /\ handler' = [handler EXCEPT ![d] = Interrupted(@)]
  /\ faults' = faults + 1
  /\ UNCHANGED <<pos, documentVars, queueVars, workerVars, processVars,
                 aged, redisUp, crashes, outages>>

----------------------------------------------------------------------------
(* The worker.  exec[m] is its place in processJob for the job of m; "idle" *)
(* with an active job means the process that ran it has died.               *)

StartJob(m) ==
  /\ server \in {"starting", "recovering", "up", "closing"}
  /\ redisUp
  /\ job[m] = "waiting"
  /\ stalls[m] <= MaxStalled
  /\ Cardinality(Running) < Concurrency
  /\ job' = [job EXCEPT ![m] = "active"]
  /\ exec' = [exec EXCEPT ![m] = "parse"]
  /\ UNCHANGED <<webhookVars, documentVars, made, stalls, linked, evicted,
                 failures, alerts, processVars, aged, redisUp, boundVars>>

(* Message and Tenant are found; hybridParse; ParsedOrder.create. *)
CreateParsedOrder(m) ==
  /\ exec[m] = "parse"
  /\ m \notin Unparseable
  /\ parsed' = [parsed EXCEPT ![m] = @ + 1]
  /\ exec' = [exec EXCEPT ![m] = "route"]
  /\ UNCHANGED <<webhookVars, message, log, retries, routed, queueVars,
                 failures, alerts, processVars, aged, redisUp, boundVars>>

(* Mutant: the conversation is not awaited before the message is marked. *)
RouteConversation_NotAwaited(m) ==
  /\ exec[m] = "route"
  /\ exec' = [exec EXCEPT ![m] = "mark"]
  /\ UNCHANGED <<webhookVars, documentVars, queueVars, failures, alerts,
                 processVars, aged, redisUp, boundVars>>

RouteConversation(m) ==
  /\ exec[m] = "route"
  /\ routed' = [routed EXCEPT ![m] = @ + 1]
  /\ exec' = [exec EXCEPT ![m] = "mark"]
  /\ UNCHANGED <<webhookVars, message, log, retries, parsed, queueVars,
                 failures, alerts, processVars, aged, redisUp, boundVars>>

(* What is left of processJob once the message is marked. *)
AfterMark_NoLog(m) == "return"

AfterMark(m) == IF linked[m] THEN "resolve" ELSE "return"

MarkProcessed(m) ==
  /\ exec[m] = "mark"
  /\ message' = [message EXCEPT ![m] = "processed"]
  /\ exec' = [exec EXCEPT ![m] = AfterMark(m)]
  /\ UNCHANGED <<webhookVars, log, retries, parsed, routed, queueVars,
                 failures, alerts, processVars, aged, redisUp, boundVars>>

ResolveLog(m) ==
  /\ exec[m] = "resolve"
  /\ log' = [log EXCEPT ![m] = "resolved"]
  /\ exec' = [exec EXCEPT ![m] = "return"]
  /\ UNCHANGED <<webhookVars, message, retries, parsed, routed, queueVars,
                 failures, alerts, processVars, aged, redisUp, boundVars>>

CompleteJob(m) ==
  /\ exec[m] = "return"
  /\ redisUp
  /\ job' = [job EXCEPT ![m] = "completed"]
  /\ exec' = [exec EXCEPT ![m] = "idle"]
  /\ UNCHANGED <<webhookVars, documentVars, made, stalls, linked, evicted,
                 failures, alerts, processVars, aged, redisUp, boundVars>>

(* The attempt throws: ParsedOrder's validator refuses the parse, every    *)
(* time, or one of its database calls rejects.                             *)
Throw(m) ==
  /\ exec[m] \in {"parse", "route", "mark", "resolve"}
  /\ \/ /\ exec[m] = "parse"
        /\ m \in Unparseable
        /\ UNCHANGED faults
     \/ /\ faults < MaxFaults
        /\ faults' = faults + 1
  /\ exec' = [exec EXCEPT ![m] = "threw"]
  /\ UNCHANGED <<webhookVars, documentVars, queueVars, failures, alerts,
                 processVars, aged, redisUp, crashes, outages>>

(* BullMQ counts the attempt, delays the job by the backoff strategy or    *)
(* fails it for good, and emits "failed".                                  *)
FailJob(m) ==
  /\ exec[m] = "threw"
  /\ redisUp
  /\ made' = [made EXCEPT ![m] = @ + 1]
  /\ job' = [job EXCEPT ![m] = IF made[m] + 1 < MaxAttempts THEN "delayed" ELSE "failed"]
  /\ failures' = [failures EXCEPT ![m] = @ \cup {made[m] + 1}]
  /\ exec' = [exec EXCEPT ![m] = "idle"]
  /\ UNCHANGED <<webhookVars, documentVars, stalls, linked, evicted, alerts,
                 processVars, aged, redisUp, boundVars>>

(* 30 s, 2 min or 10 min later. *)
BackoffEnds(m) ==
  /\ redisUp
  /\ server # "down"
  /\ job[m] = "delayed"
  /\ job' = [job EXCEPT ![m] = "waiting"]
  /\ UNCHANGED <<webhookVars, documentVars, made, stalls, linked, evicted,
                 workerVars, processVars, aged, redisUp, boundVars>>

(* Mutant: one attempt too early. *)
Exhausted_Early(k) == k >= MaxAttempts - 1

Exhausted(k) == k >= MaxAttempts

(* The "failed" listener: counts the retry in the log, a failure of which  *)
(* it swallows, and alerts the dashboard when the attempts are used up.    *)
OnFailed(m, k) ==
  /\ k \in failures[m]
  /\ failures' = [failures EXCEPT ![m] = @ \ {k}]
  /\ \/ /\ retries' = [retries EXCEPT ![m] = IF linked[m] THEN @ + 1 ELSE @]
        /\ UNCHANGED faults
     \/ /\ linked[m]
        /\ faults < MaxFaults
        /\ faults' = faults + 1
        /\ UNCHANGED retries
  /\ alerts' = [alerts EXCEPT ![m] = IF Exhausted(k) THEN @ + 1 ELSE @]
  /\ UNCHANGED <<webhookVars, message, log, parsed, routed, queueVars, exec,
                 processVars, aged, redisUp, crashes, outages>>

(* Mutant: no worker checks for stalled jobs. *)
RequeueStalled_Never(m) == FALSE

(* The stalled-job check of BullMQ finds an active job whose lock expired. *)
RequeueStalled(m) ==
  /\ server # "down"
  /\ redisUp
  /\ job[m] = "active"
  /\ exec[m] = "idle"
  /\ stalls' = [stalls EXCEPT ![m] = @ + 1]
  /\ job' = [job EXCEPT ![m] = "waiting"]
  /\ UNCHANGED <<webhookVars, documentVars, made, linked, evicted, workerVars,
                 processVars, aged, redisUp, boundVars>>

(* A job that stalled too often is failed without running again. *)
FailStalled(m) ==
  /\ server \in {"starting", "recovering", "up", "closing"}
  /\ redisUp
  /\ job[m] = "waiting"
  /\ stalls[m] > MaxStalled
  /\ made' = [made EXCEPT ![m] = @ + 1]
  /\ job' = [job EXCEPT ![m] = "failed"]
  /\ failures' = [failures EXCEPT ![m] = @ \cup {made[m] + 1}]
  /\ UNCHANGED <<webhookVars, documentVars, stalls, linked, evicted, exec,
                 alerts, processVars, aged, redisUp, boundVars>>

(* removeOnComplete and removeOnFail keep the last 1000 and 500 jobs. *)
EvictJob(m) ==
  /\ evicted[m] < MaxEvictions
  /\ redisUp
  /\ job[m] \in {"completed", "failed"}
  /\ job' = [job EXCEPT ![m] = "absent"]
  /\ evicted' = [evicted EXCEPT ![m] = @ + 1]
  /\ UNCHANGED <<webhookVars, documentVars, made, stalls, linked, workerVars,
                 processVars, aged, redisUp, boundVars>>

----------------------------------------------------------------------------
(* The process: startup, recovery, shutdown and death. *)

(* main up to startMessageWorker. *)
Boot ==
  /\ server = "down"
  /\ server' = "starting"
  /\ UNCHANGED <<webhookVars, documentVars, queueVars, workerVars, recovery,
                 aged, redisUp, boundVars>>

(* Mutant: the comparison with the cutoff is turned around. *)
Stuck_Newer == {m \in Messages \ aged : Unprocessed(m)}

Stuck == {m \in aged : Unprocessed(m)}

(* The find of recoverUnprocessedMessages, older than its cutoff only. *)
FindStuck ==
  /\ server = "starting"
  /\ server' = "recovering"
  /\ recovery' = Stuck
  /\ UNCHANGED <<webhookVars, documentVars, queueVars, workerVars,
                 aged, redisUp, boundVars>>

(* Mutant: the loop insists on a message until its job is added. *)
RecoverMessage_Insists(m) ==
  /\ server = "recovering"
  /\ m \in recovery
  /\ redisUp
  /\ AddJob(m, log[m] = "open")
  /\ recovery' = IF job[m] = "absent" THEN recovery \ {m} ELSE recovery
  /\ UNCHANGED <<webhookVars, documentVars, workerVars, server, aged, redisUp,
                 boundVars>>

(* One iteration of its loop: the open log is looked up, the job is added; *)
(* a rejected add is logged and the loop goes on.                          *)
RecoverMessage(m) ==
  /\ server = "recovering"
  /\ m \in recovery
  /\ recovery' = recovery \ {m}
  /\ \/ /\ redisUp
        /\ AddJob(m, log[m] = "open")
        /\ UNCHANGED faults
     \/ /\ faults < MaxFaults
        /\ faults' = faults + 1
        /\ UNCHANGED queueVars
  /\ UNCHANGED <<webhookVars, documentVars, workerVars, server, aged, redisUp,
                 crashes, outages>>

Listen ==
  /\ server = "recovering"
  /\ recovery = {}
  /\ server' = "up"
  /\ UNCHANGED <<webhookVars, documentVars, queueVars, workerVars, recovery,
                 aged, redisUp, boundVars>>

(* The process is gone: handlers, attempts, listeners and the scan with it. *)
Die ==
  /\ server' = "down"
  /\ recovery' = {}
  /\ handler' = [d \in Deliveries |-> IF Active(d) THEN Interrupted(handler[d])
                                      ELSE handler[d]]
  /\ exec' = [m \in Messages |-> "idle"]
  /\ failures' = [m \in Messages |-> {}]
  /\ UNCHANGED <<pos, documentVars, queueVars, alerts, aged, redisUp,
                 faults, outages>>

Crash ==
  /\ server # "down"
  /\ crashes < MaxCrashes
  /\ crashes' = crashes + 1
  /\ Die

(* SIGTERM: no more requests; a shutdown counts against MaxCrashes. *)
Shutdown ==
  /\ server = "up"
  /\ crashes < MaxCrashes
  /\ crashes' = crashes + 1
  /\ server' = "closing"
  /\ UNCHANGED <<webhookVars, documentVars, queueVars, workerVars, recovery,
                 aged, redisUp, faults, outages>>

(* stopMessageWorker: no more jobs are taken, the running ones finish. *)
StopWorker ==
  /\ server = "closing"
  /\ server' = "draining"
  /\ UNCHANGED <<webhookVars, documentVars, queueVars, workerVars, recovery,
                 aged, redisUp, boundVars>>

(* Connections closed: nothing waits for the handlers already answered. *)
Exit ==
  /\ server = "draining"
  /\ Running = {}
  /\ Die
  /\ UNCHANGED crashes

(* 15 seconds are over. *)
ForcedExit ==
  /\ server \in {"closing", "draining"}
  /\ Die
  /\ UNCHANGED crashes

----------------------------------------------------------------------------
(* The environment. *)

MinutePasses ==
  /\ aged' = {m \in Messages : message[m] # "absent"}
  /\ UNCHANGED <<webhookVars, documentVars, queueVars, workerVars, processVars,
                 redisUp, boundVars>>

RedisFails ==
  /\ redisUp
  /\ outages < MaxOutages
  /\ outages' = outages + 1
  /\ redisUp' = FALSE
  /\ UNCHANGED <<webhookVars, documentVars, queueVars, workerVars, processVars,
                 aged, crashes, faults>>

RedisReturns ==
  /\ ~redisUp
  /\ redisUp' = TRUE
  /\ UNCHANGED <<webhookVars, documentVars, queueVars, workerVars, processVars,
                 aged, boundVars>>

----------------------------------------------------------------------------
HandlerStep(d) ==
  \/ MessageExists(d) \/ CreateMessage(d) \/ CreateWebhookLog(d) \/ EnqueueMessage(d)

AttemptStep(m) ==
  \/ CreateParsedOrder(m) \/ RouteConversation(m) \/ MarkProcessed(m)
  \/ ResolveLog(m) \/ CompleteJob(m) \/ FailJob(m)

QueueStep(m) ==
  \/ BackoffEnds(m) \/ RequeueStalled(m) \/ FailStalled(m)

Listener(m) == \E k \in failures[m] : OnFailed(m, k)

Next ==
  \/ \E d \in Deliveries : HandlePost(d) \/ HandlerStep(d) \/ HandlerFault(d)
  \/ \E m \in Messages :
       \/ StartJob(m) \/ AttemptStep(m) \/ Throw(m) \/ QueueStep(m)
       \/ Listener(m) \/ EvictJob(m) \/ RecoverMessage(m)
  \/ Boot \/ FindStuck \/ Listen
  \/ Crash \/ Shutdown \/ StopWorker \/ Exit \/ ForcedExit
  \/ MinutePasses \/ RedisFails \/ RedisReturns

(* What the event loop, BullMQ and the container's restart policy keep     *)
(* going.  Nothing makes a delivery arrive, a minute pass or a call fail,  *)
(* except the validator, which refuses an unparseable message every time.  *)
Fairness ==
  /\ \A d \in Deliveries : WF_vars(HandlerStep(d))
  /\ \A m \in Messages :
       /\ WF_vars(StartJob(m))
       /\ WF_vars(AttemptStep(m))
       /\ WF_vars(m \in Unparseable /\ Throw(m))
       /\ WF_vars(QueueStep(m))
       /\ WF_vars(Listener(m))
       /\ WF_vars(RecoverMessage(m))
  /\ WF_vars(Boot) /\ WF_vars(FindStuck) /\ WF_vars(Listen)
  /\ WF_vars(ForcedExit)
  /\ WF_vars(RedisReturns)

Spec == Init /\ [][Next]_vars

FairSpec == Spec /\ Fairness
----------------------------------------------------------------------------
(* Correctness. *)

(* Every variable keeps its type; a live handler is at a message of its batch. *)
WebhookTypeOK ==
  /\ handler \in [Deliveries -> HandlerState]
  /\ pos \in [Deliveries -> Nat \ {0}]
  /\ \A d \in Deliveries :
       /\ handler[d] = "idle" => pos[d] = 1
       /\ handler[d] \notin {"idle", "done"} => pos[d] <= Len(Batch[d])

DocumentTypeOK ==
  /\ message \in [Messages -> {"absent", "unprocessed", "processed"}]
  /\ log \in [Messages -> {"none", "open", "resolved"}]
  /\ {retries, parsed, routed} \subseteq [Messages -> Nat]

QueueTypeOK ==
  /\ job \in [Messages -> JobState]
  /\ {made, stalls, evicted} \subseteq [Messages -> Nat]
  /\ linked \in [Messages -> BOOLEAN]

WorkerTypeOK ==
  /\ exec \in [Messages -> ExecState]
  /\ failures \in [Messages -> SUBSET (Nat \ {0})]
  /\ alerts \in [Messages -> Nat]

ProcessTypeOK ==
  /\ server \in ServerState
  /\ recovery \subseteq Messages
  /\ aged \subseteq Messages
  /\ redisUp \in BOOLEAN
  /\ {crashes, faults, outages} \subseteq Nat

TypeOK ==
  /\ WebhookTypeOK
  /\ DocumentTypeOK
  /\ QueueTypeOK
  /\ WorkerTypeOK
  /\ ProcessTypeOK

(* A job leaves the queue as completed only with everything done: its      *)
(* message is marked and the log it carries is resolved (processJob), even *)
(* after retries, a crash and a second job for the same message.           *)
CompletedIsSettled ==
  \A m \in Messages :
    job[m] = "completed" =>
      /\ message[m] = "processed"
      /\ linked[m] => log[m] = "resolved"

(* No effect runs ahead of the one before it, whichever attempt, job or    *)
(* process did it: a message is marked after the conversation handled it,  *)
(* which comes after its parse was saved, and a log is resolved after its  *)
(* message was marked (the order of awaits in processMessage, processJob). *)
EffectsInOrder ==
  \A m \in Messages :
    /\ routed[m] <= parsed[m]
    /\ message[m] = "processed" => routed[m] > 0
    /\ log[m] = "resolved" => message[m] = "processed"

(* A delivery whose message is stored and not yet in the queue. *)
Storing(d) == handler[d] \in {"log", "enqueue", "orphaned"}

(* The only ways for a stored message to be left without a job: its own    *)
(* handler has not come to the enqueue, died before it, or the queue has   *)
(* dropped the finished job.  No retry, crash or recovery loses one.       *)
StrandedIsExplained ==
  \A m \in Messages :
    Unprocessed(m) /\ job[m] = "absent" =>
      \/ evicted[m] > 0
      \/ \E d \in Deliveries : Storing(d) /\ At(d) = m

(* A message has one storing handler: no second delivery of it, at         *)
(* whatever moment it comes, gets past createMessage to log or enqueue it, *)
(* and while the first is on its way to the queue no job exists yet.       *)
OneHandlerStores ==
  \A d, e \in Deliveries : Storing(d) /\ Storing(e) /\ At(d) = At(e) => d = e

(* A job exists only for a stored message, and an attempt runs only in a   *)
(* live process on an active job: recovery, duplicates and crashes never   *)
(* put one message in two hands.                                           *)
AttemptHoldsJob ==
  \A m \in Messages :
    /\ job[m] # "absent" => message[m] # "absent"
    /\ exec[m] # "idle" => job[m] = "active" /\ server # "down"

(* Who may touch a message, and when.  This is what makes the properties   *)
(* above inductive: handlers live only in a serving process and the scan   *)
(* only in a recovering one, so the two never meet; a handler past the     *)
(* create is at a stored message and its job is not there before it is     *)
(* added; an attempt has done what its place in processJob says.           *)
HandlerCustody ==
  /\ \A d \in Deliveries :
       /\ Active(d) => server \in {"up", "closing", "draining"}
       /\ Storing(d) => message[At(d)] # "absent"
       /\ Storing(d) /\ Active(d) => job[At(d)] = "absent"
  /\ recovery # {} => server = "recovering"
  /\ \A m \in aged \cup recovery : message[m] # "absent"

AttemptCustody ==
  \A m \in Messages :
    /\ exec[m] = "route" => routed[m] < parsed[m]
    /\ exec[m] = "mark" => routed[m] > 0
    /\ exec[m] \in {"resolve", "return"} => message[m] = "processed"
    /\ exec[m] = "return" /\ linked[m] => log[m] = "resolved"

Custody == HandlerCustody /\ AttemptCustody

(* However often a message fails, is delivered, stalls or is recovered,    *)
(* each job of it parses it (a paid AI call) at most MaxAttempts times and *)
(* once more for each stall: neither duplicate deliveries nor recovery     *)
(* renew the budget of a job that is still in the queue.                   *)
ParsesWithinBudget ==
  \A m \in Messages : parsed[m] <= (evicted[m] + 1) * (MaxAttempts + MaxStalled)

(* The log of a message never counts more retries than its job failed.     *)
RetriesAreFailures ==
  \A m \in Messages :
    evicted[m] = 0 => retries[m] + Cardinality(failures[m]) <= made[m]

(* The dashboard hears at most once of a job, and only of one given up.    *)
AlertedOnceWhenAbandoned ==
  \A m \in Messages :
    /\ alerts[m] <= evicted[m] + 1
    /\ alerts[m] > 0 /\ evicted[m] = 0 => job[m] = "failed"

(* What the failed listener writes and announces, after the job has moved  *)
(* on, means what it says (messageWorker.ts:50-72).                        *)
FailuresAreTold == RetriesAreFailures /\ AlertedOnceWhenAbandoned

(* The abstract ledger, as the documents and the queue hold it. *)
PhaseOf(document, queued) ==
  CASE document = "absent" -> "unseen"
    [] document = "processed" -> "processed"
    [] document = "unprocessed" /\ queued = "absent" -> "stored"
    [] document = "unprocessed" /\ queued = "failed" -> "abandoned"
    [] OTHER -> "queued"

phase == [m \in Messages |-> PhaseOf(message[m], job[m])]

handled == {m \in Messages : routed[m] > 0}

Ledger == INSTANCE MessageLedger

(* The pipeline implements the ledger: every step of a handler, worker,    *)
(* listener, recovery scan or crash is one of its steps or none.           *)
ImplementsLedger == Ledger!Safe

(* And with the fairness above a queued message is always settled.         *)
ImplementsLiveLedger == Ledger!Live

(* A delivery that was answered comes to an end, unless its process dies:  *)
(* an unreachable Redis delays the enqueue and never blocks it for good.   *)
HandlersEnd ==
  \A d \in Deliveries : Active(d) ~> handler[d] \in {"done", "aborted", "orphaned"}

(* A message that was left unprocessed for more than a minute when the     *)
(* process died is, after the restart, processed or given up with a failed *)
(* job, provided no call of the scan fails (recoverUnprocessedMessages).   *)
OldStuckIsRecovered ==
  \A m \in Messages :
    (server = "down" /\ m \in aged /\ Unprocessed(m) /\ faults = MaxFaults)
      ~> (message[m] = "processed" \/ job[m] = "failed" \/ evicted[m] > 0)

(* A process that starts gets to serve requests, whatever it finds to      *)
(* recover and even with Redis away at first, or dies again.               *)
StartupCompletes == server = "starting" ~> server \in {"up", "down"}
=============================================================================
