# InboxOrder in TLA+

InboxOrder takes orders over Facebook Messenger: a webhook stores the messages a
page receives, a queue and a worker parse them, a bot asks the customer for what
is missing and creates an order, and a dashboard shows the orders to the shop's
staff. The backend is one Node.js process over MongoDB (through Mongoose) and
Redis (through BullMQ); there are no tests in the repository.

This directory holds a model of that code, checked by TLC on small instances,
and theorems about the model, proved by TLAPS for instances of any size.
`PROJECT.json` maps each definition to the lines it models, and lists the runs,
the hazards, the findings and, for each property, a mutation of the code's model
that breaks it. A file is named by its last component, `backend/src/` or
`frontend/src/` left out.

Run `tlc -config PipelineSafety.cfg MCMessagePipeline` and the like, with the
module each run names in `PROJECT.json`, and `tlapm` on the modules whose names
end in `Proofs`.

## Inventory

| Component | State it keeps | Operations | Talks to |
|---|---|---|---|
| Webhook (`modules/webhook`) | Message, WebhookLog documents | receive a delivery: for each message look up, create, log, enqueue | Facebook pages, queue |
| Queue and worker (`queue/`) | BullMQ jobs in Redis; ParsedOrder; `processed` | add, run, retry with backoff, fail, requeue stalled; recover unprocessed messages | parser, conversation, realtime |
| Process (`server.ts`) | connections, worker | start, recover, listen, shut down, be killed and restarted | all of them |
| Rigid bot (`conversation/conversationBot.service.ts`) | ConversationState document | apply a reply, ask, ask about the open order, finalize | customers, orders, finalizer |
| Order finalizer (`conversation/orderFinalizer.ts`) | - | update the customer, cancel the replaced order, create the order, count, notify | customers, orders, notifications |
| Grok agent (`conversation/grok*.ts`) | GrokConversationState (history, draft, decision) | a loop of model calls and tools | finalizer, Grok API |
| Customers | Customer | find or create, update, count orders, list | |
| Orders | Order, OrderStatusHistory | create, change status, cancel by system, correct, list | realtime |
| Hybrid parser (`parser/`) | AiLog | rules, then AI below a confidence | AI API |
| Authentication | User, RefreshToken | log in, rotate, log out here or everywhere | |
| Facebook pages | FacebookPage; pageId and token of the Tenant; the list a login found, in Redis | connect by hand, by login, by selection; disconnect, rotate a token; look up a page | Graph API, platform settings |
| Platform settings | PlatformConfig and its cached copy | read, update, reload | |
| Realtime, notifications | NotificationLog; sockets | push, list, mark read | dashboard |
| Dashboard stores, API client (`frontend/`) | lists of orders and notifications; tokens | fetch, apply a push, refresh a token | API, sockets |
| Analytics, store profile, plumbing, views | nothing of their own | queries and rendering | |

What is hard in each, and what makes it right:

- **Pipeline.** Facebook redelivers; the check for a duplicate and the create are
  two calls; the document and the job are in two stores with a crash possible in
  between; a job is retried up to four times, restarted when its worker dies, and
  found again by a scan that runs while the worker already does. Right means: no
  message lost without a named reason, none with two handlers or two jobs, effects
  in order, attempts bounded, startup and handlers that end.
- **Rigid bot and finalizer.** Five jobs run at once and nothing groups them by
  customer; every attempt works on a copy of a document that others save and
  delete; a retry starts over in a conversation that has moved on; finalizing is
  seven calls. Right means: orders are complete, an order is not cancelled for
  nothing, a conversation ends only in an order, duplicates have a cause.
- **Grok agent.** The model chooses the order of tool calls; three fields are saved
  from a snapshot taken before the calls to the model. Right means: no order with
  missing fields, no replacement the customer has not confirmed.
- **Orders.** Status and history are written by separate calls, by staff and bot.
  Right means: the history chains and ends in the status, unless changes overlap.
- **Authentication.** Rotation is find, delete, store; several tabs and a logout
  from everywhere interleave. Right means: a used or revoked token is dead.
- **Facebook pages, settings.** Find, then write; write, then reload a cache, while another
  does the same; two documents that both may name a page. Right means: one owner per page, what a tenant
  was answered is so until another request undoes it, a cache that settles on the stored document.
- **Dashboard.** Pushes and fetches arrive in any order, and only in a room that is asked for
  each time a socket connects. Right means: the list converges to the stored orders, each once.
- **Parser.** Thresholds and rounding; a call with three places to fail, logged on each.
  Right means: a result its schema accepts, no needless call, none without a trace.

## Modules

| Module | What it is |
|---|---|
| `MessageLedger` | What the pipeline promises of a message: abstract |
| `MessagePipeline` | Webhook, queue, worker, recovery, process life cycle |
| `MCMessagePipeline`, `MCPipelineClaims` | Instances; sentences of the repository that the pipeline refutes |
| `MessagePipelineProofs` | Theorems of the pipeline |
| `OrderIntake` | What a bot promises of a conversation: abstract |
| `OrderFinalizer` | Attempts, Customer and Order documents, `finalizeOrder`: for both bots |
| `FinalizerProofs` | Lemmas about its steps, for the proofs of both bots |
| `ConversationBot` | The rigid bot: EXTENDS OrderFinalizer, implements OrderIntake |
| `MCConversationBot` | Instances of it |
| `ConversationBotProofs` | Theorems of the rigid bot, and that it implements OrderIntake |
| `GrokAgent` | The AI agent: EXTENDS OrderFinalizer |
| `MCGrokAgent`, `MCGrokClaims` | Instances; a comment the agent refutes |
| `GrokAgentProofs` | Theorems of the agent |
| `Sessions` | Token pairs, their rotation on the server, the dashboard's tabs and API client |
| `MCSessions` | Instances of it, and a comment it refutes |
| `SessionsProofs` | Theorems of `Sessions` |
| `OrderStatus` | Changes of an order's status, by staff and by the bot, and their history |
| `DashboardFeed` | EXTENDS OrderStatus: rooms, sockets, events and fetches, and the list a tab shows |
| `MCDashboardFeed` | Instances of both, and a sentence of the README they refute |
| `DashboardProofs` | Theorems of `DashboardFeed`, with those of `OrderStatus` |
| `PlatformConfig` | The platform's configuration, its admin form and its cached copy |
| `HybridParser` | EXTENDS PlatformConfig: rules, the call of a language model, the schema |
| `FacebookPages` | EXTENDS PlatformConfig: connecting, disconnecting and serving pages |
| `Integrations` | The three together: a change of the configuration reaches both others |
| `MCIntegrations` | Instances of it |
| `IntegrationsProofs` | Theorems of `Integrations` |

### MessagePipeline

One action per `await`: Node runs the code between two awaits without
interruption. A Mongo call either takes effect and returns or does not take
effect and throws; that it takes effect and its answer is lost is covered, as far
as the stores can tell, by a crash just after it.

| State | Code |
|---|---|
| `handler[d]`, `pos[d]` | the place of `handleWebhookEvent` in delivery `d`'s batch; "orphaned" is a handler that ended between create and enqueue |
| `message`, `log`, `retries`, `parsed` | `Message.processed`, `WebhookLog.resolved` and `.retries`, ParsedOrder documents of a message |
| `routed` | how often the conversation was given the message (kept for properties) |
| `job`, `made`, `stalls`, `linked` | the BullMQ job: state, `attemptsMade`, stalled counter, whether it has a `logId` |
| `exec` | the place in `processJob`; "idle" with an active job means its worker is dead |
| `failures`, `alerts` | runs of the `failed` listener still to come, `emitWebhookFailure`s |
| `server`, `recovery` | the place in `main` and in the loop of `recoverUnprocessedMessages` |
| `aged` | messages older than the recovery's cutoff of a minute |

`AddJob` is `queue.add` with `jobId`: ignored when a job of that id exists, a
retained finished one included. `EvictJob` is the trimming of finished jobs
(`removeOnComplete: 1000`, `removeOnFail: 500`), which frees the id. Redis being
away makes an add wait (`maxRetriesPerRequest: null`), it does not make it fail.
`Crash` is death at any moment, `Shutdown`, `StopWorker`, `Exit` and `ForcedExit` are
the SIGTERM handler with its 15 s limit; the handlers already answered are not
waited for. The environment has a bound for each of its acts: `MaxCrashes` (crashes
and shutdowns), `MaxFaults` (rejecting calls), `MaxOutages`, `MaxEvictions` (per message).

### OrderFinalizer and ConversationBot

One customer of one page. `pc[m]` is the place of the attempt at message `m`,
`mem[m]` its locals: the loaded document (`base`), as changed (`state`), the loaded
customer. `Workers` attempts run at once. `Reject` is a rejected call: the job is
tried again from the start, until `MaxAttempts`; `Crash` stops all attempts, whose
jobs run again without an attempt counted. An attempt is `Running` while it has the conversation in hand. `Finish` ends that,
and leaves the job at "settle", from where `Settle` makes the writes that end it, `processed` (`messageProcessor.ts:59`) and
the log (`messageWorker.ts:26`). A job is `Busy` until then: it still has a worker, and a failure or a crash
has the message conversed again. `doc` is the ConversationState document;
`opened` numbers them, as `_id` does.

Texts are reduced to what the code finds in them: `Text[m]` says whether the
message has a phone number, a number, an email, only digits, the word both or
keep; `Parses[m]` is what a parse may return - a set, since an attempt calls the AI
anew. A name, product, phone, address or email is represented by the message it
came from, so a property can tell whose answer is where. `orders` is oldest first; its fields
`conversation`, `decision` and `cancelledFor` are not in the document and are only for
properties.

Two facts about Mongoose carry weight: `save` writes only the fields that were
changed since the load, over whatever the document has become (`Saved`), and
rejects when the document is gone; `deleteOne` is by `_id`, so it never deletes a
later conversation. `ReadCustomer` is one action although it is long: what follows
`Customer.findOne` is computed without another await.

Messages may be handled in any order: they are queued in order, but the AI, retries
with backoffs of minutes and five concurrent jobs reorder them.

### GrokAgent

An attempt is a turn: one message, up to `MaxIterations` requests to the model. `doc`
is the GrokConversationState document, `opened` numbers them, and `overlapped` (kept
for properties) says whether two turns have ever run at once. `mem[m]` is what a turn holds:
the document as the upsert returned it and as the tools have changed it (`state`), the
loaded customer, the open order it has found (`candidate`),
`decisionResolvedBeforeThisTurn` (`decided`) and the requests made (`round`).

The language model is arbitrary. It may answer, fail to, or call tools: `Tells[m]` is
the family of sets of facts it may take from message `m` at once, and it may resolve a
pending order and finalize at any time. What is modelled of `grokTools.ts` is what each
tool changes and what `finalize_order` refuses. `CallTools` is one step for one response because
no tool awaits before `finalize_order` is accepted; from there the steps are the finalizer's.

- `PersistState` writes the *whole* draft of the copy and, of decision and
  resolution, what is defined: Mongoose 8 drops undefined values from a `$set`. All these writes,
  and `DeleteState`, find the document by customer, not by `_id`, unlike the rigid bot's.
- `CallFails`: a request to the model never throws (`grokChatCompletion` returns null,
  which is `NoResponse`); what may throw where the model stands at "ask" is the catalog
  lookup before the first request.
- Left out: the prompt, the recovery of tool calls written as text (it yields tool
  calls like any other), the catalog, the contents of the history (the messages that are in it
  are kept), `emailAsked`, which nothing reads, and a name of digits, which counts as none.

Unlike the rigid bot the agent does not implement `OrderIntake`. When turns overlap, a
slot that one has filled is emptied by the other's write, and a slower turn deletes the conversation
the customer has opened since. The comment at `grokAgentBot.service.ts:133` knows the race
("narrowing the same class of race") and claims no more, so no finding states it. The properties that
need it are conditioned on `~overlapped`.

### Sessions

One user in one browser. A pair of access and refresh token is the number of its issue: both
halves are stored and removed together, in one callback. `live` are the pairs with a RefreshToken document,
`fresh` those whose access token has not expired, `stored` is what local storage holds for all tabs.
Of a tab, `signedIn` is whether `accessToken` of its auth store is set - nothing but its own login and logout ever
changes that - `page` is where the router has taken it, `refresh` the exchange it waits for
(`isRefreshing`) with the place of `refresh` in `auth.service.ts`, `leaving` the pair its logout has sent.
`call[c]` is a call of the API: sent, denied, queued (`failedQueue`) or the one that has started the refresh;
`retried` is `_retry`, which a queued call is not given.

`Landing` is where a push of the login page ends: the guard redirects a tab whose store is signed in to the dashboard.

Left out: a tab that is reloaded and loads the profile before its first page; the three calls of the login form,
which are one step, and wrong passwords; a second click on logout while the first waits; a server that goes on with a refresh
whose answer can no longer arrive before the client has given up (the model loses the answer at the end, or stops the server).

### OrderStatus and DashboardFeed

A change of a status (`updateOrderStatus`, `cancelOrderBySystem`) is `FindOrder`, `SaveStatus`, `RecordStatus` and an
announcement, with `change[c]` its place and what it has read; a creation is `CreateOrder` and an announcement
(`opening`). Any status may be set, to any other or to itself, as the code has no transitions of its own; set to
itself, Mongoose saves nothing, and the history gets its entry all the same. `overlapped` and `broken`, kept for
properties, are the orders of which two changes were once under way together, and of which a call has failed.

A tab has up to two sockets (`Sockets`), since `connect()` of `useSocket.ts` replaces one that is still connecting and does
not close it; `current` is the one its variable holds. `join:tenant` is emitted by the connect handler on *that* one, kept
(by socket.io) while it is not connected. `inbox` is what is under way on a socket, in order; what a room is sent while a
socket is out of it never comes. `shown[t][o]` are the entries of an order in the list, since an order pushed and fetched
may be there twice; `fetch[t][f]` are requests for the list, whose answers may overtake each other and the events.
`missed[t]` is kept for the property: the orders whose last change the tab need not know of, and why.

One tenant; all orders on one unfiltered page. With filters an order may be shown that the filter excludes, which is
visible in one step and has no state of its own. The two sockets never share a tab's room with other tabs' events, so a second tab adds nothing.

### PlatformConfig, HybridParser, FacebookPages, Integrations

*PlatformConfig.* `doc` is the one document, `cache` the resolved copy, `update[u]` an admin's form and the place of
`updatePlatformConfig`: write, load, assign. The form is filled with the resolved view and sends back all it shows but
secrets, which is what `AdminConfigView.vue` does: a value of the environment is thereby stored when anything is saved. A field is
`Unset` or one of `Values`; several fields of the code that are used together (an app's id and secret) are one.

*HybridParser.* A text is what the patterns find in it, an answer what `validateAiResponse` finds in its fields;
confidence and quantities are in tenths, as the thresholds (0.7), the weights and `Math.round` need no more. `parse[p]` is the place
in `parseWithAI`: the headers (`Fetched`), the body, the log, the validation, each of which may fail, and the log of the error
that follows. The timer is cleared once the headers are there, so that `ReadBody` may be never; no liveness is claimed.

*FacebookPages.* `page` are the FacebookPage documents, which are never deleted, `tenantPage` the page on the Tenant's own,
`request[r]` a request with the pages it still has `todo`, the document it has found (`seen`) and those it was told are done (`did`). The token
a request brings is named by the request, so a property can tell whose token is in use. `subscribed` is Facebook's side (external). `ExpirePending`
is the ten minutes of the list in Redis. `disturbed[r]`, kept for a property, is what others have done to the pages of `r`
since it found them.

*Integrations* lets the three run side by side: a step of one leaves the others alone, and `Restart` takes all. What joins them is `cache`,
read twice by a login (`ExchangeToken`; the app may change between the two, and Facebook then refuses the token) and once by an
attempt at a message.

Left out: the encryption of tokens, the signed state of a login, its prompt and scopes, the wording of the prompt.

## Runs

| Run | Expect | Question |
|---|---|---|
| `PipelineSafety` | pass | Is a message ever lost without reason, stored twice, in two hands, marked early, parsed beyond its budget? |
| `PipelineLive` | pass | Do handlers, startup, recovery and queued messages come to an end? |
| `ClaimDuplicateSkipped` | violation | `webhook.service.ts:67`: are duplicates just skipped? |
| `BotConcurrent` | pass | Two attempts at once: are orders whole, cancellations covered, the intake's promise kept? |
| `BotOneWorker` | pass | Without concurrency: does the stage fit the draft, is what is finalized accepted, and what explains a second order? |
| `GrokTurns` | pass | Whatever tools the model calls: are orders whole, decisions confirmed, and is nothing forgotten? |
| `SessionTabs` | pass | Do calls end, and does the browser keep a pair that works, whatever its tabs do at once? |
| `ClaimRedirect` | violation | `stores/auth.ts:34`: does the interceptor take a tab whose refresh has failed to the login page? |
| `ClaimDecisionRoundTrip` | violation | `grokAgentBot.service.ts:58`: has the customer always been heard between decision and order? |
| `OrderFeed` | pass | Does the history account for the status, and the dashboard show what is stored? |
| `ClaimRealtime` | violation | `README.md:118`: does an open dashboard hear of what happens? |
| `Integrations` | pass | Are pages the tenant's who connected them, parses storable, calls logged, the cache current? |

**PipelineSafety** (1.6 million states). One message in two deliveries,
the second behind a message the handler skips; a second delivery is the least that
races, and a batch of two the least in which an error drops something. Two deaths
allow a crash, a restart and a crash in the recovery; two attempts make one retry
and one final failure, which is all the code distinguishes (`<` or `>=` the limit);
one stall is BullMQ's own limit, and the second death takes a job past it; one
eviction frees an id once. `Concurrency` of 1 loses nothing here: two messages never share state.

**PipelineLive.** One delivery of two messages, the second of which never
validates, a crash and an outage. Fairness: a step that a live process is about to
take is taken (event loop), a waiting, delayed or stalled job is picked up (BullMQ's
timers), the process is started again (docker-compose, `restart: unless-stopped`),
Redis returns, and the 15 s limit of a shutdown expires. Nothing is assumed of deliveries, the
passing minute (so a message that never becomes old is never recovered) or crashes.
`m \in Unparseable /\ Throw(m)` is fair because the validator is deterministic.

**BotConcurrent** (2.7 million states). Four messages: an order, the quantities 2 and 0, and an
answer to the question about the open order. Two attempts run at once, the least that race: one may load, wait and save
while any number of others, one after the other, have changed what it has loaded; four messages also leave room for
a failed one to be tried again in between. `OneInterruption` allows one failing call or one crash, at
any call, those that end a job included. The customer has ordered before, with or without an
address. Zero is there because `!draft.quantity` and `min: 1` treat it as missing and as invalid.

**BotOneWorker** (3.1 million states). Seven messages in any order - two orders, a name, a phone number, the quantities 2 and 0,
and an answer to the question about the open order - of a new or a
returning customer, with one interruption: one conversation can run from the first question to the order, or two can follow
each other with the question about the open order in between.

**GrokTurns** (4.5 million states). Two messages - one names a product, the other the
customer's details - in any order, overlapping or not, each of up to two requests; two is the least
in which what the first response saved is seen by a second one of the same turn, and the least that
reaches the limit. The constraint `OneInterruption` allows a failing call or a crash but not both, and no crash together with
a change by staff; a second retry is of the same kind. Staff
may ship the open order while the customer is asked about it: any status that is not open does the same.

**SessionTabs** (0.9 million states). Two tabs, one with two calls so that one may wait for the other's refresh.
Of expiries, sign-ins, logouts, withdrawn tokens and failing exchanges there are `MaxEvents = 3` together: one to have a
refresh at all, and two that may cross it. `MaxPairs` bounds the pairs by holding back new calls, not refreshes,
so that it cannot stop a call under way; without it two tabs could sign each other out and in
for ever. Fairness: calls end and tabs react (the browser's event loop and network stack; the refresh has no timeout of
its own); nothing is assumed of users, logouts, or time.

**OrderFeed** (1.7 million states). One order, created while the tab loads, a change by staff and one by the bot, two fetches, so that
one answer may overtake the other. `OneInterruption` allows one lost connection, failing call or death of the server. Orders
do not interact - each has its own history and its own entries - and a second change is the least that overlaps. The two
fetches are alike (symmetry).

**Integrations** (0.4 million states). Two admins, so that two loads may cross, two tenants with two pages, as a
selection of two is the least that is left half done, and three requests: one that is answered, one that undoes it and one in
between; one attempt at a message, with each combination of what adds to its confidence and each answer with one field out of the
ordinary. The parser and the pages share only the configuration, which neither changes, so `MCNext` does not interleave them
with each other, and `Few` lets an update go only with one parse or login, up to the list of pages, after which a login reads no configuration.
`IntegrationsProofs` proves the same properties of the unrestricted `Spec`.

Deadlock is not checked: when the messages are dealt with and the bounds used up, nothing is left to do.

### What the properties say

Pipeline: `StrandedIsExplained` - a stored message without a job has a handler
on its way, or one that died, or its job was evicted; `OneHandlerStores`; `AttemptHoldsJob`;
`CompletedIsSettled`; `EffectsInOrder`; `ParsesWithinBudget`; `FailuresAreTold` - a log counts no retry that was not a
failed attempt, and the dashboard is told of a message at most once per job, only when it is abandoned;
`ImplementsLedger`, the refinement. `Custody` is the strengthening
that the proofs need, checked by TLC before it was proved.

Bot: `OrdersAreComplete` is the most surprising of them, since `Order`'s schema asks
neither for a phone nor an address and the draft is a stale copy: it holds because details
are only ever added, to draft and customer. `CustomerIsCovered` - the
replaced order is cancelled before the new one exists, but the conversation survives any
failure in between, and closes only after an order was created; and the customer's counter never exceeds the orders.
`ImplementsIntake` says the same of
conversations: slots fill and never empty, no close without an order; it does not say one order
per conversation, which is false. `SecondOrderIsRetry` and `OpenOrdersAreWanted` say what, with one
worker, a second order is due to. `StageAsksWhatIsMissing`: between messages the stored stage is the question
the stored draft calls for; under concurrency or retries it need not be. `FinalizedIsAccepted`: the schema of Order takes no quantity
below 1, while the draft takes any number there is in an answer; with one worker, and whatever is tried again, a draft reaches
the finalizer only after `findNextMissingStage` has found it whole. With two workers this is false: a copy that holds the answer 0
may be saved over a draft that is waiting for its decision, and `Order.create` then rejects at every attempt.

Agent: `DecisionIsTheCustomers` has two halves. A decision and its resolution are on record together, though partial
updates of two turns write them and two tools read them: were one there without the other, `finalize_order` would wait for a
decision that `resolve_pending_order` refuses to take. And an order is placed under the decision
of another message than the one that confirms it, unless the message is tried again.
`NothingIsForgotten` and `OrdersAreWanted` are what is left of the
intake's promise while turns do not overlap. `OrdersAreComplete` is the rigid bot's, of the same `finalizeOrder`; it
needs no condition here, since the check and the order use one and the same copy.

Sessions: `StoredIsLive` relates local storage to the server's documents, across rotations, logouts and sign-ins of
several tabs: a pair whose refresh token is gone is kept only as long as the tab that deleted it takes to replace or clear it.
`SignedOutForACause` says what may sign the browser out; two tabs that refresh at once are among the causes, since the
slower one finds no token and clears the faster one's pair. `CallsEnd` is about
the queue of the interceptor: the only way out of it is the end of a refresh, on each path.

Orders and dashboard: `HistoryTells` - three calls per change, of staff and bot, and still a status that the history does not know
means a change about to be recorded or a failed one; the entries chain as long as no two changes overlap. `ShownIsStored` - an event corrects
whatever is shown and an answer replaces it, neither looking at which is newer; the property says exactly when that is
right once all is quiet, and its exceptions are the races of `missed`.

`FailedRefreshReachesLogin`, which `ClaimRedirect` refutes, is about the one step in which the interceptor gives up, and not about logging out.

Integrations: `CacheSettles` names overlapping loads as the only way, without failures, to a stale cache. `OnlyZeroIsRejected`: the schema of ParsedOrder is stricter than the two parsers in one
point only. `LogsTell` relates the log to the result over all the ways a call can fail. `ReportedIsServed` relates what a request
answered to what `resolveTenantId` and the send token then do, through other requests that interleave with it, and the older
page on the Tenant. `BadgeIsHonest` relates it to Facebook's side. `OwnerNeverChanges`: nothing but the unique index keeps
two tenants apart.

### Findings

1. `webhook.service.ts:74`: two deliveries race past `messageExists`; the duplicate-key
   error of the second leaves the loop, and the messages behind it are lost.
2. `grokAgentBot.service.ts:60`: a turn stores its decision before it has ended; when it
   fails after that, the retry of the same message takes the decision for one of an earlier turn, and may order.
3. `client.ts:32`: when an exchange fails, `clearAuth` does not reach the auth store, so the router's guard (`router/index.ts:91`)
   sends the tab from the login page back to the dashboard, without a pair. The run shows it in six steps: a call is sent, its
   token expires, it is denied and starts a refresh, the exchange fails, the interceptor gives up. (Logging out has the same effect, `AppLayout.vue:256`:
   the push comes before the store is cleared; no text promises otherwise.)
4. `useSocket.ts:21`: on a page loaded with a stored token the socket may connect before the profile is there, and then joins no
   room until its connection is lost.

Disagreements noticed that no run shows:

- `server.ts:37` re-enqueues "any" message missing from Redis, but the scan's cutoff (`messageWorker.ts:97`) hides one of the last
  minute, and there is one scan, at startup.
- `Message.ts:30` has `processed` guard against a second processing; nothing reads it before processing
  (`messageProcessor.ts:59`), and a failure after the conversation makes the retry converse again.
- `ConversationState.ts:4` has the conversation deleted once the order is finalized; a failure after `Order.create`
  (`conversationBot.service.ts:197`) leaves it, a retry orders again, and after the last attempt it stays.
- `docs/architecture.md:40` has the 200 after the message is saved, `webhook.controller.ts:15` sends it before.
- `WebhookLog.ts:11` has `resolvedAt` set also when a job is abandoned, but the log of an abandoned message stays unresolved.
- `README.md:118` promises an alert for every abandoned message, which a crash between the failure and the listener, or the
  stall limit before the fourth attempt, suppresses.
- `docs/architecture.md:45` says a ParsedOrder is always saved, which a quantity rounded to 0 (`aiParser.ts:75`) prevents.
- `platformConfig.ts:106` and `docs/admin-facebook-app-setup.md` have a change take effect on the very next request, which a
  load that overlaps another, or fails, delays to the next load: of two updates at once, one may find the document before the other has
  written it and assign the cache last. `CacheSettles` names this as its exception.
- The connection guide says that a disconnect clears the stored token, which `facebook.repository.ts` keeps, and that it stops
  new messages, which a page that is also on the Tenant document still receives.
- `AiLog.success` is never false: the log of a failed call has its `error` beside `success: true`
  (`docs/qa-findings-2026-08-16.md:15` knows it).
- A correction without prices keeps the old total (`orders.service.ts:39`); a partial update of the settings replaces the whole
  sub-document (`settings.repository.ts:34`), though the dashboard always sends all of them.

## Theorems

Every invariant and every action property of a passing run, and both safety refinements, are theorems of the
specification, from the named assumptions about its constants and nothing else. The assumptions give the constants' types,
keep `None` apart from what may stand in its place, and ask for at least one attempt, worker and request; where something is
counted, also for a finite set (`FinalizerAssumption`: the messages). TLC evaluates them in the runs. The bounds
(`MaxFaults` and the like) are arbitrary numbers in the theorems, so nothing depends on how small a run has them.

`MessagePipelineProofs`, from `PipelineAssumption` (types of the constants, at least one attempt and
one worker), for all messages, deliveries, batches and bounds.

- `TypeCorrect`: the type invariant.
- `Invariance`: `IInv == TypeOK /\ Possession /\ Effects /\ StrandedIsExplained`.
  *Possession* says who may touch a message: handlers live only in a serving
  process and the scan only in a recovering one; a stored message has one storing
  handler, and no job until that handler adds it; an attempt holds an active job.
  *Effects* says what each place of an attempt has behind it. None of the properties
  is inductive by itself: `OneHandlerStores` needs that a message past the create is
  stored; `CompletedIsSettled` needs that the attempt at "return" has resolved its log, and
  `CreateWebhookLog`, which opens a log, keeps it only because no job exists yet, which is Possession.
- `NothingStranded`, `CompletionSettles`, `EffectsOrdered`, `DuplicatesStopAtCreate`,
  `AttemptsHoldJobs`: the properties, from IInv.
- `Refinement`: each step maps to a step of `MessageLedger` or a stutter.
- `ParsesBounded`: from a budget invariant that relates parses to attempts, stalls,
  evictions and the attempt under way.
- `FailuresTold`: from *Told*, which counts the failures the listener has still to hear of: those, with the retries on the log,
  are no more than the attempts made, and those of them that are final, with the alerts raised, no more than the jobs that failed.

`FinalizerProofs` has what the bots share: what each step of `finalizeOrder` does to the documents and to the attempt that takes
it (`FinalizerGoes`, `FinalizerWrites`), that it places no order without its details (`FinalizerSound`) and counts none
before it is there (`FinalizerCounts`, from the counter plus the attempts about to count), and how the numbers of open orders
and of decisions to keep both move (`OneMoreOrder`, `OneCancelled`).

`ConversationBotProofs`, from `FinalizerAssumption` and `BotAssumption`, for all messages, texts, parses and numbers of workers.

- `Invariance`, `TypeCorrect`. An attempt works on copies that are out of date, so the invariant says what a copy still has to do with the
  documents. *CopyIsOlder*: what it changes it fills, and what it has loaded is not emptied later, in the document, if that is still the
  same one, or in the customer. That is why a merge of a stale draft loses nothing and why details once seen complete stay so (*DecidedIsComplete*:
  whoever stands at the question about an open order has all an order needs, in draft or customer). *DecisionFinalizes*: a decision
  is on no stored document; it goes on to the finalizer in the same attempt. *Conversations*: each one there has been is open or has an order.
- `Completeness`, `Coverage`: `OrdersAreComplete` and `CustomerIsCovered`, from it.
- `Refinement`: each step maps to a step of `OrderIntake` or a stutter. The close needs that the order is placed by then, the filling
  of slots needs CopyIsOlder.
- `Acceptance`: `FinalizedIsAccepted`, which holds of one worker through any failures. *Sells*: a stored draft that waits for a
  decision, and one in the finalizer's hands, has a product and a quantity that is not 0; with one worker a copy is the document, so none that
  lacks them can be saved over it.
- `Questions`, `OneOrder`, `WantedOrders`: the other properties that hold of one worker. *Lone* says that no two attempts are busy at once, and of the one that runs: its copy *is* the
  document, what it is about to ask is what is missing, the pending order is open when found and not after it was replaced (*LoneAt*);
  an order of a message that was not tried again has ended its conversation, or is about to (*OrderEnds*); once the pending order is
  closed there is room for another (*Room*).

`GrokAgentProofs`, from `FinalizerAssumption` and `AgentAssumption`, for all messages, facts told, numbers of requests and whatever tools the model calls.

- `Invariance`, `TypeCorrect`. Overlapping turns overwrite each other's drafts, so nothing like CopyIsOlder holds. What survives any
  overlap: pending order and decision are on record together, in the document and in each copy (*Decides*), since a turn that finds a candidate has no
  decision and writes both; a message is on record as resolving only after its turn has found an order to resolve (*Heard*); a turn
  with a candidate cannot be finalizing, and has requests left where it asks (*Begun*).
- `Completeness`: `OrdersAreComplete`. The tool's check and the order use one copy, and the customer's details only grow.
- `Decision`: `DecisionIsTheCustomers`, from Decides and Heard.
- `WantedOrders`: `OrdersAreWanted`, which is about turns that do not overlap. *Alone* says of such a turn that its copy holds all that is stored
  and more, and which order it may replace (*AloneAt*), and has the same *Room*.
- `Memory`: `NothingIsForgotten`, an action property, from AloneAt: what a turn writes back, whole, has what was there.

`SessionsProofs`, from `SessionAssumption`, for all tabs, calls and bounds.

- `Invariance`, `TypeCorrect`: *Exchanges* - they are about pairs that were issued; *AnswersAreNew* - the pair that an answer brings
  is in no other tab's hands, so that nobody can have used it up before it is stored; *Alone* and *Untroubled* - while
  there was no cause to sign out, at most one exchange is under way, the stored pair is its subject, and the server has that pair until
  the exchange has deleted it.
- `NoDeadPair`: `StoredIsLive`, inductive with AnswersAreNew. `SignOutHasACause`: `SignedOutForACause`, from Untroubled.

`DashboardProofs`, from `OrderAssumption` and `FeedAssumption`, for all orders, changes, tabs, fetches and bounds.

- `HistoryAccounts`: `HistoryTells`. For orders whose changes overlap it is inductive with the types. That the history
  chains is not: a change about to be recorded must have started from where the history ends. `ChangeInv` says that
  of an order whose changes have not overlapped at most one is under way, that it has found, and unless it has saved still finds,
  the status the history ends in, and that an order that is not stored has neither history nor changes.
- `FeedInvariance`, `TypeCorrect`, `TabsShowWhatIsStored`: `ShownIsStored` is about a tab when all is quiet, so its strengthening *FeedInv* has to say
  what a tab is owed while it is not. *Fresh*: what the list shows of an order, with the events under way about it, *leads* to what was
  announced last - the last event has that status, a new order's first event finds no entry, and any other finds exactly
  one. What was announced last is the stored status, or, of a change that is saved and not yet announced, the one it replaced. *AnswerFresh*: an answer
  that no event or change was near says the same, and no event about the order is under way. *Line*: only the current socket is in the room or going
  there, so that events never come over two; the older of two sockets never joins. *OpeningOK*: changes that do not overlap begin after the order
  was announced, and a pending one has the stored status.

`IntegrationsProofs`, from `ConfigAssumption`, `ParserAssumption` and `PagesAssumption` (finitely many pages, as a login
lists them), for all fields, values, texts, answers, tenants, pages, requests and bounds. The three parts write no variable
of one another (`StepOfParts`), so each has its own invariant.

- `CacheFollows`: `CacheSettles`, from *ConfigInv*: of two updates that are loading each knows of the other, and one that is
  alone and about to assign has loaded what is stored.
- `AskedOnlyWhenUnsure` (`AiOnlyWhenUnsure`, about weights and a threshold in different files; no run checks it), `RejectedForZero`, `CallsAreLogged`: from *AttemptInv*, what each place of an attempt implies of
  its key, its answer, its log and its result. A key means that the rules' result was not accepted;
  that three findings are enough to be is arithmetic on the weights.
- `AnswersHold`: `ReportedIsServed`. Its strengthening *ServiceInv* says what a request at each place works on
  (*RequestsInv*), that a page with a document has an owner and a token, and that two Tenants never have the same page (*DocumentsInv*),
  that a request about to save has found the owner it works for, and, unless disturbed, the document as it is (*KnownAtSave*), and
  what is still so of what a request did, disturbed in which way (*Kept*). `KnownAtSave` is the point: a save writes only what differs from what
  was found, so a reconnect that has found an active page does not write `isActive`, and a disconnect in between wins.
- `OwnersStay`: `OwnerNeverChanges`. Creates are refused for a page that is there, saves leave the owner alone.
- `BadgesAreHonest`: from *BadgeInv*, which adds who is on the way from the subscription to the mark.
- `TypeCorrect`: the types of all three.

Only model-checked: liveness, which is out of the provers' reach, since fairness is about ENABLED: `HandlersEnd`, `StartupCompletes`,
`OldStuckIsRecovered`, `ImplementsLiveLedger` (its safety half is `Refinement`) and `CallsEnd`. And the runs that expect a violation: a counterexample
is its own proof.

## What is not modelled

- Loss of a lock by a live worker (blocked for 30 s): two attempts at one job at once.
- Redis evicting live queue keys (`allkeys-lru` in docker-compose) or losing data.
- In one iteration of the recovery the log lookup and the add are one step.
- The early returns for a missing message, tenant or customer: nothing deletes them.
- In the bots' modules staff changing an order's status is one step; OrderStatus has its steps. Replies to the
  customer, whose errors are swallowed; the catalog lookup, which only reads.
- Corrections of an order's items: one read and one save, of fields no change of a status writes.
- The log of notifications and the bell: one create, one update by id, and an event that a later fetch repeats.
- A tenant's settings and Grok key: single updates. The models that read them take any value at any time.
- Filters and pages of the list of orders, and views that call the API once and show the answer.
- Registration, roles and profile; analytics, store profile, product catalog, seeds, logging, HTTP plumbing: queries, single
  upserts, scripts and wiring, with no state of their own across two steps.

## Plan

Every component with state that more than one step works on has its module, and every safety property a run checks is proved. What would add something:

1. Theorems that no run states because they are about the instance's size: how many jobs, alerts or orders there are at most as a
   function of the bounds, for all of them at once.
2. What one step may never do, as action properties beside the invariants: a settled message is not touched again; an issued pair, once
   deleted, never returns.
3. The six hazards without a property (`PROJECT.json`): a lost lock of a live worker and a logout between two calls of a rotation need
   more steps in their models; an alert lost in a crash, an order cancelled after it was shipped, a cache left stale and a total that is not recomputed are what the code does, and a
   property of them would first need to be promised.
