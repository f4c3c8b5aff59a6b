# OmniBot in TLA+

OmniBot is a customer-service backend: webhooks of chat platforms come in, a
message pipeline answers from a knowledge base or a language model, and what it
cannot answer is escalated to human agents at a web workbench. The Python
service lives in `03-development/src/app`; paths below are relative to it.

This directory holds the verification project of that service: TLA+ modules
translated from the source, TLC configurations that check them on small
instances, and TLAPS proofs of what holds for every instance.

    tlc -config AgentPortal.cfg MCAgentPortal.tla     # any run of the table below
    tlapm AgentPortalProofs.tla                       # any of the eight proof modules

`PROJECT.json` lists the runs, the source lines of every definition, the hazards
that the properties are for, the deliberately wrong variants ("Wrong on purpose"
in the modules) that each property rejects, and the findings.

## 1. The system

### Components, their state and what is hard about them

| Component | State | Operations | Hard because |
|---|---|---|---|
| agent inbox (`admin/portal.py`, `api/portal_router.py`) | three section lists of payload dicts | new case, claim, resolve | handlers run on pool threads and move cases between lists with no lock |
| escalation queue (`services/escalation.py`) | rows with SLA deadline, agent, `resolved_at` | create, assign, resolve, breaches, compliance | rows are kept beside the inbox and only joined by a task that runs later |
| websocket registry and delivery (`api/websocket.py`, `api/ws_router.py`) | two subscription indices, a bounded queue and a sender, ping and reader task per connection | connect, subscribe, publish, drain, disconnect, ping, pong | slow readers, failed writes, clean-up racing a fan-out, timing of the heartbeat |
| stream consumer (`infra/redis_streams.py`) | in-flight set per processor; the group's pending list in Redis | claim stale entries, read, handle, acknowledge | every Redis call is an await; crashes, lost acknowledgements, competing consumers |
| rate limiter (`infra/rate_limit.py`) | deques per key, or a sorted set in Redis | allow | the clock is read before the lock; eviction; outages |
| circuit breaker and retry (`infra/circuit_breaker.py`) | degradation level, four counters, two switches | reports of latency, failure and success | long sequences of calls from many threads |
| embedding jobs (`infra/jobs.py`) | queued jobs with a retry count | enqueue, process, retry, cancel | a queue that fails for some jobs of a call; a cancellation that scans it across awaits |
| dialogue state (`core/dst.py`) | FSM state, slots, turns | transition, slots, confirmation, escalation | three side channels move the state besides the transition table |
| message pipeline (`core/pipeline.py`, `middleware/chain.py`, `api/main.py`, `api/webhooks.py`) | a log of stages, attachments, the answer | let pass or refuse, parse, mask, answer, publish | which failure ends where, what a later stage has already seen, bodies with no or several messages |
| knowledge base (`core/knowledge.py`) | entries, chunks, their jobs | retrieve by tier, chunk, create, import, update, delete | thresholds and offsets at boundaries; two stores changed by one call |
| retraction (`core/response.py`) | what a user sees, the security log | retract on each platform | a window that closes, clients that refuse or raise |
| input defence (`core/paladin.py`, `core/pii.py`) | a worker thread and its loop per call | classify, answer, block, hand over | two calls that end in either order; a time-out around a thread that makes a loop |
| A/B testing, LLM judge (`services/ab_testing.py`, `services/llm_judge.py`) | experiments, results, cached kappa | route, promote, judge, calibrate | arithmetic at boundaries, partial results |
| media (`services/media.py`, `api/media_router.py`) | attachments, a transaction | scan, insert, commit | a scan time-out around a thread, several files in one transaction |
| agent execution engine (`services/aee/*`) | agent cards, pinned addresses, the process's resolver, a thread pool, child processes | call tools, agents and scripts | two cache lifetimes, a process-wide patch, a small pool, children that ignore signals |
| M2M tokens (`api/webhooks.py`) | a store in memory and its file | create, revoke, validate, load | a file rewritten in place |
| GDPR and RBAC (`admin/gdpr.py`, `admin/rbac.py`, `api/auth.py`) | vault, index by user, audit log; tokens | store, delete, decrypt; log in, enforce | one secret for all kinds of tokens |
| knowledge administration (`admin/webui.py`) | rows of a transaction, counts shown | CRUD, CSV and JSON import | savepoints, and a commit that may fail after the counting or be done and not heard of |
| tracing (`infra/observability.py`) | a stack of spans per context, a log | open, close, current trace | tasks inherit the context and with it the list |
| reports, pages, configuration, schema, front end | | | pure I/O, queries and wiring |

### How they interact

* `EscalationManager.create` stores a row and pushes the case to a pusher;
  `_AgentPusher` schedules `_publish` as a task on the event loop;
  `_publish` files the case in the inbox and queues an event for every connection
  subscribed to `/ws/agent`. The call that created the case does not wait for it.
* The claim and resolve routes work on the inbox alone. Neither tells the queue.
* A connection's reader, sender and ping tasks share its queue and its last-pong
  time, and the registry with all publishers, on one event loop.
* Stream consumers meet only in Redis: several tasks may share one processor and
  its in-flight set, other processors run in other processes.
* Rate limiter, circuit breaker and dialogue state are called by any thread, under
  their lock.
* A request passes the middleware chain as `build_app` installs it (signature, address
  and permission stages that accept everything, then the rate limiter), and a route, which
  parses the body and runs the pipeline on its first message: defence, mask, dialogue state,
  knowledge, emotion, response. The web route then looks attachments up and publishes an event.
  `RequestPath` is this composition.
* Creating, importing and updating knowledge leaves jobs in the queue; deleting it
  is meant to cancel them. `KnowledgeJobs` composes `core/knowledge.py`, `infra/jobs.py` and the
  delete route.

### What makes each component correct

* inbox: a case is in exactly one place, is never lost, has one owner, is closed for
  good; answers are true; every claim and resolve returns. In short: it implements an atomic
  life cycle (`CaseLifecycle`).
* queue and hand-off: a pushed case arrives; a breach stands until the case is
  resolved in the queue.
* delivery: a client sees events once, in order, and misses only what met a full
  queue; a client that reads gets its queue, whatever other clients do. Heartbeat: a
  punctual client stays, a silent one whose socket takes the pings is dropped.
* stream: nothing is acknowledged unhandled, repeats need an idle time-out, and where XCLAIM
  is answered with ids everything that can be handled is.
* limiter: a prompt request is one of at most `Limit` in its window.
* breaker: recovery takes one streak per level.
* dialogue: it implements the documented flow (`DialogueFlow`).
* request path: behind the mask nobody reads raw text; "ok" comes after all stages or of a
  body without messages; what is pushed is what the caller is answered.
* defence: a text called an injection is never answered; a thread that was
  started for a call ends.
* knowledge: no token of a text is lost or indexed twice; ungrounded text is passed on; a job
  reported as queued is queued; an import never reports more rows than are stored.
* tokens, vault, access: what was answered survives restarts; erased entries and only
  those are unreadable; what customers may not do only the administrator of the moment may.
* engine: a call of a tool returns while stuck and nesting handlers leave a thread of the pool
  free; no child or patch is left, no card is served beyond its lifetime. Uploads are
  stored whole or not at all.
* experiments and judge: shares follow weights, winners lead, scores are not
  flattered, agreement by chance does not pass.
* tracing: every span is logged exactly once, under its parent's trace.

## 2. The modules and the code

| Module | Models | State and actions |
|---|---|---|
| `CaseLifecycle` | what the workbench promises of a case | `stage`, `owner`; arrive, claim, resolve, each atomic |
| `AgentPortal` | `AgentPortal`, `_claim`, `_resolve` | `inbox` is `_inbox`, `item` the payload dicts, `pc` and `call` a handler's position and locals. One action per list operation: look (`FindUnassigned`, in a copy), one iterator position (`ScanHere`), end of list (`ScanEnd`), `remove` (`Take`, or `TakeFails` for its `ValueError`), stamp and append (`FileClaimed`, `FileResolved`) |
| `EscalationHandOff` | `EscalationManager` and the push, composed with `AgentPortal` (EXTENDS) | `rows`, `pushes` (scheduled `_publish` tasks), `now`. `publish` is `on_escalation_new` of the inbox; `PortalThread` is any step of `AgentPortal`'s handlers |
| `WsDelivery` | registry, `_accept_and_run`, `_send_loop`, `_publish`'s fan-out | `subs` and `chanSubs` the two indices, `queue`, `hand` the frame a sender writes, `phase` where the connection's handler is |
| `WsHeartbeat` | `_ping_loop` and pong handling of one connection | ages in ticks of five seconds; `pinger` where the ping task is: asleep, writing its ping (`PingWaits`, `PingWritten`), writing its last message, or gone after a write that failed (`WriteFails`). `Check` is the look at the last pong, behind the write |
| `StreamConsumer` | `AsyncMessageProcessor.consume_loop`, `claim_pending`, `read`, `ack` | `pel` the pending list, `pc`, `cursor`, `page`, `batch` the locals of a task, `inFlight` per instance, `justid` what the client answers XCLAIM with. One action per await; `StartRaises` is the `TypeError` of a pair that is looked up as an id |
| `RateLimiter` | `allow`, `_in_memory_check`, `_redis_decide`, the Lua script | `buckets` (lists of stamps), `zset` (how many members each score has), a pending request's clock reading `now[t]` |
| `CircuitBreaker` | all `record_*` methods and `_step_down_level` | one action per method, whole, as each holds the lock |
| `DialogueFlow`, `DialogueState` | the documented flow of a dialogue; `DialogueState` of `core/dst.py` | `state`, `intent`, `filled`, `turn_count`; one action per method, each under the lock |
| `RequestPath` | the chain of `build_app`, routes and adapters, `Pipeline.handle_message`, attachments, the pushed event | `stage[q]` where a request is, `sent[q]` what its body held, `log[q]` the stages run, `read[q]` which text each saw, `attached` and `pushes` what was answered and pushed; adapters and stages may raise, requests interleave at the awaits |
| `Paladin` | `PALADINPipeline.process` with classifier (L4) and answer (L3) | `layer3`, `layer4`, `risk`, `result`; at medium risk both run at once |
| `CoroHandOver` | `_await_coro_from_sync` | `caller` and `runner` by statement, `posted` what was called on the loop from outside; cancellation and stop are modelled as asyncio defines them |
| `Retrieval` | `HybridKnowledge.query`, `_llm_generate`, `Chunker` | a question with the outcome of every tier; texts up to a bound cut into chunks |
| `KnowledgeJobs` | creation, import, update and deletion with their jobs, workers, cancellation | `jobs` with the keywords each was queued with, `reported` what the caller was told of each, `rows`, `deletion` a scan in progress; `client` and `session` are what was wired in |
| `Retraction` | `retract` on all platforms | `visible`, `age`, `logged`, `verdict` |
| `M2MTokens` | token store and file | `store`, `file`, `told` what clients were answered; a save is open, dump, close, and the process may stop at each |
| `KnowledgeAdmin` | `RealSQLKnowledgeAdminAPI` | `table`, `import` in progress with its pending rows, `result` the counts, `stored`; a commit is done, refused, or done and not heard of (`unheard`) |
| `MediaUpload` | the upload route, the scanner, `process_file` | `todo`, `txn`, `stored`, the scanning thread |
| `ToolExecutor` | `register`, `execute`, the shared pool | one caller per thread of the service; handlers return, raise, cancel themselves, await for ever, get stuck or execute tools themselves, and a stuck one keeps its thread |
| `AgentCards` | `A2AAdapter`: card cache, pinned addresses, patched resolver | `card`, `pin`, `resolver` (who patches it), `dnsLock` |
| `ChildProcess` | `CLIAdapter` and the stdio calls of `MCPAdapter` | `point` in the method, the child and the signals sent |
| `Erasure` | PII vault, deletion, audit log | one action per function |
| `AccessControl` | `login`, guest sessions, `get_current_user_role`, `enforce`, and what the routes ask (`Asked`) | tokens with subject and expiry, the account of the moment |
| `Experiments` | `ABTestManager`, `ab_test_progress` | a split, results, stage |
| `Judge` | `LLMJudge.evaluate`, `aggregate_csat`, `CalibrationPipeline.run_cycle` | `calls` of both judges, `judgement`, `golden`, `cycle` |
| `Tracing` | `start_as_current_span`, `_get_active_spans` | `stack` per list, `spans`, `finished`; tasks inherit the list |

The eight modules named `...Proofs` hold the theorems about these modules (section 4).

The modules named `MC...` add the model values of the runs and keep the
specifications they extend as they are. `MCService` and `MCWorkers` bring the smaller
components together: these share no state, so the variable `part`
settles in the initial state which of them runs, and the others stay in their initial
states. The state graph is the sum of theirs and not the product, and a property of one part
holds trivially in the others. Where components do share state, they are composed for good:
queue and inbox in `EscalationHandOff`, chain, pipeline and routes in `RequestPath`,
knowledge base, queue and route in `KnowledgeJobs`.

### Abstractions worth knowing

* AgentPortal: stamping a case and appending it to its new list is one step, for
  no list holds the case in between. Reading a copy (claim) and iterating over
  the live list (resolve) differ in the code and differ in the model.
* WsHeartbeat: the writes of the ping task may wait because they share the socket with the
  sender's; the two modules are checked apart, as they share no variable.
* WsDelivery: what happens between two awaits is one step. The two locks are never
  held across an await, so no task ever waits for one. Payload checks of `takeover` and
  `reply` only pick the answer that is queued; all answers are frame 0.
* StreamConsumer: the owner of a pending entry is left out, because XPENDING is asked for
  all consumers and XACK needs no owner. `claim_pending` takes the answer of XCLAIM for ids but
  does not ask for them (`justid`). The fake client of the tests answers with ids, redis-py with
  pairs: `Clients` says which of the two a run looks at. `stream` looks at both, and what needs
  claimed messages to be handled says so (`EventuallyHandled`). Nothing in the code trims the stream.
  The cap on pages (`_PEL_PAGINATION_MAX_BATCHES`, 10,000) is out of reach of the
  bounds. `GrowStale` lets an entry reach `idle_ms` at any moment: time is not modelled further.
* RateLimiter: one platform; stamps are ticks. Members of the sorted set differ only by
  their score, so a set is how many members each score has. Whether a Redis client was injected is
  chosen once, in the initial state (`redis`). A key that met an outage of Redis or lost stamps to
  an eviction is excused from then on.
* CircuitBreaker: a counter stops at its threshold, since the code only asks
  whether it has been reached.
* Text is what the properties need of it: "raw" or "masked" (RequestPath), called an injection or not
  (Paladin), an interval of token numbers (Retrieval).
* Scores, means and confidences are whole percents; weights are shares of
  `BUCKET_MODULUS` buckets; a user's hash is any bucket.
* RequestPath: an outcome is taken from a set where the code computes it (a limiter that lets
  pass or refuses, a stage that raises, rows found or not). Which rows belong to whom is not modelled: the
  conversation is named by the client, and the event goes to every subscriber of `/ws/user`.
* KnowledgeJobs: `client` is none, one without `.redis`, or one with it, and takes a job with a
  positional argument, as the clients of the tests do. `session` says whether `get_session()`
  is the code's own generator or a test's context manager, without which no deletion gets as far
  as the scan; `delete_kept` looks at both.
* ToolExecutor: a handler is stuck when its time-out does not free its thread: a coroutine that blocks
  its loop, or a function that never ends, for whose thread `asyncio.run` waits.
* AccessControl: a token that was not signed with the secret is the same as none.

## 3. Runs

| Run | Question | Bounds, and why they are enough |
|---|---|---|
| `portal` | do preemptible handlers implement the atomic life cycle, answer truly, and return? | 2 cases, 2 threads, 2 agents: two calls race for one case while the other case shifts the list under an iterator |
| `portal_not_found` (violation of `NotFoundMeansNotOpen`) | is "escalation not found" ever told of an open case? | the same |
| `stream` | loss, repetition and progress | 2 tasks, on one instance or one each, a client that answers XCLAIM with ids or with pairs, 2 messages, pages of 1 entry, one message that always fails, one death of a task or a process: the failing message fills the first page |
| `stream_orphans` (violation of `OrphansHandled`) | is an orphaned entry handled with the client in use? | 2 processes, 1 message that can be handled, 1 death |
| `workers` | what hands work on: does every call end as it should, and what does it leave behind? | Queue: 1 case, 1 thread, 2 agents, two priorities, 4 ticks of five minutes, so that both deadlines (1 and 3 ticks) pass. Websockets: 2 connections, one of which may stop reading, 2 channels, queues of 2, 2 events: a queue fills with answers, an event is dropped, a later one arrives, while the other connection connects, subscribes and leaves. Uploads of 2 files (one fails after one was inserted). Tools: 2 callers and 3 pool threads, so that two may be kept by stuck or nesting handlers. 2 clients of one agent, card lifetimes of 2 and 1 ticks |
| `service` | what runs under one loop or lock: the promises of each part under all sequences of calls and failures | 2 requests on any platform, bodies of up to 2 messages, one attachment; texts of up to 24 tokens (parents of 10 overlapping by 2, children of 3: several windows, remainders of all sizes); 2 entries with 2 jobs and 1 retry; 2 clients of the token store; 2 rows per file; 3 tasks and 3 spans; 2 users and 2 vault entries; splits and results in which malformed weights come first, last and between, and variants tie or are not measured; 3 golden pairs per label; 2 accounts; silence of up to 20 ticks at the heartbeat, where the window is 8. Limiter: limit 2, window 1 tick, 3 clock values, 2 requests at a time, 2 keys with 1 bucket allowed (eviction), or a sorted set of up to 3 scores (the denial is recorded, too; in Redis keys are independent, and one is enough). The breaker is unbounded |
| `heartbeat_stalled` (violation of `SilentIsDisconnected`) | is a client that owes a pong for long disconnected? | silence of up to 16 ticks |
| `pool_exhausted` (violation of `PoolServes`) | does every call of a tool end where no handler gets stuck? | 2 callers, 2 pool threads |
| `media_unscanned` (violation of `OnlyScannedStored`) | is every stored file a picture or found clean? | uploads of 1 file |
| `delete_kept` (violation of `DeleteDeletes`) | are row and jobs gone when a delete answered 200? | 1 entry, 1 job |
| `child_parent` (violation of `ChildInParent`) | does the parent a child names cover it? | the texts of `service` |
| `span_shared` (violation of `OwnStack`) | do two contexts ever share a stack? | 3 tasks, 3 spans |

`CHECK_DEADLOCK FALSE` stands where the system may really stop: all connections
closed and all events published, an upload answered, a child gone, a message answered
(`workers`, `service` and the violations of their parts).

### Fairness

* `FairPortalSpec`: weak fairness of each handler. The operating system runs
  every thread that has work. Clients owe nothing.
* `HandOffFairness`: weak fairness of each scheduled `_publish` task and of the handlers.
* `CoFairness`: the caller's and the runner's thread are scheduled, the loop runs what was posted
  to it. A coroutine owes nothing: `kind` says whether it ends, ends when
  cancelled, or never; `RunnerEnds` states what follows for each.
* `TeFairness`: threads are scheduled, the pool serves its queue in order. A time-out fires for a
  handler that awaits; nothing is assumed of one that is stuck, and `EveryExecuteReturns` promises its
  caller nothing.
* `WsFairness`: the loop runs ready tasks, a socket whose write failed is reported to the
  reader, and a write to a client that goes on reading (`Readers`) ends, well or badly. A client that
  keeps its socket open and stops reading may hold a write for ever: no time-out limits it, and the
  heartbeat waits on the same socket before it looks at the client's silence (`WsHeartbeat`). `QueueDrains`
  says that it holds up nobody else.
* `FairStreamSpec`: every task runs; a dead loop is started again (nothing under
  `app` calls `consume_loop` or supervises it, so this is an assumption about its
  caller); time passes; and, strongly, a handler that can succeed does
  not fail for ever on the same message. Messages of `Poison` never succeed.

## 4. Proofs

TLC checks each property on the bounds above; the proofs hold for every value of the
constants that satisfies the named assumptions of the modules, which TLC evaluates on
every run. Every safety invariant and every action property that a passing run checks is a
theorem; only the liveness properties are not (see the end of this section).

| Proof module | About | Theorems (property) | Assumptions |
|---|---|---|---|
| `AgentPortalProofs` | inbox, escalation queue | `Typed`, `OnePlace` (`AtOnePlace`), `NoneLost`, `FirstClaim`, `TrueAnswers` (`AnswersAreTrue`), `Refinement` (`ImplementsLifecycle`), `HandOffIsAnInbox`, `PushesAreNew`, `BreachesStand` (`BreachStands`) | no agent is `NoAgent`; priorities are 0 to 2 |
| `WebSocketProofs` | delivery, heartbeat | `OrderOfEvents` (`InOrderOnce`), `NothingLostSilently` (`NoSilentLoss`), `Punctual` (`PunctualStays`), `Silent` (`SilentIsDropped`) | queues hold something |
| `StreamConsumerProofs` | stream consumer | `Kept` (`NothingLost`), `Once` (`RepeatsOnlyLate`) | bounds are numbers |
| `KnowledgeProofs` | jobs, imports, chunks, answers | `TrueReport` (`QueuedAsTold`), `TrueCounts` (`ImportCountsAreTrue`), `WholeText` (`ChunksWhole`), `OnlyGrounded` (`GroundedOrPassedOn`) | `ChunkSpec`: sizes above 0, overlap below the parent size, as `Chunker` asks |
| `IdentityProofs` | tokens, vault, access | `Survival` (`TokensSurvive`), `Exact` (`ErasureIsExact`), `Administered` (`GrantedByRole`) | nobody is called "guest" or "" |
| `RequestProofs` | dialogue, request path, retraction | `DsTyped`, `DialogueFlows` (`ImplementsFlow`), `Masked` (`MaskedOnward`), `SameAnswer` (`PushedIsAnswered`), `Secure` (`FailSecure`) | windows are numbers, no message is "none" |
| `WorkersProofs` | defence, uploads, agent cards, children, tools, spans | `NeverAnswered` (`InjectionNeverAnswered`), `WholeUploads` (`AllOrNothing`), `Restored` (`ResolverRestored`), `FreshCards` (`CardFresh`), `ChildrenEnd` (`NoChildLeft`), `ToolFound` (`HandlerHasTool`), `SpansKept` (`SpansAccounted`) | bounds are numbers, the root is a task, no client is "free" |
| `OperationsProofs` | breaker, judge, experiments, limiter | `Strong`, `Tripped`, `SidesDown`, `Progressive` (`OneStepPerStreak`), `Unflattered` (`NeverFlattered`), `NoLuck` (`ChanceNeverPasses`), `Shares` (`SharesAsWeighted`), `Winners` (`WinnerLeads`), `Prompt` (`PromptWithinLimit`) | scores are above 0, weights are whole numbers, limit and window are above 0 |

Each proof has the same shape: an invariant that a step preserves (`...Inv`), a lemma for the
initial states, one per action or kind of action, one that combines them (`Next...Inv`), and the
theorem. What the invariant adds to the property is what the code relies on without saying so:

**Inbox and queue.** The inductive invariant is `IInv == TypeOK /\ Placed /\ Locals /\ ClaimedLeft`.
`Placed` splits `AtOnePlace` into its parts: a list holds a case once, two lists share no
case, two handlers hold no case in common, and a held case is in no list. By itself it
would be inductive, but the other theorems need two more facts. `Locals` ties a handler's
locals to its `pc`. `ClaimedLeft` says that a case with an agent is out of `Unassigned`
and in no claim's hands: that is why no second claim can find it, and why `FirstClaimWins`
holds. For the refinement, `StageAt` shows that `StageOf` (defined with CHOOSE) is
the only place a case has; `LookStutters` and `QuietStep` map the reading and taking steps
to stutters, `FileStages` and `LifecycleStep` the filing steps to `ClaimCase` and `ResolveCase`.
`TrueAnswers` is about what others do after an answer: `Settled` collects what no step
takes back (`NextSettled`), so that a thread's answer is looked at only in the thread's own step.
`HandOffIsAnInbox` shows that queue, push tasks and inbox together do nothing but steps of
the inbox, so that its theorems hold of the composition. `RowsBehind` (a case that
is pushed or known has a row) is what keeps the upsert of `_ensure_row` from moving a deadline, and with
it `BreachStands`.

**Delivery.** `OnTheWay` orders all of a connection's frames at once: delivered, being
written, queued and yet to be published. Queueing, taking, writing and dropping a frame have one
lemma each, and `InOrderOnce` is the first part of it. `NoSilentLoss` needs it to hold
before the sender runs (`Covered`). For the heartbeat, `HeardSincePing` says that with
no ping open the client was heard from since the last one, and `OldestPing` that, while no write waits, the
oldest open ping is the last one or the one before it, so that a third check always fails;
`HeldIsSeen` keeps apart the runs in which a write of the task ever waited or failed,
of which `SilentIsDropped` says nothing, and `LateIsSeen` those in which an answer was late.

**Stream.** The invariant says what tasks have in hand: only what was read (`InHand`), and
what is being acknowledged was handled. `Prompt` carries `Once`: a message that was never
stale can only have come from the stream, so it is in the hands of one task and not handled
before that task acknowledges it. The moves that bring no message share one lemma (`QuietIInv`).

**Knowledge.** New jobs come with what was reported of them (`GrowKjInv`), and no step turns a
queued job into one that was never queued, or fails it with retries left (`ChangeKjInv`).
Of an import, `Accounted` says that counted, pending and unread rows make up the file; the two formats
count at different times, and a commit that is done and not heard of leaves more rows than were reported, never fewer. The chunks are arithmetic: `PiecesCover` says
that windows at steps of at most their size cover the text (the parents, which overlap), and
`PiecesApart` that windows at steps of their size share nothing (the children).

**Identity.** `TokensSurvive` speaks of moments without a caller; the invariant says how far the store may be
ahead of what was answered while a call is under way (`StoreAhead`), that it agrees
otherwise (`StoreTold`), and what the file holds except for clients whose save failed or was cut
off (`FileFollows`). The vault is what was stored and not erased (`VaultIsLive`), which is
inductive only because the index of a user lists exactly the user's entries (`IndexComplete`).
`Given` says that a token that no login gave is a guest's, whom `AccountNames` keeps apart from every account: a call that customers may not make was made by the account of the moment or by nobody.

**Requests.** Each way of moving a dialogue (table, escalation, confirmation) has a lemma, for
the side channels are where the table says nothing. `RpInv` is one statement per request, of which
a step moves only its own (`OneRequest`): `Underway` ties what was read and answered to the stage,
`Masks` is `MaskedOnward`, and `Pushed` says that nothing is pushed before the last step.

**Workers.** At high risk the answer is asked for only after the verdict (`VerdictFirst`); at medium risk both run
and `AnsweredAfter` says when an answer may count. There is a file in hand until the last one is in the
transaction (`FileInHand`), so that no commit comes early. `ToolBeforeHandler` and `HandlerSeen`: the definition of a tool is written first and never taken back. Whoever holds the DNS lock remembers the real resolver (`HolderRestores`).
`TrInv` keeps blocks and stacks in step in both directions (`NestedOnStack`, `OnStackNested`), although
tasks that share a stack close their blocks in any order.

**Operations.** `StreakIsReal`: the successes a breaker counts are never more than there were since
the last failure or step down, although a latency report may degrade the level in between
without resetting them. `JudgedLast`: a judgement stands only when both calls have ended. `NoLuck`
is an inequality of products, for sets of any size. `Totals` is the recursion that the fold over the weights
computes; from it, `BucketsOf` says which buckets a variant gets. For the limiter, `Covered` says
that what was admitted and is still in the window is in the bucket (or among the members of the sorted
set), and there may be more: unsorted stamps keep expired ones, and Redis keeps denied ones. A
request that is let through at the time of its stamp then finds its window counted in full.

**Induction over data.** The library's induction theorems take an operator, which the provers
here cannot instantiate. Its `WFMin` (a non-empty set has a minimal element in a well-founded
relation) takes sets; `Least`, `Induct` and `InductSet` in `OperationsProofs` follow
from it, and from them what is needed of folds (`Totals`) and of sums over sets (`SumStep`,
`SumTake`, `SumLeq`, `SumHeld`). What a property says of an operator of the model is thus proved for every input.

**Only model-checked.** Liveness is out of the prover's reach: `CallsReturn`, `QueueDrains`,
`EventuallyHandled`, `RunnerEnds`, `EveryExecuteReturns`, `PushedIsFiled`. `CoroHandOver` promises
nothing else and has no theorem. The properties of the violation runs are false of the code.

**What the properties do not say.** `PromptWithinLimit` excuses a key for good once it met an outage or
an eviction. `AllOrNothing` says nothing of how a file whose scan timed out is stored (that is
`media_unscanned`). `BreachStands` catches the upsert of `_ensure_row` only, and `PushedIsFiled` allows an
assignment or resolution of the queue that comes before the case is filed. `TokensSurvive` excuses a client
whose last save failed or was cut off. `OneStepPerStreak` counts from the last failure or
step down, and so allows the successes of level 0. `WinnerLeads` is about exact percents,
not about floats at the threshold of 0.05. `ImportCountsAreTrue` allows a report of fewer rows after a
commit that was done and not heard of. `DeleteDeletes` says nothing of workers that have taken a job when its
entry is deleted. `MaskedOnward` says nothing of a second message in a body, for nobody reads it.

## 5. Where code and documentation disagree

Shown by a run (see "findings" in `PROJECT.json`):

1. `portal_router.py:80`: the resolve route answers 404 "escalation not found" for a case that
   is open throughout, when another call shifts the list under its iterator or a claim has
   the case in hand.
2. XCLAIM does not hand an orphaned message on (`ADR.md:159`): without `justid` redis-py answers with
   pairs, which `consume_loop` takes for ids and looks up outside of any `try`
   (`redis_streams.py:272`, `316`). The loop ends, and ends again whenever it is started.
3. A client that neither reads nor answers is not disconnected, against FR-59 (`SRS.md:132`) and the
   docstring of `_ping_loop` (`ws_router.py:130`): the write of the ping (134) comes before the
   check (140), and may wait for ever.
4. Calls of tools that call tools block each other for ever once they hold all threads of the shared
   pool (`tool_executor.py:330`), although `execute` "returns a `ToolExecutionResult`".
5. A file whose scan timed out or found something is stored
   (`media_router.py:123`), against ADR-012 (`ADR.md:285`).
6. Deleting knowledge through the management API answers 200 and deletes nothing: the
   session is an async generator without `__aenter__`, and the error is swallowed
   (`knowledge.py:1601`, `management.py:203`). With a session that works (a test's) its jobs would stay: they
   are queued with a positional argument (`jobs.py:556`) and looked for among the keywords
   (`jobs.py:402`).
7. A child chunk names a parent that does not cover it (`knowledge.py:1018`): parents overlap, and the
   number is computed as if they did not.
8. Tasks created inside a span share their parent's stack (`observability.py:422`), against
   the comment three lines above it.

The shortest trace of finding 5 stores a file that was found infected; one that stores a file whose
scan timed out is reachable as well, and is the one the ADR speaks of.

Seen while modelling, without a run of their own:

* Two consumers may process one claimed message at a time, where the client answers with
  ids: XCLAIM only restarts the idle time, while a test's comment says that a claimed entry is
  not claimed again (`test_fr80.py:682-684`).
* `build_app` installs the chain with collaborators that accept everything and call everybody
  "anonymous" (`main.py:36-102`), so that all requests of a platform share one bucket of the
  limiter, and a request is counted before its token is looked at in the route.
* A body of several messages is answered "ok" with the count of all, and the first one is handled
  (`webhooks.py:653`, `678`); one without messages is answered "ok" and nothing runs.
  The LINE route takes the body with its array of events for one event (`webhooks.py:624`) and answers an
  internal error, where FR-02 (`SRS.md:25`) has the array parsed.
* The web route takes the conversation from the client (`webhooks.py:721`) and pushes its event to
  every subscriber of `/ws/user` (`webhooks.py:757`).
* A commit of an import that is done but raises is reported as 0 imported, where the comment
  says that nothing was stored (`webui.py:929-931`).
* `execute` "never raises", but passes a cancellation on (`tool_executor.py:253-271`).
* Customers hold `escalate:write` (`rbac.py:99-102`), and every guest is one: a guest's token claims and
  resolves cases (`portal_router.py:54`, `71`).

* A case resolved in the portal keeps counting as an SLA breach, for `_resolve` never calls
  `EscalationManager.resolve` (SRS FR-55; `portal_router.py:10` calls the inbox a mirror).
  A second `resolve` overwrites `resolved_at`, and a case resolved in time stops
  counting towards compliance (`escalation.py:267`).
* A bucket of the rate limiter need not be sorted, against its stated invariant
  (`rate_limit.py:140`): the clock is read before the lock is taken. A Redis window is
  open at its start, an in-memory one closed, and only Redis counts denied requests,
  although the fallback is called a drop-in replacement (`rate_limit.py:341-347`).
* Also where no write waits, FR-59's ten seconds are not kept: the ping loop looks at the age of
  the last pong only at the next ping, and allows 40 seconds; `SilentIsDropped` states what does hold.
* SPEC.md:4460 asks that no recovery be immediate. Successes counted at level 0 survive a
  latency degradation, so one more success may end it (`circuit_breaker.py:79-84`, `113`);
  `OneStepPerStreak` states what does hold. SPEC.md:4457 asks for five successes before
  vector search is restored; one is enough (`circuit_breaker.py:157-160`).
* `create_experiment_via_manager` demands weights that sum to 1.0 while `_route_bucket` compares
  them with buckets of 0 to 99: all but one bucket would fall to the control. Its manager
  has no database, so nothing is stored; nothing advances the stage of a roll-out.
* A job that used up its retries fails without running although the queue is back
  (`jobs.py:264`). `update_knowledge_with_reembed` leaves its first job queued when the
  second cannot be. A worker does not ask whether its entry still exists.
* A second process would overwrite the token file; a failed save is only logged.
* JSON import accepts blank titles, CSV import rejects them.
* `_agreement_rate` says it returns an agreement rate and returns Cohen's kappa
  (`llm_judge.py:616-662`).
* Guest, web and administrator tokens are signed with one secret; with an empty
  `OMNIBOT_ADMIN_USER` a token without a subject would be the administrator's.

## 6. Not modelled, and why

* Text and data: prompting, formatting, patterns and decoders of the defence, PII
  recognition, emotion scores, reciprocal rank fusion, parsing of payloads and messages. They change no
  state; the models take any outcome they may have.
* I/O and wiring: SQL schema and queries, HTTP clients, SSE transport, metrics, reports
  and pages, deployment stubs, configuration, the web front end.
* The address allow-list, the HMAC verifiers and the permission stage of the chain: `build_app` installs
  none of them; they are pure functions of a request.
* `RetryStrategy` (a loop over one number), `ContextWindowManager` (cuts a list to a
  budget), `MigrationRunner` (subprocess calls in a fixed order): sequential and
  without state that outlives a call.
* `core/conversation.py` uses the session that finding 6 is about, and stores nothing else.
