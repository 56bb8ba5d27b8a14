# Verification of NexusAI

TLA+ specifications of the parts of NexusAI (`src/`) whose correctness depends
on what happens between transactions, threads and retries, with TLC runs on
small instances and TLAPS proofs for all instances.

## The system

A client calls `Query` / `QueryStream` through a gateway. The server takes the
owner from the session, records the query in PostgreSQL, reserves tokens, calls
an agent (over A2A, or through the multi-agent orchestrator) and records the
outcome. Around this path live the agent registry, the background jobs, the
interventions a user can undo, and the MCP tool servers.

| Component | State | Operations | What makes it correct |
|---|---|---|---|
| durable query pipeline (`ai_query_service.cpp`, `query_domain_repository.cpp`) | five tables, one `DurableQueryRun` per handler | six steps, one transaction each; finalize; abort | rows of one owner; nothing completed that is not reserved; retries add nothing; every query is settled |
| budget (`postgres_budget_repository.cpp`) | reservations, counters, policies, locks | `reserve`, `setOwnerPolicy` | limits hold under concurrency; one charge per request; no deadlock, no overflow |
| connection pool (`postgres_store.cpp`) | leased flags, connections | acquire, release, reconnect | one user per connection; no lease is lost |
| circuit breaker (`circuit_breaker.cpp`) | state, statistics | allow, success, failure | it opens when it must and closes again |
| multi-agent handler, A2A adapter (`multi_agent_handler.cpp`, `a2a_adapter.cpp`) | one HTTP client shared by queries | call, stream, retry, relay | requests carry their own trace; one terminal event; what is stored was delivered |
| task executor (`task_executor.cpp`) | DAG of subtasks, futures, results | layers, calls, deadline | dependencies first; one final result for each subtask; an answer in time |
| agent service, router (`agent_service.cpp`) | agents, indexes and queues in memory, `agent_registry`, router | register, heartbeat, unregister, clean-up, messages | the copies agree in the end; no agent is lost or kept for ever; messages in order |
| interventions and undo (`user_experience_service.cpp`, `agent_lifecycle_service.cpp`) | intervention and undo rows | ask, decide, undo, execute | one decision; undo restores it; one execution per decision |
| agent comparison, feedback (`agent_lifecycle_service.cpp`, `feedback_aggregator.cpp`) | `compare_runs`; ratings and route quality | compare; rate, aggregate | a run is settled and tells its outcomes; weights count every rating once |
| background scheduler (`background_scheduler.h`) | jobs, queue, workers | schedule, cancel, start, stop | a job never runs beside itself; no wake-up is lost; stop ends |
| A2A task manager (`task_manager_wrapper.cpp`) | tasks, contexts | create, update, cancel, add messages | terminal states are final; history is kept |
| MCP client and tool manager (`mcp_client.cpp`, `mcp_tool_manager.cpp`) | one pipe, one queue of answers, tools | send, receive, notify | an answer belongs to its request; calls return |
| RPC client with registry and balancer (`rpc_client.cpp`, `service_registry.cpp`, `load_balancer.cpp`) | endpoints, address, channel, stub, watcher, heartbeat | call, fail over, watch | it finds a server that is up; it knows what the registry knows |
| migrations (`migration_runner.cpp`) | `schema_migrations`, advisory lock | migrate | in order, once each, also when servers start together |
| gateway (`gateway/proxy/server.mjs`) | one response per stream | relay, end, abort | the browser gets all events in order and learns the outcome |
| chat (`frontend/src/stores/chat.ts`) | messages, flag and controller of a stream | ask, retry, stop, start over | stop reaches the answer; one answer at a time |
| authentication, memory, sharing, observability | tables, Redis | owner-scoped reads and writes | see `PROJECT.json` |

Components interact through PostgreSQL (the pipeline and the budget are
separate transactions of one store), by calls (browser to gateway to service to
breaker to adapter to agent) and by callbacks (streams, watchers, schedulers).
What is hard: transactions of several calls interleave; any of them may fail or
be acknowledged never; the server may crash between any two; locks may collide;
threads share clients, queues and pipes; answers and notices come late.
`PROJECT.json` lists each hazard at its line.

## Modules

### RequestLifecycle

The promise about one request id, however many runs stand behind it: admitted
once, billed once, history grows by the question and then the answer, charged
once, settled as completed only when billed. It never shows runs, tables or
failures. `Reliable` says that no transaction fails; then nothing enters history
or ledger that is not billed.

### DurableQuery

A *run* is one invocation of a handler. The variables are the tables, keyed by
request id (ids are derived from it: `trace-…`, `msg-user-…`, `usage-…`), and
the run's locals (`DurableQueryRun` and the handler's own). One action is one
transaction, because each repository call is one `executeTransaction`; runs
interleave between them.

| Action | Code |
|---|---|
| `Begin` | `Query` / `QueryStream` up to the first transaction |
| `EnsureConversation`, `CreateQueryLog`, `CheckQueryLog`, `CreateTrace`, `CheckTrace` | `beginDurableRows` and its repository calls |
| `Reserve`, `RejectLog`, `RejectTrace` | `reserveBudgetOrReject` |
| `ReadContext` | `buildSystemContextFromPg` |
| `CancelledBeforeCall`, `BreakerOpen`, `AgentAnswers`, `StreamEnds`, `AgentThrows` | what the agent call may lead to |
| `PersistUserMessage`, `PersistAnswer`, `PersistLog`, `PersistTrace`, `PersistUsage` | `finalizeDurableQuery` after its compare-exchange (`Finalize`) |
| `RolledBack`, `Throws` inside `Committed` | a transaction fails, or is committed and the acknowledgement lost |
| `Abort` | the catch block, `abortDurableRun` |
| `Crash` | the process dies |

Abstracted: texts (only whether an answer is empty), plans, routes, summaries;
Redis (its failures are swallowed); the two reads of `buildSystemContextFromPg`
are one step, as nothing is decided on them; the amounts of the budget, where a
first reservation is accepted or refused freely. A request id stands for one
question (the pipeline guide asks for unique ids), so its estimate is a
constant, `Cost`. There are no foreign keys, hence no order among the tables.

### BudgetReservation

`reserve` and `setOwnerPolicy` as concurrent transactions. Each statement that
takes a lock or reads committed rows is a step; writes become visible with the
commit. `LockId` is the 32-bit hash of a lock key, so buckets may share a lock.
The date is read once and may change afterwards (`Midnight`). The row locks on
counters and reservations are left out, because whoever takes them holds the
global advisory lock, which `GlobalLockHeld` shows. The four counters are read
in one step for the same reason. The branch after a conflicting INSERT is not
modelled: `ReadsStayCurrent` shows that it cannot be reached.

### AtomicBudget

What the repository promises to callers that do not know of its transactions. A
call of `reserve` gets its date (`Begin`) and its limits (`FindLimits`), and is then
decided and booked in one step (`Accept`, `Refuse`, or `Repeat` for a request that is
reserved already) on the sum of the reservations that share a level with it;
`SetPolicy` is one step too. There are no locks and no counters. Callers may notice
two things: a call that waits over midnight belongs to the day before, and the first
policy of an owner may be missed by a call that looked for one before.
`BudgetReservation` implements it (`ImplementsAtomicBudget`): `Stage` maps the steps
of a transaction, and a call takes effect with its `Decide` or `CommitReservation`.
Since counters must be sums and keys must mean what levels mean for this, a key
without its owner breaks the refinement although every counter is still right.

This is why `DurableQuery` may take a reservation for one step: an own reservation
answers again, a foreign one refuses, and otherwise it is accepted or refused.

### CircuitBreaker

The breakers on the path of one call, the outermost first: the server's
(`a2a_backend`, one for all) and the adapter's (`a2a_orchestrator`, or one for
each agent). Every method of a breaker holds its mutex and is one step; calls
interleave between asking and reporting, so a result may reach a breaker that
has changed its state. The statistics are kept as far as guards read them:
counters stay at `MaxCount`, and time is the flag `waited`.

| Action | Code |
|---|---|
| `Call`, `Ask` | `isRequestAllowed` of each breaker inwards; a refusal is a failure for those outside |
| `AgentAnswers`, `AgentFails` | `processQuery(Streaming)` of the adapter, its retries included |
| `ClientCancels` | a write to the client fails or the stream is cancelled |
| `Record` | `recordSuccess` / `recordFailure` outwards |
| `TimeoutPasses` | `shouldAttemptReset` would now be true |

### ConnectionPool

`PostgresStore::executeTransaction` from `acquire` to `release`. A step is one
critical section of the lease coordinator, or what lies between two; `Notify`
is a step behind `Release`, as `notify_one` is called after the unlock. A
waiting thread may wake without reason, and PostgreSQL may restart, which makes
every open connection `stale` until its holder notices.

### TaskExecutor

`TaskExecutor::execute` with the plans that `parsePlanResponse` can produce from
a list of tasks: sorting (`EmitLayer`, one layer per round of Kahn's algorithm),
then one step for each place where the executor reads the clock, calls, waits or
records. The clock is read before a call is prepared, and it may pass the deadline
before the call is made: `TimeLeft` and `CallSingle`, or `StartLayer` and one
`StartSubtask` for each member, are steps of their own. The calls of a layer (`executeSubtask`) run beside it. `clock` tells
the last millisecond before the deadline from what is before and behind,
because remaining time is cut to milliseconds but layers compare time points.
A plan that repeats an id is refused with the message about a circular
dependency, though it has no circle; `LayersCorrect` says what is refused.

### PlanExecution

What `execute` promises to its caller: a plan is refused exactly when ids repeat or
subtasks wait for each other in a circle; otherwise a subtask is admitted
before the deadline, when all it depends on has results (`Admit`), and then called
once (`Start`), though perhaps past the deadline, as prompts are built and the client
is told in between; its result is what
the call led to (`Record`), or a timeout once the deadline is reached (`TimeOut`,
`GiveUp`), and stays; `Return` leaves no call behind. There are no layers, futures or
threads, so a plan may be executed in any order its dependencies allow. `TaskExecutor`
implements it (`ImplementsPlan`); `Phase` maps the places of its loop.

### AgentCalls and Gateway

`AgentCalls` is the way of a query through `AIQueryServiceImpl`,
`MultiAgentHandler` and `A2AAdapter` to an agent and back; the rows it leaves are
the subject of `DurableQuery`. All queries that do not go to an agent's own
address share one HTTP client, whose headers and timeout each of them sets before
it sends: `headers` and `clientTimeout` name the query that set them last.
`Gateway` composes it with `streamCall`, which turns the events of the stream into
server-sent events.

| Action | Code |
|---|---|
| `Serve`, `RefusedByService`, `CancelledBefore`, `setRequestTimeout` | `Query` / `QueryStream` up to the agent |
| `PlanQuery`, `Progress`, `Aggregated`, `ExecutionThrows` | `MultiAgentHandler::handleQueryStream` |
| `RefusedByAdapter`, `add_header`, `send_message` | the adapter's breaker, headers, and the request |
| `AgentAnswers`, `AgentFails`, `ConversionFails` | attempts of `processQuery` |
| `AgentSends`, `StreamEnds`, `StreamThrows` | `processQueryStreaming` and its callback |
| `Finish` | status, terminal event, what is stored |
| `streamCall`, `HandleData`, `HandleEnd`, `HandleError`, `HandleClose` | the gateway's listeners |
| `Refused`, `Replies` | the gRPC status of the call |

The connection between service and gateway may break (`ClientLeaves`), and the
browser may close. Unary calls of the gateway, a request and its reply, are left out.

### AgentRegistry

`AgentCommunicationServiceImpl` keeps an agent in memory (with indexes and a
queue of messages), in `agent_registry` and in the router, and a call updates one
copy after the other: `RegisterMemory`, `RegisterRow`, `RegisterRoute`, and so for
`Unregister…` and `Heartbeat…`. `cleanupOfflineAgents` removes silent agents in one
step, as it holds the lock for all of it. Agents follow `AgentAutoRegistrar`:
`Start`, `Stop`, heartbeats in between, or `Die`. Its calls have deadlines of 10 s and
5 s (`agent_auto_registrar.cpp:94, 133`), after which it may call again while the handler
goes on, so calls of one agent may overlap; and an agent may turn silent during a
call. `torn` notes both: another call began before the first was over, or a clean-up
came between two steps of one. It lasts until a call of the agent begins alone. A
transaction may fail, the server may restart with what PostgreSQL has. `SendMessage`, `BroadcastMessage`,
`ReceiveMessage` and the stream of `ListenMessages` (`Take` under the lock,
`Deliver` after it) work on the queues. Time is `Tick`, the age of a heartbeat.

### Interventions

`SandboxQuery`, `InterventionResponse` and `UndoAction` as sessions: each
transaction (`createIntervention`, `resolveIntervention`, `createUndoAction`,
`getUndoActionById`, `undoRestoreIntervention`) is a step, `CallFails` ends a
session between two, and undo actions expire. What such a call leaves behind is noted:
`lost` are the decisions without an undo action, `unrun` counts those to execute that
were not executed. An execution
(`runSandboxExecution`) is one run of the pipeline.

### CompareRuns and RouteQuality

`CompareRuns` is `CompareAgents`: the row is created, each agent passes the health
gate or not, workers end, the row is updated, and once more when that failed. Each
write may fail or lose its acknowledgement; the client may cancel, the server end.

`RouteQuality` is `SubmitFeedback`, which stores a rating and aggregates the
ratings of its key, and `FeedbackAggregator::recalculate`, which does it for all
keys each hour. Counting and storing are two statements of one READ COMMITTED
transaction without a lock. A row of quality is modelled by the number of ratings
it was made of.

### BackgroundScheduler

The coordinator (`CoordinatorLooks`, `Enqueue`, `NotifyOne`), the workers
(`WorkerLooks`, `WorkerWaits`, `WorkerChecks`, `WorkerRuns`, `WorkerDone`), and the
main thread, which starts, schedules, cancels and stops (`StopStores`,
`StopNotifies`, `StopClears`). A step is a critical section of `tasks_mutex_` or
`queue_mutex_`, or one access to an atomic. `queue_mutex_` is explicit where it is
held from a worker's look at `running_` to its wait. The jobs are those of
`main.cpp:298-361`.

### McpSession

`MCPClient` over pipes and `MCPToolManager`: threads write requests
(`sendRequest`), the reader thread puts answers into one queue (`QueueAnswer`) and
handles notifications (`processNotification`, which lists the tools on the reader
thread itself and so waits for an answer nobody reads), and whoever waits takes the
front (`receiveResponse`), since ids are not compared. `TimesOut` are the 30
seconds. The server answers in order, late or never.

### TaskStates

`TaskManagerWrapper` over `MemoryTaskStore`: each call of the store is a step;
`updateTaskState` and `cancelTask` read, check and write in three, and then tell
the listeners (`TellChange`).

### ClientFailover

`RpcClient` with `MemoryServiceRegistry` and a balancer. `Ask` checks `connected_`;
`AskOverStub` reads the stub, which may have been replaced since, and the call goes
where that stub leads. `reconnect` is a step for each section under `connection_mutex_`
and for each access without it, in each of the threads that calls or beats:

| Action | Code |
|---|---|
| `handleTransportFailure` | the endpoint that is current by then is marked |
| `reconnect`, `Rediscover`, `StoreDiscovered`, `Snapshot`, `Heal`, `SelectCandidates` | the limit, the sleep and the question to the registry, and the list of candidates |
| `connectToEndpoint`, `setupChannel`, `AssignChannel` | the address is set; read again without the lock; the channel is assigned |
| `WaitForConnected`, `ChannelOpens` / `ChannelFails` | the channel that is there as the wait begins, whoever assigned it |
| `NewStub`, `KeepStub`, `MarkConnected`, `GiveUp` | the channel is read once more for the stub, the stub is kept, `connected_` |

`CallWatcher` delivers the registry's notices outside its lock, one by one per server.
`channel_`, `agent_stub_` and `server_address_` are shared without a lock; a reader gets
the old or the new value (that a replaced stub may be destroyed under a call is outside
the model). What the balancer believes of a server's health is left open: it may choose
any endpoint. Two histories say when the threads disturbed each other: `crossed`, that
two failed over at once since one last set the address alone; `outrun`, that two views of
the registry (notices, or lists that a thread has fetched) were on their way at once
since one last set out alone. After either the client may be wrong (below), and the
properties demand that it is right again after the next attempt or view without rival.

### Migrations

`MigrationRunner::migrate`, run by `main.cpp:228` and `db_migrate`: `discover`,
`CreateTable`, then for each file `readFile`, and `Lock`, `CheckApplied`,
`ApplyMigration` in one transaction under an advisory lock. `Breaks` is a failing
or unacknowledged transaction or the end of a process. Runners may be of releases
with different directories; a file may be replaced.

### SchemaUpgrade

What `migrate` promises to those who deploy: a migration is executed and recorded in
one step, behind all those before it in its release (`Executes`); a server runs when the
schema has each migration of its release with the same content (`Run`); it fails to start
by a crash, of which the last migration may survive, or when a version is recorded with
another content (`Refuse`), but not because another server migrates. There are no locks,
checks or loops. `Migrations` implements it (`ImplementsUpgrade`): a server's release is
what `discover` read, the schema is the set of rows of `schema_migrations` with what was
executed, and `ServerStatus` maps the places of a run. `MigrationInvariant` speaks of what
was applied, the refinement also of why a server fails: one that takes every recorded
version for a conflict keeps the invariant and breaks the refinement.

### ChatStore

The store of the chat and `queryStream` of its client. The browser runs one task
at a time, so an action is a click (`sendQuestion`, `retryLast`, `stopStreaming`,
`newConversation`) or a task of the network (`HandleStreamEvent`, `BodyEnds`,
`StreamFails`) with the catch and finally it leads to. `StreamFails` is a refused
request, a broken body or the timer of 130 s.

### MC modules

`MCCalls`, `MCThreads`, `MCDependencies`, `MCRetriesAndFailures` and `MCAdvisoryLocks` put
components side by side that share no variable and do not call each other: the variable `part` says which one runs,
while the others stay as created. So one run checks each component by itself, with
its own invariant, at the sum and not the product of their sizes. The invariants
named `…Invariant` are conjunctions of named parts, each with a comment of its own.
The other MC modules give constants their values; `MCDurableQueryRetries` adds a
history of the requests whose runs overlapped.

## Runs

| Run | Question | Bounds | Result |
|---|---|---|---|
| `RetriesAndFailures` | Do ownership, budget, history and life cycle survive racing retries, failures and a crash? Do interventions, and the client that fails over? | 2 runs, 1 request, 2 owners, 2 conversations, 2 failures, 1 crash; the others below; 1 044 584 states | holds |
| `DurableQueryNoFault` | Without failing transactions, does every running query have a run that settles it, is it charged as reserved, and do log and trace agree? | 2 runs, 2 requests, 2 owners, 1 conversation, 1 crash; 329 052 states | holds |
| `DurableQueryStuckRunning` | Does a failing step always leave a terminal state (`README.md:28`)? | 1 run, 1 failure | violated |
| `DurableQueryUnderbilled` | Does the ledger record what was reserved (`ai_query_service.cpp:156`)? | 2 runs in sequence, 1 failure | violated |
| `AdvisoryLocks` | Are concurrent calls answered like calls one by one (`ImplementsAtomicBudget`)? Do limits, sums and single charges hold around midnight, with colliding locks, without deadlock or overflow? Do servers that start together migrate like servers that take turns? | 3 transactions, 2 owners, 2 requests, 2 days of one month, integers up to 3; migrations below; 317 376 states | holds |
| `QueryDependencies` | Do two nested breakers open, probe, close and recover as they should? Is a lease exclusive, never lost, and does every waiting call get one? | 2 callers, thresholds 2, 2 and 4, 4 agent errors, 2 lost clients; 3 threads, 2 connections, 1 restart; 271 822 states | holds |
| `CircuitBreakerClientFaults` | Do only failing agents open a breaker (`README.md:52`)? | as above, no agent error | violated |
| `TaskExecutorDeadline` | Does the deadline end the waiting (`task_executor.cpp:149`)? | as the executor below | violated |
| `CallsSideBySide` | Components whose operations take several steps: does each keep its promises however its steps interleave and fail? | see below; 622 929 states | holds |
| `ThreadsSideBySide` | Components made of threads that work all the time: do they keep their promises, and do they get anywhere? | see below; 62 444 states | holds |
| `AgentCallRetries` | Are network errors retried (`a2a_adapter.cpp:143`)? | 1 query, 3 attempts | violated |
| `GatewayTerminalEvents` | Does a stream end with a single terminal event (`query-stream-contract.test.mjs:18`)? | 1 browser | violated |

The parts of the runs that hold several (`QueryDependencies` is described in its row; the
properties not named here are those of the pipeline and of the budget):

| Part | Run | Bounds | States | Properties |
|---|---|---|---|---|
| query | `RetriesAndFailures` | above | 312 003 | |
| client | `RetriesAndFailures` | 2 servers (interchangeable), 1 caller and the heartbeat, 1 extra attempt, 1 stop, 2 entries, 1 connect | 595 653 | `FailoverInvariant` |
| interventions | `RetriesAndFailures` | 1 request, 2 undo actions, 2 sessions, 1 failing call | 136 928 | `InterventionInvariant`, `AbortIsFinal` |
| budget | `AdvisoryLocks` | above | 261 258 | |
| migrations | `AdvisoryLocks` | 2 processes, 2 starts each, 2 files, 3 directories, 1 failure, 1 replaced file | 56 118 | `MigrationInvariant`, `ImplementsUpgrade` |
| registry | `CallsSideBySide` | 1 agent with 2 profiles over 2 skills and 2 calls at once, 2 messages, 1 listener, 1 restart | 300 043 | `RegistryInvariant` |
| agent | `CallsSideBySide` | 2 queries on one client, one of them perhaps a stream of up to 2 events; 2 attempts | 275 110 | `AgentCallsInvariant` |
| tasks | `CallsSideBySide` | 1 task, 2 callers, 2 messages | 20 808 | `TasksInvariant`, `EndedStaysEnded` |
| executor | `CallsSideBySide` | all plans of up to 3 subtasks, repeated ids and unknown dependencies included, and a diamond of 4 | 14 653 | `ExecutorInvariant`, `ImplementsPlan` |
| gateway | `CallsSideBySide` | 1 browser, its stream of up to 2 events | 7 301 | `GatewayInvariant` |
| chat | `CallsSideBySide` | 3 streams | 4 509 | `ChatInvariant` |
| compare | `CallsSideBySide` | 3 agents, each write goes wrong once at most | 505 | `CompareInvariant` |
| scheduler | `ThreadsSideBySide` | 1 job, 2 workers, 3 rounds of the coordinator, 2 starts | 22 672 | `SchedulerInvariant`, `CancelledStaysQuiet`, `SchedulerProgress` |
| registry | `ThreadsSideBySide` | as above, but 1 call at a time, 1 message, 1 failure | 21 016 | `CopiesConverge` |
| mcp | `ThreadsSideBySide` | 2 clients and the reader, 4 requests, 1 change of the tools | 14 701 | `McpInvariant`, `CallsReturn` |
| quality | `ThreadsSideBySide` | 2 keys, 2 raters and the job, 1 failing aggregation | 4 055 | `QualityInvariant`, `QualityCatchesUp` |

*Why the bounds are enough.* Two runs make every race between a run and a retry,
two owners every ownership conflict; requests share no rows except
conversations, which `DurableQueryNoFault` exercises with two requests. Two
failures reach a failure inside the abort of a failure. In the budget the
daily and the monthly limit each decide alone in some sequence; the session limit is as
wide as the monthly one and the global limit the largest integer, so that of these two
levels only the counters are exercised, and their limits are left to the proof, which
treats the four alike. On day 0 the daily bucket of one owner
shares its lock with the session of the other, and the other way round, so the
order of the loop is no order of the locks; three is both the largest integer
and a reachable sum. The thresholds of the breakers keep the relations of the
default configuration (5, 3 and 10 at a rate of 0.5), with enough errors to open,
to fail a probe and to open again. Three threads on two connections leave one
waiting, and a caller that comes late may take the connection before the thread
that was woken for it; overtaking by new calls without end is possible in the
code, as `std::condition_variable` is not fair, and not counted as a lost wake-up.
Three subtasks suffice for every shape of layers but the diamond, which is added.

Of the side-by-side parts: two servers make one that is down and one to move to,
and two threads (a caller and the heartbeat) make every race to reconnect, also with
`connectToService`. Two
queries make every overlap on the shared client; two events tell a first from a
last one. Two sessions make every race of two decisions, or of a decision and an
undo; two undo actions allow a decision after an undo. Two processes race for each
migration, and the three directories are those of an older release, a newer one,
and one with a changed file. One agent suffices, as agents share only the lock,
which is one step; its two profiles differ in a skill, so that registering again
leaves one behind. Two calls at once make every overlap of registration, heartbeat and
unregistration, and leave it torn; a third call, or the restart, mends it. Three rounds of the
coordinator let a job come due again while it waits and while it runs. Four
requests are the handshake, the tools, one that is given up, and one that gets its
answer. Three streams of the chat are one that has answered and is still open, one
that was asked early, and one after the first's late end.

Deadlock checking is off because runs, calls and executions end and no client
has to call again. What the code could wait for is covered by properties:
`NoDeadlock` for locks, `NoLostWakeup` (in `PoolInvariant`) and `EveryCallReturns` for connections,
`NoSleepOnWork` and `SchedulerProgress` for workers, `CallsReturn` for answers.

Each property has a mutant: a variant of one action, next to it in the module
and called after the mistake it makes, under which the property fails.

**What the violated runs show.**

- `DurableQueryStuckRunning`: `finalizeDurableQuery` marks the run finalized
  before it writes. If one of its transactions then fails, `abortDurableRun`
  does nothing, and log and trace remain `running`.
- `DurableQueryUnderbilled`: an abort before the reservation writes a ledger
  entry with 0 tokens; when the retry completes, its entry is skipped as a
  duplicate.
- `CircuitBreakerClientFaults`: a client that leaves its stream counts as a
  failure of the breaker all queries share.
- `TaskExecutorDeadline`: a `std::future` of `std::async` waits in its
  destructor. The futures of a layer that was given up are destroyed at its end,
  so `execute` returns only after the slowest call.
- `AgentCallRetries`: network errors reach the adapter as `A2AException`, which it
  does not try again; the branch for `std::runtime_error` is never taken for them.
- `GatewayTerminalEvents`: a query that fails writes its own error event and then
  returns an error status, of which the gateway makes another one.

**What else does not hold.** These were met while modelling; the properties above
except them by name.

With overlapping retries log and trace may end in different
terminal states, because finalizers interleave, and `completed` may become
`failed`. The code promises only one row each; `RetriesNeverRewrite` states
what is kept. Without fault a query may still stay `running` when the process
dies, as nothing repairs rows at a restart: `RunningIsSettled` excepts crashes.

- *Scheduler.* A job that comes due again while it waits in the queue is queued
  twice and may run beside itself (`PreventsReentrancy`,
  `tests/test_background_scheduler.cpp:29`). `stop` notifies without the mutex, so a
  worker about to wait sleeps on and `stop` never returns (`StopAlwaysReturns`).
- *Agents.* The clean-up leaves the row of an agent as it is, and so do a failing
  transaction of an unregistration and a restart: it stays `healthy` without an agent
  (`HealthyRowIsKnown`), although the health gate of comparisons relies on it. After a restart heartbeats of an unknown agent are
  answered OK. Calls that overlap, or a clean-up in the middle of one, may leave a route to
  nobody or an agent without one until the agent's next call without rival, if there is
  one (`torn`). A message that a listener has taken is lost when its stream breaks.
  Registering again leaves index entries of skills the agent no longer has.
- *Calls.* A request may carry the trace and timeout of another query when both set
  up the shared client at once (`mixed`), whose header map is changed without a
  lock. A deadline set by one query stays for later ones; it has no effect on
  streams. Events of a plan are written blindly: a client that has left is not
  noticed, and its query is stored as completed.
- *Interventions.* `docs/guides/workflow-control-guide.md:7` claims that failure paths
  can be retried safely and leave nothing half finished. Yet `InterventionResponse`
  takes, executes and records a decision in separate transactions
  (`user_experience_service.cpp:126-200`). When it fails after the first, the decision
  stays without its undo action (`lost`) or its execution (`unrun`) for good, as a
  retry is answered `ALREADY_EXISTS`. An execution under way goes on after its decision
  was undone.
- *Tool servers.* After a request was given up, each later one gets the answer of
  the one before. A refresh on a notification waits on the thread that would read
  its answer, and loses the tools (`ToolsSurviveRefresh`, `mcp_tool_manager.cpp:218`).
- *Tasks.* Between check and write of one call another may end the task, which
  then leaves its terminal state (`TerminalIsFinal`, `task_manager_wrapper.cpp:17`).
- *Executor.* Between the look at the clock and the call lie the prompt and messages to
  the client that may block, so a call may be made past the deadline.
- *Fail-over.* Two threads that fail over at once may leave channel and stub at a server
  other than the current endpoint, to which the errors of its calls are then charged
  (`crossed`), until some thread fails over alone. Notices of the registry that
  overtake each other leave the older list (`outrun`) until the next change or
  rediscovery. Once the heartbeat loop ended by itself it is not started again
  (`HeartbeatsResume`), because `heartbeat_running_` stays set.
- *Comparisons.* A row stays `running` (`agent_lifecycle_service.cpp:511` says never)
  after a crash, when both last writes fail, or when the acknowledgement of the
  insert is lost; a lost one of the last write turns a settled row into `failed`.
- *Feedback.* An aggregation that fails does fail the call (`agent_lifecycle_service.cpp:164`
  calls it non-fatal), so the client may rate twice. Of two that overlap the older
  count may be stored last, until the next hour.
- *Migrations.* A file is read twice, and the checksum is of the first reading. A
  version below those applied is applied after them; versions beyond three digits
  sort by their strings.
- *Gateway.* A query whose last writes fail tells the browser `complete` and then
  `error`. A browser that leaves is noticed by a stream only at its next event.
- *Chat.* A terminal event lets the user ask again before the body has ended; the
  end of the old one then clears the flag and the controller of the new answer,
  which can no longer be stopped (`overtaken`).

**Fairness.** Weak fairness of the next step of each handler (`DurableQuery`),
call (`CircuitBreaker`), thread (`ConnectionPool`, `McpSession`), call and heartbeat
of an agent (`AgentRegistry`) and rating (`RouteQuality`), and of what a clock does:
a breaker's timeout, the 30 seconds of a tool call, the clean-up thread, the hourly
job. Threads are scheduled, SQL statements, connection attempts and agent calls
return, with an error if need be, and clocks advance. Of the scheduler's
coordinator and workers strong fairness is assumed, as each of them asks for
`queue_mutex_` again and again while others hold it. Nothing is assumed of
clients, tool servers, crashes, failures, restarts, spurious wake-ups or the
calendar. `Recovers` speaks of breakers that are asked again and again.

## Proofs

Every invariant and every action property of a passing run is a theorem, but for
`NoDeadlock`; the theorems hold for every value of the constants under the named
assumptions of the modules. Each rests on an inductive invariant that TLC checked on
a small instance first. Eight modules hold the proofs.

*Pipeline* (`DurableQueryProofs`). The inductive invariant is `TypeOK`,
`ChecksStayValid`, `RowsShareOwner`, `CompletedWasReserved` and
`HistoryWellFormed` together. The key is `ChecksStayValid`: a run that has passed
a check still sees it hold, since rows are never deleted and never change owner;
with it each write finds its row in the state the write needs.
`RetriesNeverRewrite` and the refinement (`ImplementsLifecycle`) follow step by
step: one lemma per action says to which abstract action it maps, or that it
stutters. `OkMeansDurable` adds what a run still has to write before it answers
(`OkInv`).

Three theorems have the hypothesis `MaxFaults = 0`, no transaction fails, which is
the setting of the run `DurableQueryNoFault`; with faults the statements are false, as
`DurableQueryStuckRunning` and `DurableQueryUnderbilled` show. Without faults no step
takes an error path (`Unfailed`), so a row that is `running` has the run that
settles it (`RowHasWorker`: `RunningHasWorker`), and a charge equals the reservation
(`ChargesFit`: `LedgerMatchesReservation`). `RecordsAgree` excepts requests whose
runs overlapped or crashed: for the others one run writes log and trace, and at each
of its steps the invariant says how the two differ (`PairFits`).

*Budget* (`BudgetReservationProofs`). The inductive invariant is `TypeOK`,
`GlobalLockHeld`, `ReadsStayCurrent` and a `Discipline` saying which steps belong
to which operation and when a policy row is locked. Two reservations are never
both past the global lock (`Exclusion`), so nothing a reservation has read can
change but by itself; the row lock does the same for the policy. From it follow
`WithinLimits` and `ChargedOnce`. `CountersMatchReservations` speaks of the set of
tokens in a bucket, each numbered within its request, so that its size is their sum;
a commit adds the tokens of one request, to its own buckets only (`CountFits`).
`NoCircle` is what `NoDeadlock` rests on: a transaction that waits for the
global lock, or for a bucket, waits for one that is further on in the order of the
locks (whoever holds an advisory lock has the global one, `HoldersPast`), so while
one has not ended, one waits for nobody (`SomeoneGoesOn`, a part of `BudgetInvariant`).
`NoDeadlock` itself says that an action is `ENABLED` and stays with TLC.

The refinement (`AtomicCorrect`) puts these together, one lemma per action. A key of a
bucket means the reservations that share a level (`KeysMeanShares`), so a counter is
what `AtomicBudget` counts (`UsedIsCounted`) and `wouldExceed`, written with
subtractions that cannot overflow, decides as the plain sum does (`ExceedsExactly`).
What was read before is still current at the decision (`MayBeDecided`, from
`ReadsStayCurrent`), and steps that only lock or read are stutters
(`UnnoticedSteps`). `CeilingCorrect` says what limits are for: if no limit of a level
that is ever in force allows more than a ceiling, the reservations in a bucket of that
level never add up to more, however policies change. It needs of each policy that it
sets a limit, as 0 means none.

*Breaker* (`CircuitBreakerProofs`). One invariant for each breaker relates its
state to its counters. It needs `ThresholdAssumption`, the relations between the
thresholds of the default configuration: with them the failure rate alone never
opens a breaker that its failures have not opened already, and a half-open
breaker closes before it would refuse. Calls matter only through their type, so
the proof holds for any number of callers and any paths.

*Pool* (`ConnectionPoolProofs`). The conjunction of the four parts of `PoolInvariant` is
inductive. `LeasesMatchHolders` lets a lease be followed from `Acquire` to
`Release`; `NoLostWakeup` counts free connections against threads that will
look or notify, so its steps rest on lemmas about cardinalities.

*Interventions* (`InterventionsProofs`). The inductive invariant is the type
invariant, `OneUndoPerDecision`, `DecisionsCanBeUndone`, that each intervention has
one query that creates it, and that used undo actions exist. The compare-and-set of
`resolveIntervention` gives each decision one writer; the undo action it writes is
used by one restoring transaction. From it follows `AbortIsFinal`: an undo action
that is open belongs to a decision that is reversible. `OneRunPerDecision` counts
executions exactly: those made, those a handler is about to make and those that a
failing call left out (`unrun`) are as many as the decisions to execute, undone ones
included. For this one needs to know of each handler what it has seen of its request
(`HandlersMatch`), and that an open undo action is of the decision that stands
(`RowsMatch`).

*Threads* (`BackgroundSchedulerProofs`).
The scheduler's invariant is the type invariant, `NoDanglingTask`, `NoSleepOnWork`,
that the coordinator ends only when the scheduler stops, and that one worker at most
is between its look at `running_` and its wait. `NoSleepOnWork` counts queued jobs
against workers that look. `CancelledStaysQuiet` follows step by step. For
`OneRunUnlessLate` a job that was never late is in one place at a time: with the
coordinator, in the queue, or with a worker (`InOnePlace`).
The MCP client: requests, answers and the client that waits form one pipeline in the
order of the request numbers (`Pipeline`), so an answer can only go to a wrong
request after one was given up; the list of tools is the server's unless a change
or a refresh is on its way (`ToolsFit`).
The registry, in two theorems. `MessagesCorrect` needs no hypothesis: whatever calls
overlap, messages are queued in the order of their numbers, and what a listener has
is older than what is queued and had by no other (`MessagesFit`); searches miss no
agent. `RegistryCorrect`, with the routes, needs none either: of an agent that is not
`torn` there is one call at most, memory holds from its first step on what it is about
to tell the router, and without a call the route is what memory says (`RoutesFit`). A call
that begins alone re-establishes this whatever was left before, and so does a restart.

*Rows* (`RowsProofs`), each written in several transactions.
Comparisons: at each point of the call the row follows from the outcomes and from
what went wrong (`RowFollowsCall`). Migrations: a run has behind it what is applied
with the checksum it read, and has the lock when it looks and when it writes
(`RunFits`); below an applied version none of a directory is missing (`NoGaps`). The
refinement (`UpgradeCorrect`): a run is at the first migration that it has not seen
applied (`AllBefore`); what it applies comes behind all that is applied, by the lock, the
check and `NoGaps` (`ExecutesNext`); it refuses only a conflict (`RefusesUpgrade`); and
what it does between two migrations goes unnoticed (`UnnoticedMoves`). Route
quality: of those who count one key, one at most is at work and has read the present
ratings, or somebody will count them again (`CountsFit`). Tasks: a task is its creator's
alone until it is stored (`CallFits`), and a change that no other overlaps is told as
it was stored (`ChangesInTurn`); `EndedStaysEnded` follows step by step.

*Calls* (`CallsProofs`), each of many steps.
The executor: a subtask's degree counts its dependencies outside the layers
(`ReadyFits`), each member of a layer is behind what it depends on (`LayersFit`), and
subtasks of earlier layers are answered, those of later ones untouched
(`SubtaskFits`); no plan with a circle is sorted, as the member of the circle in the
lowest layer would be behind one in a lower layer. `ResultsFinal`, that no recorded
result is replaced, follows step by step; no run checks it, as `ImplementsPlan` implies it.
The refinement (`PlanCorrect`): the count by which a plan is refused is right, as the
ids are a surjective image of the entries (`ExecutableMeans`); a layer is admitted at
the look at the clock before it, when it depends only on layers that are answered
(`LayerMayStart`), and its calls start afterwards, when the deadline may have passed; what
has been admitted follows from the place in the loop (`Admitted`), and what has no result when the executor gives up is
exactly what it has not admitted (`UnansweredIsAhead`), though it gives up by layers; and
when it runs out of layers, nothing is unanswered.
Agent calls: for each step of a query, what it has seen, sent and written
(`QueryFits`), and unless another query came between, the shared client's settings are
its own (`OwnClient`). The gateway: the browser has got what was read of the service's
events, with one more at the end at most (`KeepsUp`, `Relayed`), and the last one tells
the status (`Told`). The chat: questions are followed by answers (`MessagesFit`), and
unless a question came too early, one body is open at most (`OneBody`).
The fail-over has many steps, so each is described first by what it does to the rest
(`Acts`), to the list of servers (`Conveys`), to channel and stub (`Aligns`) and to the
list of candidates (`Completes`), and the invariants follow from these four.
Attempts made and under way exceed the limit at most by the number of callers
(`TriesFit`), who all check it before any of them counts. Unless `crossed`, one thread
at most fails over, and channel and stub lead to the current endpoint as far as it has
got (`Lone`, `Aligned`). Unless `outrun`, one view of the registry is on its way at most,
and it is what the registry has (`Straight`). A thread that has been alone with a server
that stayed up has not left that server out (`Watched`, `Complete`), so it does not
give up.

*Assumptions.* Finite sets and bounds in `Nat` (`InterventionsFinite`, `FailoverFinite`,
`QualityBounds`, `ChatBounds`, `MigrationBounds`, `MaxQueries` in `AgentCallBounds` and
their like) say of the constants what any instance satisfies. Three say something of
the system: `ThresholdAssumption` (above); `ReleasesGrow`, that a release adds its files behind those of earlier ones, as the
numbered files under `db/migrations` do; and the hypotheses named with their theorems. TLC evaluates each
assumption on the run of its module.

Only model-checked: `NoDeadlock` (which actions are enabled), and the liveness
properties `RunningIsSettled`, `Recovers`, `EveryCallReturns`, `SchedulerProgress`,
`CallsReturn`, `CopiesConverge` and `QualityCatchesUp`, which are out of the prover's
reach. So are, of course, the violations.

## Plan

1. An abstract registry in which an agent is present or not, refined by
   `AgentRegistry` for agents that are not `torn`; `RoutesFit` is the
   invariant that its refinement needs.
2. `DurableQuery` composed with `AtomicBudget` in one module, in place of the
   argument above that a reservation may be one step.
3. The refinement of further promises: a scheduler that runs each job that came due,
   a chat that answers each question.
4. The asynchronous logger's queue (`common/src/logger.cpp:217-241`), and liveness
   of the chat (each question is answered, stopped or offered again).

## Not modelled, and why

- `mcp_server_integrated/`: a vendored third-party MCP server with its headers
  (`json.hpp`, `httplib.h`, `popl.hpp`, `aixlog.hpp`), more than half of the lines of
  code in `src/`. It is not this project's logic; its client's side of the protocol
  is `McpSession`. For this reason alone the mapped lines stay a small share of all.
- The choice of an agent among healthy ones (`agent_router.cpp`), vector search,
  embeddings and their cache, prompts, JSON and protobuf conversion, metrics and
  logging: computations on texts and floats without state of their own, caches
  under one mutex, or nothing on which a decision of the modelled parts depends.
  `SemanticCacheIndex` and `MCPAgentIntegration` are used by tests only.
- Dead code: the Redis budget middleware (nobody calls `checkAndDeduct`) and the
  cron scheduler (`main.cpp:348-351` replaced it by a background job).
- Authentication, sharing, observability, replay and export: owner-scoped reads and
  transactions on single rows. The pipeline uses only the owner that a session
  establishes, which is an input of `DurableQuery`. `usage()` of the budget reads four
  counters in separate statements; the mixture is shown to users and decides nothing.
- PostgreSQL, Redis, gRPC and the agents themselves: modelled by what the code
  can see of them (a transaction commits, fails, or commits unnoticed; a lock is
  granted when free; a call returns or fails).
- Redis caches of the pipeline and the memory service: their failures are
  swallowed, and no decision is made on their content.
- The MCP client over HTTP, the Consul registry (whose watchers are stored but never
  called), the client library's own breaker, views of the web interface, start-up
  of the server: listed in `PROJECT.json` with the part they belong to.
- Vendored libraries, plugins, examples and tests.
