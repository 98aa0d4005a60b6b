# MetaMCP in TLA+

MetaMCP (`src/metamcp/`, Python, asyncio) is a server that keeps a catalogue of
tools, lets agents search and execute them under policies, composes them into
workflows, and wraps foreign MCP servers. This directory holds TLA+ models of
its core components, the TLC configurations that check them on small instances,
and TLAPS proofs of what matters most for instances of any size.

Paths below are relative to `src/metamcp/` unless they start with `src/` or
`docs/`. Every definition that models code is listed with its lines in
`PROJECT.json` under `map`.

```
tlc -workers 2 -config Workflows.cfg MCWorkflows.tla    # a run
tlapm Workflows_proofs.tla                              # the proofs of a module
```

The modules and configurations of all runs are in the table of section 5.

## 1. Inventory

What the system consists of, what each part keeps, and what must hold of it.
"Steps between awaits are atomic" applies everywhere: MetaMCP is one event loop
per process, so two coroutines interleave only where one awaits. That is what
makes an `await` the place where things go wrong.

| Component | State | Operations | Hard behaviours | What makes it correct |
|---|---|---|---|---|
| **Workflow engine** `composition/engine.py`, `models.py` | registered workflows; per execution: step statuses, results, executed steps, error | register_workflow, execute_workflow, waves of steps, retries, sub-steps, loops | coroutines of a wave interleave; some fail; exceptions inside gather results | dependencies first, honest outcome, retries within budget, no coroutine left behind, every execution ends |
| **Workflow executor, orchestrator, persistence** `composition/executor.py`, `orchestrator.py`, `persistence.py` | active executions, history, metrics, rows in a database | execute, cancel, list, persist, load | cancellation against completion, check-then-insert, restart | a cancelled execution stops, history has each execution once, a restart finds what was saved |
| **Background tasks** `performance/background_tasks.py` | dict of tasks, queue, workers, thread pool | submit, cancel, poll, cleanup, start, stop | workers against callers, retry against cancel, stop at any await, restart | one holder per task, none lost, outcomes final, retries within budget, every task ends |
| **Circuit breaker (performance)** `performance/circuit_breaker.py` | state, two counters, time of last failure | call, reset, force_open | late answers of calls admitted in another state | opens and closes only for its reasons, rejects while open, recovers |
| **Circuit breaker (utils)** `utils/circuit_breaker.py` | the same, under an asyncio lock that is free during the call | call, reset | the same | the same |
| **Tool registry** `tools/registry.py` | tools, in memory; vector index | register, list, search, execute | policy asked per tool with an await each, index and dict written separately, four endpoints tried per attempt | nobody sees what the policy denies, listings become current, a call is answered by its tool |
| **Redis cache and decorators** `cache/` | entries with a time to live | cache_result, cache_invalidate, get, set | entry computed before a change and stored after it; key and pattern must agree | a user gets only entries of their own; stale entries go |
| **Policy engine** `security/policies.py` | policies and versions; OPA is external | check_access | remote engine fails | a failure denies |
| **Rate limiting** `security/rate_limiting.py`, `utils/rate_limiter.py`, `security/middleware.py` | per key: counter, window, tokens; or a log of request times; or a counter in Redis | check, reset, configure; two middlewares | boundaries of windows; state shared by strategies; INCR and EXPIRE are two commands | a bound on what any interval admits; nobody denied for old requests |
| **Resource limits** `security/resource_limits.py`, `api/resource_management.py` | active executions, history, violations | start, end, report, interrupt; monitor | the monitor counts what it is changing; ends of one execution race | a sweep leaves nothing over its limit, one archive entry per execution |
| **Load balancer** `mcp/load_balancer.py` | servers, health, connections, checkers | add, remove, start, stop, pick a server | dict iterated across awaits, start during stop | a healthy server is found, no checker is orphaned |
| **Proxy** `proxy/manager.py`, `proxy/wrapper.py`, `proxy/discovery.py` | wrapped servers, their health and tools | register, unregister, health check, call | id taken from the number of servers before an await, unregister against a call | no wrapped server is overwritten, policies apply to wrapped tools |
| **Service discovery** `services/service_discovery.py` | services in Redis, a cache in front, health | register, deregister, find, health loop | a cached entry of a service that has gone | a deregistered service is not handed out |
| **Credentials** `security/auth.py`, `services/auth_service.py`, `security/api_keys.py`, `auth/oauth.py` | sessions, revoked tokens, keys in memory and database | login, refresh, logout, validate, revoke | revocation in memory only, restart | a revoked credential is refused |
| **Tool services and developers** `services/tool_service.py`, `security/tool_registry.py`, `api/tools.py` | tools, history of executions; developers' rows | register, update, delete, list by pages, execute; verify, deactivate | pages shift while tools come and go; sessions overlap | a name stands for one tool; a listing misses nothing that stayed; no session undoes another |
| **Search** `services/search_service.py` | record of searches, counts | search by words, by terms, by both | scores of two searches are mixed, cut at a limit | the best are found, once; counts are those of the record |
| **Memory cache** `utils/cache.py` | entries, order of use, expiry | get, set, get_or_set | eviction at capacity, concurrent computation | capacity, freshness |
| **Streaming** `mcp/streaming.py` | streams, flow controllers, queues | create, send, receive, cancel, close, cleanup | a sender waits for room; cleanup against use | chunks in order without gaps; every stream goes |
| **MCP server** `mcp/server.py` | the loop over the lines of a client, the count of calls | read, answer, stop; HTTP routes | a line that cannot be handled; stop while the loop blocks | every line is answered, once, in turn |
| **Transports** `mcp/transport_plugins.py` | plugins, the link of each | register, connect, disconnect, shut down | a connect finishes during a disconnect | what is open can be closed |
| **Application and server** `main.py`, `server.py` | which components are up | start, serve, stop | a start that fails half-way, a stop that raises | nothing is left running |
| **HTTP API, client, admin, monitoring, connection pool, database models, language model, helpers** | none of their own, or an external service's | parse, call a service, format | – | – |

**How they interact.** HTTP handlers and the MCP server call `ToolService` and
`ToolRegistry`; the registry asks the policy engine (which may ask OPA over
HTTP), the vector database, and Redis through the decorators of `cache/`, and
runs tools over HTTP through a breaker of `utils/circuit_breaker.py`. The
workflow orchestrator drives `WorkflowEngine`, which is handed a
`tool_executor` callback (the HTTP handler passes one that only pretends,
`api/composition.py:260`); `WorkflowExecutor`, a second interpreter of steps, is
exported and used by nobody. Background tasks,
resource limits, rate limits and the load balancer are managers on the same
event loop; their shared state is protected by nothing but the absence of an
await. What survives a restart is outside the process: database, vector index,
Redis.

Hard behaviours are listed with their lines in `PROJECT.json` under `hazards`,
each with the properties that would catch it going wrong.

## 2. How the project is built

One module per component, and five modules that put components side by side for
TLC:

| Composite | Its parts |
|---|---|
| `MCWorkflows` | WorkflowEngine (over `MCWorkflowEngine`, which builds the workflows), WorkflowValidation, WorkflowExecutor, Orchestrator, WorkflowPersistence |
| `MCServers` | PerfCircuitBreaker, UtilsCircuitBreaker, ToolExecution (over the same breaker), LoadBalancer, Selection, ServiceDiscovery |
| `MCRuntime` | BackgroundTasks, ResourceLimits, RateLimiter, RateLimits |
| `MCCatalog` | ToolCatalog, ToolLifecycle, Developers, MemoryCache, PolicyVersions, PolicyChecks, SearchService |
| `MCPlatform` | Credentials, OAuth, ProxyFleet, Streaming, Lifecycle, Transports, McpSession |

The parts of a composite share no state with one another (ToolExecution and its
breaker do, and are modelled as one). An interleaving of parts that share
nothing projects to a behaviour of each part, so nothing is lost by letting a
behaviour be of one of them, the variable `subject`, while the others rest in
one initial state: the composite explores the sum of the parts' states instead
of their product, and its properties are the parts' properties. `AnswersHold`,
`BooksAreClosed` and other names of that kind are conjunctions of properties
stated, with their comments, in the parts.

`CircuitBreaker`, `WorkflowPromise` and `WorkflowStore` are abstract
specifications, implemented by the detailed modules through refinement mappings.
`BreakerSettings` holds the constants of both breakers and their assumption. A
module that a composite extends states its own assumptions; those of the parts it
instantiates are named in the composite (`DefinitionsAssumption` and
`VersionsAssumption` in `MCWorkflows`, `ClockAssumption`, `CostsAssumption` and
`RequestsAssumption` in `MCRuntime`, `StoreAssumption` and `SearchAssumption` in
`MCCatalog`, and so on), where TLC evaluates them and the proofs cite them.

Where components do share state, one module holds both sides: ToolExecution
drives the breaker's own actions; ToolCatalog has registry, cache, vector index
and policy engine in one state; Credentials has both verifiers and both stores
of keys; RateLimits has the middleware, the processes and Redis; ProxyFleet has
the manager, the wrapper, the discovery and the HTTP handlers.

## 3. What is modelled, and how it corresponds to the code

### Composition

**WorkflowEngine** is one execution of one workflow by
`WorkflowEngine._execute_steps` (`composition/engine.py`). The workflow is a
variable that never changes, chosen from the constant `Workflows`; a step is
its position in `workflow.steps`, so "the first failed step of the list" is a
minimum. `Init` admits only what `register_workflow` accepts.

| Model | Code |
|---|---|
| `PickWave`, `Ready` | `_get_ready_steps` and the head of the loop in `_execute_steps` |
| `ReportCircular`, `CompleteWorkflow`, `Abort` | empty ready set; end of the loop; the exception on its way through three handlers |
| `Reached`, `GatherWave`, `AdvanceSequential`, `AbortSequential` | the branches on `parallel_execution`: `asyncio.gather(return_exceptions=True)` with the zip loop after it, or the `for` loop |
| `SkipStep`, `RejectStep`, `CompleteAtOnce`, `StartActivity`, `StartParts` | the entry of `_execute_step`: condition, ill-formed configuration, dispatch by type |
| `CallReturns`, `CallRaises`, `CallRaisesEarly`, `RetryCall` | `_execute_tool_step` with its retry loop and sleep |
| `StartPart`, `PartReturns`, `PartRaises`, `PartsSucceed`, `PartsFail` | `_execute_parallel_step` and `_execute_loop_step` |

Abstracted: arguments, results and conditions (a condition holds or not,
freely), the length of sleeps. `WorkflowPromise` is what a user of the engine
relies on: dependencies before dependants, no end while a step is active,
success only if every step ended well, failure only for a reason.

**WorkflowValidation** is `register_workflow` with the depth-first search of
`_has_circular_dependencies` as written, one call, return or look at a neighbour of
`dfs` at a time (shared `visited` and `rec_stack`, early returns, duplicate names
collapsing in a dict). `frames` is Python's stack: each frame has its node and the neighbours
its loop has still to look at, which may come in any order. It justifies the
definition `Acyclic` that `WorkflowEngine` uses.

| Model | Code |
|---|---|
| `ValidateWorkflow`, `WellNamed` | `_validate_workflow` up to the search |
| `Roots`, `SearchFrom`, `Registers` | the loop over the nodes of the graph, and its end |
| `GoesDeeper`, `FindsCycle`, `Passes` | a neighbour that is new, on the recursion stack, or done |
| `Returns`, `Unwound` | the node leaves `rec_stack`; `return False` |

**WorkflowExecutor** is the second interpreter of steps, with a timeout per call
and sub-steps that report failures as results. A step or sub-step without a tool
fails before its first attempt (`unnamed`), and a parallel step with a sub-step of
an invalid type before any of them runs (`"mistyped"`). **Orchestrator** is what surrounds
an execution: which definition it runs, cancellation, history, cleanup, and the
difference between one orchestrator in a process and one per HTTP request
(`deployment`). **WorkflowPersistence** is the table of definitions under clients
whose saves are two statements; `WorkflowStore` says that each call takes effect
at one instant, or raises.

### Work in the background, and its limits

**BackgroundTasks** is `BackgroundTaskManager`. A task has a status, a retry
counter and a place: being submitted, in the queue, or held by a worker. Each
await of `_worker` separates two actions (`TakeTask`, `BeginTask`,
`FunctionReturns` / `FunctionRaises`, `RecordSuccess` / `RetryTask` /
`RecordFailure`), and at each of them a cancelled worker may end
(`WorkerCancelled`), or the cancellation may be swallowed by `wait_for`
(`CancelForgotten`). `stop()` is two actions, before and after its gather, so
that `start()` can come between them: workers of two generations then overlap.
`get_task_result` polls, so its answer is taken from a state of the model and
remembered in `answer`. Functions of `SyncTasks` run in the thread pool, which
`stop()` shuts down for good: after a restart it refuses them (`Refused`), as it
does, at any time, functions with keyword arguments (`KeywordTasks`). A refused
function has not run: `runs` counts only what was started, and such a task is FAILED
after fewer runs, or none. `dropped`, an observer, names the tasks that a worker held
when `stop()` cancelled it. Abstracted: results, and time (a task is old
enough for cleanup, or not, freely).

**ResourceLimits** is `ResourceLimitManager` with the handlers of
`api/resource_management.py`. The monitor's sweep has no await, so requests are
enabled only outside it (`Idle`), while the sweep itself is a sequence of steps in
the order of the dictionary, because each counts a user's executions anew after
the earlier ones may have been interrupted. A limit may be null: the API takes
`int | None`, and the comparison then raises, which ends the sweep
(`SweepRaises`). The single resources are one Boolean, `over`, except the number
of concurrent executions, which relates executions to each other.

**RateLimiter** is one key under each of the strategies of
`security/rate_limiting.py`, and the log of request times of
`utils/rate_limiter.py`. Fractional tokens are exact: they are multiplied by the
window. The log is a set of times, numbered within their tick. `granted`, an
observer, says what was let through up to each time, so that the grants of an
interval (`Got`) are a difference. **RateLimits** puts the three middlewares around a handler: a counter in
Redis, shared by processes that may fail between INCR, EXPIRE and TTL, and the
two middlewares of one process. Both call the handler a second time when it
raised.

### Servers

**CircuitBreaker** is the abstract breaker: a state and the calls under way; no
admission while OPEN, and a late answer never changes an OPEN circuit.
**PerfCircuitBreaker** and **UtilsCircuitBreaker** are the two implementations,
with counters, thresholds, recovery time and calls that end in another state than
the one that admitted them; both refine it (`KeepsPromise`). Counters are
compared only with their thresholds, so they saturate at `CountBound`; time is
ticks since the last failure, up to `RecoveryTimeout`. `trial`, `streak` and
`sinceOpen` are observers: no action reads them. `healthy` is the guarded
service, which fails only while it is unhealthy; it changes at any time.

**ToolExecution** is `execute_tool` of the registry over the actions of that
breaker: endpoints in turn, attempts, a post that lands or not, an answer that
arrives or not, cancellation of the caller. `served` counts how often the tool
ran.

**LoadBalancer** has the servers, one checker object per `add_server` (`entry`
says which one a server uses), `start` and `stop` without the lock, and the walk
of `stop` over a dictionary that may change under it. **Selection** is
`get_server` for each strategy over every set of healthy servers, which are
numbered in the order of the dictionary: the turns of a round are a set, and the
server at an index is the one with so many turns before it.
**ServiceDiscovery** is the dictionary of services, the rows behind it, and the
health loop, whose round breaks off when the dictionary changes.

### Catalogue

**ToolCatalog** is `register_tool`, `list_tools` and `search_tools` of the
registry, with the cached listing, the vector index and the policy engine of
either type. A request is a record with a phase per await. `Check` and
`CheckAccess` are the loop over the tools: with `"internal"` there is no await
inside (one step), with `"opa"` every tool is a step, a failed query denies, and a
dictionary that has grown meanwhile makes the iteration raise. `Matching` is the
set of cache entries that `cache_invalidate` clears: the pattern names keys that
`cache_result` does not write, so it is empty. `Restart` loses the dictionary and
all requests and keeps the index. Abstracted: policies (`Readable`, a relation of
users and tools), similarity (any subset of the index may be similar enough).

**ToolLifecycle** has the two stores of tools behind the HTTP interface and a
client that reads a listing page by page. `ToolService.update_tool` writes every key
it is given without a look at the other tools: the name, the category, the
`is_active` flag, and the id, under which it then stores the tool once more. So an
entry (`Ids`) refers to a tool (`object`), two entries may refer to one, and `clashes`
counts the updates that took a name that is taken, or another id. The update of
`api/tools.py` has no such field. **Developers** has the developers' rows
under sessions that overlap between load and commit. **MemoryCache** is
`utils/cache.py` on either backend: lookup, eviction, expiry, concurrent
`get_or_set`. **PolicyVersions** has the versions of policies and their upload to
OPA, one request after the other. **PolicyChecks** has address lists, rate check
and quota around a decision that may be awaited; `counted` observes the checks
counted up to each time. **SearchService** computes the three kinds of search with
their scores, order and cut: a hit has its place in the list that is sorted, and
since `sort()` is stable its rank is the number of hits with a higher score, or
the same score and a place before it.

### Platform

**Credentials** has the tokens of both verifiers and the API keys in memory and in
the database. A token is its user and the second it expires in, because two
logins of one second get the same token. **OAuth** has flows and callbacks with an
action per await and statement. **ProxyFleet** has registrants (HTTP requests,
examples, discoveries) that choose an id before they await. **Streaming** has
senders that wait for room, receivers with a timeout, and the cleanup.
**Transports** has plugins and their links; a link nobody holds stays in `open`.
A process that does not end in five seconds, or a close that raises, is dropped by
its plugin all the same, and `shutdown` swallows what it raised: the link moves from
`open` to `stuck`, where it stays until it ends by itself (`StuckEnds`).
**Lifecycle** is the start and stop of the application and of
`MetaMCPServer.run`, each step of which may raise. **McpSession** is the loop of
the stdio server over the lines of a client, which blocks the event loop. Ctrl-C may
come while it reads (`Interrupt`), or between a line and its answer (`LineCut`), when
the call in the line was made or not.

## 4. Bounds and why they are enough

| Part | Bound | Why the interesting cases happen |
|---|---|---|
| WorkflowEngine | 3 steps, 2 parts, 2 attempts | all acyclic graphs of three steps (chains, forks, joins, an unknown id) for plain tools; all pairs of step kinds side by side or chained, with a third step that joins them |
| WorkflowValidation | 3 steps, one unknown id, in 3 orders of the list, one with a name twice | self-loops, cycles of two and three behind a tail, two roots that share a visited node, duplicate names |
| WorkflowExecutor | 2 parts, 2 attempts | one sub-step fails and one does not, a timeout in either attempt, a sub-step without a tool next to one that has it |
| Orchestrator | 2 workflows, 2 versions, 2 executions, 1 crash | an execution that ends after its definition changed, a cancel next to an end, a cleanup between two questions |
| WorkflowPersistence | 2 clients, 2 workflows, 2 versions | two savers of one new id; the theorem covers every number |
| BackgroundTasks | 2 tasks (one with 2 runs, one in the thread pool), 2 workers, 1 stop | a retry is in the queue while the other worker is free; stop at every await; the pool refuses the second task after the restart. Overlapping generations need more workers than the pool: covered by the theorem, whose `Workers` is any set |
| ResourceLimits | 3 executions, 2 users, limits 1 and 2 | one user over the limit next to another; a null limit before, between and after |
| RateLimiter | limit 2, window 3, minute 2, 5 ticks, costs 1 and 2 | a window and the minute do not coincide; two windows begin in the time |
| RateLimits | 2 requests at a time, limit 1, 1 window | both requests between the commands of each other, a failure at each |
| breakers | 3 calls, thresholds 2, timeout 1, 1 forced transition or reset | a late answer and two others around every transition; a threshold of two tells one failure from enough |
| ToolExecution | 2 calls, 2 endpoints, 2 attempts | the loops have a first and a last round; one call opens the circuit under the other |
| LoadBalancer | 2 servers, 2 additions, thresholds 2 | a server removed and added again while the other is walked over |
| Selection | 3 servers, one of weight 2, 2 virtual nodes, counts 0 and 1 | every set of healthy servers, every index, ties and collisions of hashes; `Cycle` 12, where the index starts over, is a multiple of every round |
| ServiceDiscovery | 2 services, 3 calls | a registration or removal at every await of a round |
| ToolCatalog | 2 requests, 2 users with different rights, 2 tools, 1 restart | a registration inside a listing, two listings, an index older than the dictionary |
| ToolLifecycle | 2 names, 2 categories, 3 entries, pages of 1, 1 clash | a tool joins, leaves or changes its category or name between any two pages; one takes the name of another, or is stored under two ids. A behaviour has executions or a reader, not both: neither changes what the other sees |
| Developers, MemoryCache | 2 sessions; 2 callers, 3 keys for 2 places | two sessions on one row; a load that ends after an eviction |
| PolicyVersions, PolicyChecks | 2 policies, 2 versions, 2 uploads; 3 checks, limit 1, a minute of 1 tick | an upload overtaken by a change; checks on both sides of a window |
| SearchService | 3 tools, 2 words, one inside the other, up to 3 words in a query | ties, cuts, repeated words, every text |
| Credentials | 2 users, 1 key, lifetime 1, 1 restart | a token before and after expiry and restart |
| OAuth | 2 flows, 2 callbacks, 3 grants, 1 crash | both callbacks between SELECT and INSERT, a refresh meanwhile |
| ProxyFleet | 1 name, 2 endpoints (one of them a socket), 2 registrants, 2 servers, 2 requests | the same name registered twice at once, and after a removal |
| Streaming | 2 streams, 2 peers, room for 2 chunks, timeout 1, 2 ticks | two senders of one stream queue chunks in turn and then wait for room, a receiver gives up, the cleanup comes between |
| Transports | 2 built-in kinds, 4 plugins, 2 links | connect during disconnect, a plugin replaced while it is linked, a close that fails before, in or after a shutdown |
| McpSession | 2 lines, 1 request over HTTP | a bad line before a good one, a stop or Ctrl-C between them |

`MaxStops`, `MaxOperations`, `MaxRestarts`, `MaxExecutions`, `MaxAdds`,
`MaxCalls`, `MaxTicks`, `CountBound`, `MaxTime` and their like cap what is
unbounded in the code; each is a guard (or the saturation of a counter) and is
named as a bound where it is declared. Deadlock is checked in `workflows`,
`servers` and `catalog`. In `runtime` and `platform` the system may really stop:
every task is over and the manager stopped for the last time, the program is
down, a session has ended.

## 5. Runs

| Run | Module, configuration | What it shows |
|---|---|---|
| `workflows` | MCWorkflows, Workflows.cfg | order of dependencies, honest outcome, retries and parts accounted for, no orphan, final statuses, refinement of WorkflowPromise, termination if tools answer; the depth-first search accepts exactly the well-formed definitions; what callers of the orchestrator and of the table were told holds (refinement of WorkflowStore); loops of the executor are honest and timed steps end |
| `servers` | MCServers, Servers.cfg | both breakers open and close for their reasons only, reject while open, refine CircuitBreaker, recover; calls of a tool are bounded, stop at a success and end; checkers follow start and stop, statuses are earned; each strategy is fair or sticky; a service that is gone is not found, verdicts of health settle |
| `runtime` | MCRuntime, Runtime.cfg | one holder per task, nothing lost but what a cancelled worker held, through a stop and a restart, runs within budget, final outcomes, every other task ends; executions are archived once and sweeps leave nothing over a limit; what each limiter lets through; a denial is owed to the last window; who still has to give a shared counter its life, except for a lost EXPIRE |
| `catalog` | MCCatalog, Catalog.cfg | answers and cached listings stay within a user's rights, stale listings go; pages miss nothing and repeat nothing that stayed; a name stands for one tool until an update takes it for another; developers' changes are kept; the cache is bounded and fresh; OPA serves what is active; a minute is bounded by twice the limit; searches give the best |
| `platform` | MCPlatform, Platform.cfg | refused tokens and revoked keys stay refused; a flow serves one callback; listed servers can be called, ids do not come back; chunks are numbered without gaps; shutdown is complete; what is open is held, and after a shutdown only what failed to close is left; lines are answered once in turn, but for one that Ctrl-C cuts off; streams go, discoveries end, lines are read |
| `engine_timeouts` | MCWorkflowEngine, WorkflowEngine_timeouts.cfg | **violated**: without the assumption that tools answer an execution may run for ever |
| `tasks_cancel` | BackgroundTasks, BackgroundTasks_cancel.cfg | **violated**: a task reported cancelled runs and completes |
| `utils_breaker_trial` | UtilsCircuitBreaker, UtilsCircuitBreaker_trial.cfg | **violated**: successes from before the trial close the circuit |
| `tool_failure` | ToolExecution, ToolExecution_failure.cfg | **violated**: a call that no endpoint answered is reported a success |
| `tool_catalog_stale` | ToolCatalog, ToolCatalog_stale.cfg | **violated**: after a registration a listing without the tool is still cached |
| `oauth_refresh` | OAuth, OAuth_refresh.cfg | **violated**: a refreshed token does not reach its row |
| `proxy_unregister` | ProxyFleet, Proxy_unregister.cfg | **violated**: a server is called after it was unregistered |

For every property of a passing run `PROJECT.json` names a mutant: a change of
one definition, as a plausible bug would make it, under which the run fails. The
mutated definitions stand next to the originals, marked "mutant". Some parts of a
property that joins several have further ones, and each makes its run fail.

### What the violated runs say

* **Timeouts of workflows are never applied** (`composition/engine.py:316`).
  `docs/composition-improvements.md:136` promises "Configurable timeouts for all
  operations", and `WorkflowStep.timeout` and `WorkflowDefinition.timeout` exist;
  nothing in the engine or the orchestrator applies them. `WorkflowExecutor`
  applies a timeout, but nothing uses it.
* **A cancelled task runs** (`performance/background_tasks.py:237`). The worker
  looks only whether the id is known, not at the status; the caller has been told
  "cancelled" and finds it COMPLETED later.
* **The utils breaker closes too early** (`utils/circuit_breaker.py:194`).
  `_success_count` is neither cleared on opening nor on half opening, so
  `success_threshold` is met by successes from before the outage.
* **A failed call is a success** (`tools/registry.py:569`). When no endpoint
  answers, a mock result is returned; the docstring of `execute_tool` promises
  `ToolExecutionError`. Any status other than 200 also counts as a success of the
  breaker, and a caller that was cancelled may still have run the tool.
* **Registering a tool clears no cached listing** (`tools/registry.py:136`).
  The pattern is `tools:list:*`, the keys are `cache:` and a digest. The tool
  is hidden for up to the time to live.
* **A refreshed OAuth token is not stored** (`auth/oauth.py:557`). The row belongs
  to another session than the one that is committed.
* **An unregistered server is still called** (`proxy/manager.py:278`). The manager
  forgets it; the wrapper, which routes the calls, does not.

### Other behaviour the models had to follow

Where code and intention seem to differ the model does what the code does. Here no
run is about the difference, because no text states the intention or because one
look at the code shows it:

* Orchestrator: `cancel_workflow` always answers False; failed executions never
  enter the history; a restart loads nothing, as `_persist_workflow` is never
  called; over HTTP each request has an orchestrator of its own. A workflow that
  was deleted softly and saved again stays unloadable. `save_execution` and
  `cleanup_old_executions` raise on every call. In the executor a parallel step
  with a failed sub-step is COMPLETED.
* Background tasks: the comment "Add to queue with priority"
  (`background_tasks.py:138`) stands above a first-in-first-out queue. A forced
  circuit of the performance breaker may let a probe through at once. After a stop and
  a start every function for the thread pool fails, as the pool is not made anew.
* Rate limits: the middlewares call the handler again after an exception, and one
  reads a key `"remaining"` that does not exist; a lost EXPIRE counts a client for
  ever. The rate check of policies shares its `limit` with the quota, and counts
  checks that are refused afterwards.
* Load balancer: `stop` raises when its dictionary changes, and leaves checkers
  running; connections of removed servers are kept.
* Credentials: `logout` of the API only logs, under the docstring "Logout current
  user and invalidate token" (`api/auth.py:266`): the token stays valid. Logins of one user in one second
  give one token; after a restart API keys are refused, because their rows are
  read by nothing in the server. OAuth: two overlapping callbacks leave two rows,
  after which every lookup raises.
* Proxy: discovered servers of one host share a name; receiving on a websocket
  has no timeout; a server whose tools could not be listed stays callable.
* Transports: after a shutdown, or a disconnect, a process that refused to end runs
  on, and nothing knows of it.
* Tools: a deleted tool is found and executed by its name; an update of ToolService
  may give a tool the name of another, and one of the two is then never found. Developers:
  `tools_created` is never persisted, so `can_manage_tool` is always false.
* Policies: `create_policy` over an existing name deprecates nothing; a failed
  start and a second one load the predefined versions twice; a late PUT may
  overwrite a newer version.
* Application: it never shuts its MCP server down; a half initialised MCP server
  is left as it is. Streams never become ACTIVE, so their loops end at once and a
  sender that waits for room waits until it is cancelled. A line of JSON that is
  no object ends a session with the rest unread. A second connect leaks the first
  link of a transport.
* Search: with a word twice in the query a hybrid search may rank a tool that both
  searches found lower than by words alone.

## 6. Fairness

| Part | Assumption | Why |
|---|---|---|
| WorkflowEngine `EngineFairness` | weak, of every step's own actions and of the main coroutine | asyncio runs every ready coroutine |
| WorkflowEngine `AnswerFairness` | weak, of every step's call | an **assumption about tools**, kept apart because nothing in the engine enforces it |
| WorkflowExecutor | weak, of its control, and of the timeouts and retries of a call; tools need not answer | `asyncio.wait_for` cuts a call off |
| BackgroundTasks | weak, of enqueueing, polling, starting, every worker | submit_task runs on after its await; the application starts the manager; functions end (again an assumption about them). Cancelling, cleanup and stopping are not fair: nobody has to |
| breakers | weak, of time, of each caller's next admission, of each call's end | a circuit that nobody calls stays open, in the code too |
| ToolExecution | weak, of each call's loop and of the end of a post | the HTTP client has a timeout |
| LoadBalancer, ServiceDiscovery | weak, of each checker, and of the rounds | their tasks are on the event loop and requests time out |
| ToolCatalog | weak, of every request under way and of expiry | external calls answer or time out; entries have a time to live. New requests are not fair |
| ResourceLimits | weak, of the monitor | its task is on the event loop. Requests are not fair |
| ProxyFleet | weak, of a registrant's discovery | tests over HTTP have a timeout; those over a websocket do not, and `DiscoveryEnds` leaves them out |
| Streaming | weak, of the cleanup and of time | its task is on the event loop |
| McpSession | weak, of reading a line that is there | the loop blocks on nothing else |

The other parts promise safety only. In the composites each assumption is made of
the part while it is the subject.

## 7. Proofs

Each proof module proves its theorems for every value of the constants, under
the named assumptions only (types of the constants; thresholds positive; a
workflow is a `WorkflowDefinition`; there is a user; what is counted is finite).
`BackgroundTasks_proofs` extends the component; `Workflows_proofs`,
`Servers_proofs`, `Runtime_proofs`, `Catalog_proofs` and `Platform_proofs` extend the
composite, and prove the invariant of each part before that of the whole.
`Credentials` and `WorkflowPersistence` hold their few theorems themselves. The
pattern is the same everywhere: an inductive invariant, with lemmas for `Init` and
for `[Next]_vars` by one step per action, from which the properties follow. A
composite adds that every step is one of the subject and leaves the other parts as
they are, so that each part takes a step of its own or rests.

**Workflows_proofs.** All safety and action properties of the run `workflows`.
`PartsWithin` says that a behaviour of the composite is one of each part, so that
what is proved of a part alone (`StoreIsAtomic`) holds in it.

* Engine: `IInv` is `TypeOK /\ Acyclic(wf) /\ ControlFits /\ PartsFit /\
  CallsFit`. No property is inductive by itself: `DependenciesFirst`
  needs that the wave's dependencies are executed (`WaveFits`); `NoOrphans` that
  outside the wave nothing is active; `NoFalseCycle` that what is not executed is a
  non-empty set of steps each waiting for another member, which acyclicity
  excludes unless an id is unknown; `RetryBudget` that the counter follows the
  phase (`CallsOf`); `PartsAnswerForStep` that a loop has dealt with earlier bodies
  before the next (`PartFits`). `EngineKeepsPromise` maps each action to a step of
  WorkflowPromise or a stutter.
* Registration: `RegistrationExact` is the correctness of the depth-first search for
  definitions of any size. `SearchIInv` says that the nodes of the frames are those of
  `rec_stack`, each once (`StackFits`), and a path of the graph, whose calls have
  looked only at finished nodes and at the next one of the path (`PathFits`); that
  nodes that were visited and have left the stack lead only to such nodes and hold
  no cycle (`FinishedFits`). Both outcomes follow. What closes
  a cycle is a segment of the stack (`CycleFound`); a node that returns completes no
  cycle, because all it leads to was finished before (`ReturnKeeps`); at the end every
  node is finished (`NoCycleLeft`). The cycle is the one `Acyclic` speaks of, a set of
  nodes each with a dependency in it, so that no induction over paths is needed.
* Executor: `ExecutorIInv` adds to the types that a unit sleeps only before an
  attempt that it still has (`AttemptsFit`), and that the items of a loop that were
  started are its first ones, all but the last of them over, and none failed unless
  errors are tolerated (`LoopFits`).
* Orchestrator: `OrchestratorIInv` says that executions are numbered without a gap
  and the history holds only ends of some of them (`ExecutionsFit`), that what a
  caller was told of an end is that end (`ToldFits`), and that an orchestrator per
  request leaves nothing registered (`RegistryFits`). `AnswersKept` joins the second
  with the table's refinement of `WorkflowStore`.

**BackgroundTasks_proofs.** `IInv` is `TypeOK`, `OnlySubmitted`, `Books` (status,
retries, runs and the place of a task agree: a raise without a run is one of a task
the pool refuses, which it does for good), `OnePlace`, `NothingLost` (but for
`dropped`) and `AnswersStand`. `Workers` is any set, so generations of workers that overlap
after a restart are included; `OnePlace` is what retries, stops and restarts
could break. `AnswersAreFinal` (what a caller was told stays true) is proved
only.

**Servers_proofs.** All safety and action properties of the run `servers`, and
the refinement of `CircuitBreaker` by both breakers.

* Breakers: `PerfIInv` bounds the code's counters by the observers: failures
  counted are at most the streak, successes counted in HALF_OPEN are those of the
  trial. The second does not hold of the utils breaker, which is why
  `ClosesAfterTrial` is a theorem of the first only; there `UtilsIInv` says instead
  that an OPEN circuit has a time of its last failure (`OpenIsTimed`), without which
  it could never recover. For `OpenRejects` the last failure must not be older than
  the opening, late failures included.
* Balancer: `EntriesAgree` (every registered server has a checker object of its
  own), `CountersTrackOutcomes` (what a checker counts are its last outcomes in a
  row, for `StatusIsEarned`) and `StopHalts`: while a stop that nothing disturbs goes
  on, the checkers up to where it walks are halted and the dictionary keeps its
  size, hence `ChecksFollowRunning` when it has come to the end.
* Discovery: `GoneIsGone` needs that there are no more stores in flight than calls
  that began them.
* Tool: the posts of a call are numbered by attempt and endpoint (`Past`), and
  `CallCounts` bounds the runs by that number. This needs the only multiplication of
  two constants (`PostsNumbered`).
* Selection: `PicksFollow` says that the picks of a round are the places from a
  first one on, with a wrap; `RoundIsFair` concludes that a server gets its share,
  as the wrapped places are a permutation of the round. That the index stays in step
  over `Cycle` is `IndexAdvances`, from facts on remainders.

**Runtime_proofs.** All invariants of the run `runtime`, with those of the tasks
from `BackgroundTasks_proofs`, which it extends.

* Resource limits: `ResourcesIInv` is types, `OneRecord` and `SweepSettles`; the step
  that interrupts an execution needs that fewer rivals keep a count under its limit
  (`FewerRivals`, from the library's theorems on cardinality).
* Middlewares: `CounterBooks` counts the requests that hold a number within the limit
  and have still to act on it (`Pending`): with those let through they are at most
  the counter and at most the limit, whatever two processes do between INCR and
  EXPIRE. `LifeLimited` says who still has to give the counter its life, and
  `HandledInPlace` how often a request was handled, by its place.
* Limiter: for each strategy what its few numbers know of the grants (`FixedKnows`,
  `SlidingKnows`, `LogKnows`, `TokensKnow`, `LevelKnows`), from which `WindowBound`
  follows for every interval: for the token bucket, what was granted since any time
  and what is left are at most a full bucket and what has flowed in since. Grants up
  to each time (`granted`) in place of a sum over an interval make this linear, and
  no induction over data is needed.
* Denials: `ReasonIInv` adds where the state of a strategy comes from. A count of this
  minute, the time of the last request and an entry of the log are owed to a grant, a
  request or a change of the configuration; a token bucket is full again, and a leaky
  one empty, as far as time went by without a grant (`TokensReason`, `LevelReason`).
  `DenialsAreDeserved` follows: a window without a grant has brought back the whole
  limit. It needs that no request costs more than the limit (`CostsAssumption`), which
  holds of every caller; a dearer one would be denied for ever.

**Catalog_proofs.** All invariants of the run `catalog`, by the invariant of each
of its seven parts.

* Registry: `IInv` adds to `TypeOK` that what a request has found so far, in any
  phase, and every cached listing is readable by its user; `OnlyReadable` follows for
  any number of requests, users and tools.
* Stores: as long as no tool from before has joined the listing, what the reader has
  seen is behind the next page (`SeenIsBehind`); as long as none has left it, what is
  behind the next page was seen (`BehindIsSeen`). An entry that an update makes refer to
  another tool has left and joined. As long as there was no clash, an entry is stored
  under its own id and names differ, in either store. A tool's place is the number of
  those listed before it, so that a page is a set and places are compared by
  cardinality (`PositionGrows`).
* Developers: a session writes only the columns it has changed, so that what others
  have settled stays; `OfSomebody` says that a changed row is there.
* Memory cache: an entry lives no longer after its value was computed than one call of
  the function and its time to live (`EntriesAge`, `LoadsInTime`). A full cache finds an
  oldest entry to evict, by a least access time (`SomeOldest`).
* Versions: unless uploads crossed or failed, an upload has put in place what comes
  before the policy it is at, and carries the version in force (`ServedSoFar`); a policy
  created meanwhile begins an upload of its own, which is a crossing.
* Checks: counts only go on (`CountsGoOn`); what the window counts was counted since its
  start, and the minute before its start saw no more than one limit (`WindowCounts`).
  Cumulative counts in place of a sum make a minute a difference of two of them.
* Search: the rank of a hit is the number of those before it, so that a cut at `max`
  keeps a set. `TopRanked` shows that it keeps as many as there is room for and leaves
  out what comes after all of them; `ScoresBounded`, that the terms of a query without
  repetitions are worth no less than its words. `HybridKeepsScores` then needs that a
  tool can only lose its score by being left out of hits that fill the room, and these
  all come before it.

**Credentials.** `TypeOK` carries what `RefusalsStand` needs: a revocation that
was confirmed is in the blacklist, which only a restart empties, while the clock
never goes back (`WhatMayChange`). `RevocationsStand` is inductive with it.

**Platform_proofs.** All invariants of the run `platform`, by the invariant of
each of its seven parts; that of Credentials adds that a revoked key is not active
in memory.

* OAuth: a state that a callback carries has left the store and no other callback
  has it (`FlowsTaken`). `OneRow`: as long as no two callbacks have overlapped, who is
  about to insert a row is alone and has found none; overlapping callbacks do leave
  two rows, which is why the hypothesis is there.
* Proxy: the wrapper numbers the servers it has (`Numbered`), and `Given` says what an
  id is worth at each await of its registration: a registration that shares its id
  with none finds its own configuration in the wrapper. `ListedCanBeCalled` and
  `IdsNeverReturn` are inductive with it.
* Streams: a stream has as many chunks in its queue as it has numbered.
* Program: as long as no stop has raised, what the stops up to `step` have reached is
  down; complete at the last.
* Transports: `Undisturbed` says that, unless two calls met at one plugin, who waits
  for a plugin waits for it alone, what it is about to close is what the plugin has,
  and a shutdown is alone and has left no link behind in the plugins it has passed.
  Only then is every open link held by a plugin of the table. `GivenUp` keeps what
  failed to close apart from what is open.
* Session: the lines answered are all that were read but for the one that ended the
  loop, or that Ctrl-C cut off (`Answered`), and the recorded calls are those among
  them, or one more (`Recorded`).

**WorkflowPersistence.** `StoreIsAtomic`: any number of clients find
`WorkflowStore`. The mapping shows a save between its two statements as a save;
the instant of its effect is the UPDATE or the INSERT. `StoreInv` adds that a row
once seen stays (`RowsStay`), which needs that no saved version is the 0 of an
absent row, the hypothesis of the theorem; without it an UPDATE might come to a
row that has gone, and would not be the save that was promised.

**Only model-checked.** Liveness: `ExecutionsEnd` and `TimedStepsEnd`,
`WorkSettles` (`EveryTaskEnds` of the tasks, `Enforced` of the resource limits),
`BothRecover`, `CallsAreDone`, `HealthIsFound`, `StaleListingsGo` and
`WhatBeganEnds`. TLAPS does not prove properties under fairness. Every invariant and
every action property of the passing runs is a theorem. The properties of the
violated runs are refuted by TLC, and nothing is proved of them.

## 8. Not modelled, and what could follow

`PROJECT.json` gives the reason for each component under `components`. In short:

* HTTP handlers, the client, the admin interface and the helpers parse, call a
  service and format. Where a handler does more (orchestrator per request, paging,
  logout, limits that may be null), it is part of its component's module.
* Monitoring and logging are observation only: no other component depends on
  them. Two things met on the way: a cancelled request leaves `status_code` unbound
  in `track_request`, and network counters are incremented by cumulative totals.
* The connection pool and the policy tester are used by nothing in `src/`, or keep
  nothing. The proxy interceptor calls a method that does not exist, so its
  check fails. The MCP server's bearer tokens read users that nobody sets.
* Database, Redis, OPA, vector store and language models are external: they appear
  as environments that answer, fail, or lose a command.
* Matching of strings: policy rules (the user rule `tool:*` is compared literally),
  conditions and variables of workflows, formats of messages.
* In parts that are "partly" modelled, what is left out only reads, or is never
  called.

Next would be the handlers over HTTP as they compose these parts, with the bodies
they pass on, and the monitoring's counters.
