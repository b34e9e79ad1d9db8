# A verification project for the Mulan BI platform

The platform is a FastAPI application, Celery workers and beat, PostgreSQL and
Redis (`src/backend`), with a React frontend (`src/frontend`) and a gateway to
Tableau's MCP server (`src/tableau-mcp-gateway`).  The modules here describe the
backend's stateful services and the gateway in TLA+: what they keep in the
database, in Redis and in the memory of a process, and what their handlers do to
it when several of them run at once, when a step fails, and when a process dies
between two steps.  TLC checks them on small instances; TLAPS proves the results
that do not depend on the size of the instance.

Contents: how the system runs; the inventory of its parts; the modules and how
they correspond to the code; the runs, their bounds and fairness; what is
proved; where code and documents disagree; what is not modelled; the plan.

## How the system runs

* One uvicorn process serves the API.  `async def` endpoints run on its event
  loop, `def` endpoints and the `get_db` dependency in a thread pool.  An
  `async def` endpoint that calls blocking code holds the loop until it returns.
* Celery workers (several processes) run the tasks of `services/tasks`; beat
  queues them.  Except for tasks with `acks_late` (quality cycles, contract
  sampling) a message is acknowledged when a worker takes it, so the message of a
  killed worker does not come back.
* All of them reach the same PostgreSQL through `app/core/database.py`:
  `autoflush=False`, `expire_on_commit=False`, the default isolation (read
  committed), no version columns.  Only the review steps of the metric registry
  lock a row (`SELECT ... FOR UPDATE`).  Any other handler that reads a row,
  decides in Python and commits writes by primary key over whatever has happened
  since; SQLAlchemy's UPDATE names the columns whose value differs from the one
  that was loaded.
* `SessionLocal` is a registry with one Session per thread, not per request.
* `emit_event` (`services/events`) commits the Session it is handed, with
  whatever the caller has pending in it, and swallows a commit that fails.
* Redis holds the locks of scheduled tasks, rate-limit windows and caches.
* The gateway is one more process: an asyncio server that serialises the calls
  of all its clients on the standard input and output of one child process.

## Inventory

"State" is what outlives a step; "hard" is what makes the part difficult to
test; "correct" is what it should keep.  `PROJECT.json` lists the same parts
with their files, and the hazards with the line where each bites.

### Modelled, in part

| Part | State and operations | Interactions | Hard | Correct |
|---|---|---|---|---|
| Task runtime (`services/task_runtime`) | one row per run: `status`, `finished_at`, `error_code`; `to_running`, `to_succeeded`, `to_failed`, `to_cancelling`, `to_cancelled`, `cancel`, each through `transition` | API requests on the same row; events and an SSE stream on top | concurrent writers, failing commits, lost acknowledgements, bounded retries | a legal history and stamped ends although stale writes go through; late starters refused; only crossed writes stray; calls that return |
| Capability wrapper (`services/capability`) | a circuit breaker per wrapper, a result cache in Redis, rate windows, audit and cost rows; `invoke` | each request makes its wrapper; backends are awaited | abandoned and cancelled calls, probes, thresholds, time | counts the streak; rests after a trip |
| Session scope (`app/core/database.py`) | one Session per thread with its uncommitted objects; `get_db` enter and exit, nested `SessionLocal()` | every endpoint and every service | enter and exit on different threads, awaits in between, nested commits | nothing left behind; a lone request is atomic |
| Tableau synchronisation (`services/tasks/tableau_tasks.py`, `services/tableau/sync_service.py`, `app/api/tableau.py`, `app/api/tasks.py`) | two locks in Redis, `sync_status` of the connection, a log row, a task row, planned rows; trigger, beat, plan and its firings, work, retry, inline fallback, reconciliation, stale rows, backfill | API, beat, workers, views, Redis, Tableau | a lock that expires under its owner, retries that queue messages, killed workers, refused messages, reports that are swallowed, three rows by separate commits, views that write what they read before | overlaps bounded by expiries; rows that do not run ahead of their logs; one first message per request; requests that end |
| Semantic maintenance (`services/semantic_maintenance`) | the semantics row with its versions, publish logs, the text in Tableau; edit, generate, review, publish, retry, three rollbacks, archive | Tableau's REST API, the language model, the synchronisation | unclear answers, crashes between commits, retries of retries, restored versions | generated text is approved before Tableau shows it; logs follow their lifecycle |
| Metric registry (`services/metrics_agent/registry.py`, `lineage.py`) | a row whose review state is spread over three columns, dependency rows; create, edit, relate, submit, approve, reject, publish, archive, resolve lineage | concurrent requests; the language model for lineage | stale reads flushed column by column, a cycle search over committed rows | the review is kept and is by somebody else; edits and take-downs leave service; no cycles |
| Data agent, one question (`app/api/agent.py`, `services/data_agent/runner.py`, the engine and the two MCP paths) | the run row, the stored answer, the events of the stream, the generator of the path; ask, route, plan, call tools, fall back, save, fail, cancel | the client's connection, tools, language model | a commit may fail at each step, the client may leave at each await, paths fall back into each other | stream, row and stored answer agree; blocked results stay blocked; calls are bounded; a question ends |
| Guardrail of query arguments (`services/data_agent/mcp_args_guardrail.py`) | the arguments and the list of repairs; eleven stages, each of which passes, repairs or rejects | a second guard in the service that executes | order of the stages, spelling and type of what was sent, repairs that undo each other | what runs is known, bounded, and what was asked; two guards agree |
| MCP gateway (`src/tableau-mcp-gateway`) | one child, a lock around each call, a table of futures by id, sessions; receive, write, drain, route, time out, fail, restart | clients; the child's pipes | abandoned handlers, late answers, a child that stops reading or dies | an answer reaches the call that asked; one request in flight; calls return |
| MCP client (`services/tableau/mcp_client.py`) | a session per site that threads share; ensure, post, re-send, rebuild, retry | the gateway | three levels of retries, a shared session thrown away by several | re-executions are explained by failures; a lone call recovers |
| Data quality core (`services/dqc`) | locks with tokens, cycle rows, snapshots, events; start, pick, measure, snapshot, emit, commit, finish, raise, release | beat, API and workers; `emit_event`; Redis | three kinds of key over the same asset, a transaction per asset that `emit_event` commits in passing, kills | one cycle per key; changes are announced; counts are exact; later cycles see earlier ones |

### Not modelled

| Part | State and operations | Why not |
|---|---|---|
| Events, notifications, outbox (`services/events`, `services/tasks/event_tasks.py`) | events, notification rows, an outbox with attempts and dead letters | what `emit_event` does to its caller's transaction is part of `DqcCycle`.  The outbox does nothing at this commit: its only producer (`auth/service.py:702`) hands over a `UserDatabase` where a Session is needed and fails, and no schedule runs `process_outbox` |
| Analysis and causation sessions (`services/data_agent_analysis`, `data_agent/causation_session.py`) | a session's status and steps | no router reaches the managers of the former; a causation session always fails before its first step (below) |
| Schedules and housekeeping (`services/tasks/schedule_service.py`) | schedule rows, lists of runs | create, read, update, delete; the plan of synchronisations is in `SyncRequests` |
| Health scans (`services/health_scan`) | a scan record and its issues | one sequential job |
| MCP site health and dispatch (`services/mcp`) | success and failure counts per site, a monitor thread | a ping per site and the first answer of several; little interplay |
| Token budget (`services/token_budget`) | a circuit per scenario, what is dropped to fit | counting tokens is a library's; the circuit is a smaller breaker |
| Anomalies, consistency, maintenance windows (`services/metrics_agent`) | anomaly rows with a transition table | statistics over values, and one writer per row |
| Authentication, users, groups, audit (`services/auth`) | users, refresh tokens, resets, backup codes | single-use rows, each read and written in one request |
| Agent runs and traces (`services/audit_runtime`, `agent_observability`, `agent/dual_write`) | append-only traces | best-effort writes around an answer |
| Data agent: planners, tools, renderers; LLM layer; natural language queries; SQL agent | the state of one request; configuration; caches | prompts, parsing, text and SQL: large functions of data |
| API contract governance | snapshots and a baseline | one sequential job |
| Data warehouse assets, data sources, explorer, connection hub, knowledge base, skills, requirements, visualisation, help, settings, logs | rows with create, read, update and delete | few steps, little interplay |
| DDL checker and generator | none | functions of their input |
| Migrations, scripts, frontend, deployment | none of their own at run time | out of scope |

The largest files of the repository are planners, renderers and endpoints of
this table; the modelled part is the state that several actors share.

## The modules

| Module | What it is |
|---|---|
| `TaskLifecycle` | the abstract specification of a task run: the in-memory `TaskRunStateMachine` |
| `TaskRun`, `TaskRun_proofs` | `TaskRunService` under its most general client; implements `TaskLifecycle` but for writes that cross |
| `CapabilityBreaker` | the circuit breaker as requests meet it |
| `SessionScope`, `MCSessionScope` | `get_db` and the thread registry |
| `TableauSync` | the executions that synchronise one connection |
| `SyncRequests`, `SyncRequests_proofs` | `TableauSync` with those who ask for a synchronisation and those who look at it |
| `SemanticPublish`, `SemanticPublish_proofs` | the semantics of data sources and their publication |
| `MetricRegistry`, `MCMetricRegistry`, `MetricRegistry_proofs` | the metric registry |
| `AgentPromise` | the abstract specification of a question: at most one verdict, which agrees with the stored message |
| `AgentRun` | the bookkeeping of a question over any path that keeps its contract; implements `AgentPromise` |
| `AgentPaths` | the four paths that produce the events |
| `AgentService`, `AgentService_proofs` | `AgentRun` over `AgentPaths`; implements `AgentRun`, that is, the paths keep the contract |
| `ArgsGuardrail`, `MCArgsGuardrail` | the guardrail of query arguments |
| `CallWrappers_proofs` | the proofs about the three that surround a call: `SessionScope`, `CapabilityBreaker`, `ArgsGuardrail` |
| `McpPromise` | the abstract specification of a tool call: answered once, with its own result |
| `McpGateway` | the gateway and its child |
| `McpBridge`, `McpBridge_proofs` | `McpGateway` with the backend's threads; implements `McpPromise` |
| `DqcScorer` | signals and announcements as functions of scores |
| `DqcCycle`, `MCDqcCycle`, `DqcCycle_proofs` | the quality cycles |

`MC...` modules hold what only TLC needs: symmetry sets and the values of
function constants.  In every module history variables (`written`, `started`,
`unsaid`, `lapses`, `streak`, `mixed`, `approved`, `crashed`, `decided`, `raced`,
`faulty`, `hurt`, `crossed`, `lost`, `before`, ...) record what a property refers
to and no action reads them; operators introduced by a comment "Mutant:" are
plausible mistakes, used only to see that a property notices them.

### TaskRun

State: `status`, `finished`, `errored` are the columns of one row of
`bi_taskrun_runs`; `call[c]` is what caller `c` is doing.  A method is `Invoke`,
then attempts of `Read` (or `Cancel`, which dispatches on the status it reads)
and a commit.  `Read` makes all the checks of one attempt of `transition`
(`service.py` 112-148); the commit succeeds (`Committed`), fails with an
`OperationalError` (`CommitFailed`), or takes effect while its answer is lost
(`CommitAckLost`).  `AfterError` is the loop: the next attempt reads again, the
last one ends in TR_010.

The engine sets no isolation level, so PostgreSQL runs read committed, and the
UPDATE names neither the status nor the version that was read: a write in
between is not noticed and the later one wins.  A session keeps the row object
it has loaded (`expire_on_commit=False`), so an attempt reads the database once.
`fresh` in a call's record says that nobody wrote since it read, `late` that it
is a start that began after one was confirmed; no action reads them.  Any caller
may call any method at any time: who may call what is not part of the service.

### CapabilityBreaker

`breaker[w]` is the `CircuitBreaker` object of wrapper `w`.  `invoke` has one
await, so it is two steps: `LimitRate`, `Refuse`, `Hit` or `Dispatch` before it, and
`Succeed`, `Fail` or `Abandon` after it.  `Ensured`, `Refuses`, `Admitted`,
`Successful`, `Failed` are the methods of the breaker.  The table the breaker
saves its state in is created by no migration: loads and saves fail and are
logged, so each wrapper starts closed and `Renew` (a later request) forgets.

### SessionScope

`registry[t]` is the Session of thread `t`, `pending[s]` the requests whose
objects Session `s` holds.  `Enter` is `get_db` to its yield, `Exit` its
`finally`, each on any thread of the pool; `Write`, `Commit`, `Raise` are the
handler; `Nested` is a service that takes `SessionLocal()` for itself on some
thread, commits or not, closes it and perhaps removes it.

### TableauSync and SyncRequests

`exec` are the executions of `sync_connection_task` in the order their messages
were queued; `lock` is the Redis key, `log[r]` and `task[r]` the two rows of a
request, `linked[r]` whether the row names its log.  `Acquire` or `Skip`,
`Begin` (log), `Link` (row), `Finish` (log and connection), `Complete` (row),
`Release` are the task from top to bottom; `RetryAfterError`, `RetryAfterConnect`
and `Fail` its errors.  `RetryAfterConnect` queues two messages: the `Retry` that
`self.retry` raises is caught by the task's own `except Exception`.  `Release`
deletes the key whoever set it.  Nothing bounds a synchronisation, so `Expire` may
take the key from an execution at work (`lapses` counts how often), and
`GoWithoutLock` is the task that goes on when Redis raises.  `Report` is
`_update_sync_task`, which swallows every exception: the row is written, or it is
not and the task goes on all the same (`unsaid`).  `WorkerStops` is a process
that is killed or a call that never returns, `WorkerBreaks` an exception nobody
handles.  A retry is not taken before its predecessor let go (`Due`: attempts are
30 seconds apart).

`sender[r]` is how far the producer of request `r` is.  `Ask`, `Accept`, `Submit`
are `POST .../sync`, which reads the status, pings the workers for up to a
second, and commits before it queues; without a worker it synchronises in the
API process and without the lock (`InlineBegin`, `InlineEnd`, `InlineReport`).
`Beat` queues directly; `Plan` makes rows in advance, which `sync_by_schedule`
(`Fire`, `TakeRows`, `Dispatch`, `FiringEnds`) sends under a lock of its own.
`AcceptFails`, `SubmitFails`, `InlineFails`, `DispatchFails`, `ApiDies`,
`FiringDies` and `PlanLockExpires` are what may go wrong.

The views (`app/api/tableau.py`, `app/api/tasks.py`) repair what they find in two
steps, for they SELECT and later UPDATE by primary key without looking again:
`LookAtConnection` and `AlignConnection`, `LookAtTasks` and `FailTasks`,
`LookAtLog` and `Backfill`.  `view` is what was read, and any step may come in
between; `Reconcile` is the alignment when none does.  What a view may find stale
(`Stale`) waits for its message or has lost it: the hour that the code waits is
long for a message and not for the commits around it.

The steps that say `Rarely` (a loss of Redis, an expiry under work, a death, a
refused message, a swallowed report, a view that others get in the way of) are
counted in `rare` and bounded together.  The log is opened and the connection
set running by two commits next to each other, which are one step here.

### SemanticPublish

All endpoints are `async def` functions that call blocking code, so one request
holds the loop of the only API process from its start to its end: `handler` is
that request, and its steps are the commits and the PUT.  Between two steps come
the archiving by a Celery worker, unclear answers of Tableau (`Put`: done and
confirmed, done without an answer, not done) and the death of the process.  A
log is a record with the text it puts and what its diff says was there before.
`Retry` is a log that goes back to pending and up to three new publishes;
`Undo` is `rollback_publish`; `RestoreLocal`, `RestoreBoth`, `Restore` are
`rollback_datasource_semantic`; `RollbackLog`, `CopyLog` are
`RollbackService.execute_rollback`.  Edits made in Tableau itself are left out:
`tableau` changes by PUTs only.

### MetricRegistry

A row has no status column; `Published`, `Pending`, `Approved`, `Archived`,
`Draft` are the branches of `_get_metric_status`.  The three review steps lock
the row before they read it and are one action each.  Every other handler is a
`Load` (what it read, what it wants), possibly `Validate` (publication, named
dependencies) and `Flush` (the UPDATE that takes the row lock before the cycle
search), and a `Commit`, whose `Flushed` writes only the columns that differ
from the loaded ones.  `Fail` is any check or call that fails.  `raced` marks a
metric whose commit met another open request that moves it.  `WouldCycle` says
what the walk finds out rather than how: every set that holds where it begins,
and what its members depend on, holds the metric.

### AgentRun, AgentPaths, AgentService

`AgentRun` is `agent_stream` and `run_agent`.  `pc` is where the coroutine is,
`run` the status of the row in `bi_agent_runs`, `saved` the assistant message,
`told` the verdict events sent.  Every commit is an action with its failure as
one of its outcomes: protected ones roll back (`RolledBack`), the others unwind
with the Session unusable (`Breaks`, `sessionOk`), and the exception handler,
`Recover`, does not roll back before it writes.  `ClientLeaves` is noticed at an
await: inside a path by `Cancel`, between two tokens by `Abandon`, which writes
nothing.  `PathEmits` is the contract of a path: data events, one verdict, the
end, or an exception before the verdict.

`AgentPaths` has the paths: the ReAct engine (`LoopHead`, `Think`, `ToolAgain`,
`ToolFails`, `ToolReturns`), the proxy path (`OpenProxy` ... `QueryCall`), the
first path with its preflight, metadata, planner, host calls, repairs and thin
fallback (`OpenFirst` ... `ThinCall`), and the transformation of a previous
result.  The preflight asks the queries of its operator's plan
one after the other (`PreflightReturns`, up to `PreflightSteps`; `root_cause` has
12), each of them once more with another date field if the server does not know
the first (`PreflightDate`, after a metadata lookup), and hands over to the host
when one fails (`PreflightFails`).  `calls` counts what a question costs: the
engine's tool calls, or what the MCP paths ask of the MCP client, with the
metadata lookups of field resolution, which a cache may spare (`Calls(fewest,
most)`).  The list of tools, which is cached, and the client's own re-sends, which
`McpBridge` bounds, are not in it.  Which tool or plan is chosen and
what it returns is a choice; a result fits, is too large, or fails.

`AgentService` runs one on the other: `Delivers` is the generator's `yield`,
which is the contract's `PathEmits`; `KeepsContract` is the refinement.

### ArgsGuardrail

One action per stage of `validate_mcp_args`, in the code's order; `Stage` is
the pattern of all of them (reject, or repair and go on).  `args` is the copy
that is repaired and `asked` what was sent; `repairs` tells what was changed.
Names and words are abstract: `Canonical`, `Synonyms`, `Proper` say which field
or spelling they normalise to.  `informed` says whether the caller knows synonyms
and formulas; a caller that does not (`_execute_vizql`, `mcp_first_main.py:1714`)
hands what passed to `execute_query`, which guards it again (`GuardAgain`).

### McpGateway, McpBridge

`posts` are the gateway's handlers by their order of arrival, `holder` whoever
has the call lock, `pending` the table of futures, `unread` and `working` the
lines the child has not read and works on.  `Receive` admits a request, `Write`
and `Drained` are `_write` (the drain may wait for a child that does not read),
`Route` is the reader, `TimeOut` and `WriteFails` the handler's exceptions.  The
reader ends for good (`ReaderEnds`) with the dead child's output (`Eof`) or, while
the child lives on, after a read error or a line above the stream's limit
(`ReaderFails`); a handler that drains notices its failed future only afterwards.
`Die`, `ReaderFails` and `Restart` are the faults.  A handler whose client left
goes on (`Leave`).

`McpBridge` adds the threads of the backend: `Ensure`, `Initialize`, `Store` are
`_ensure_session`; `Post`, `PostAgain`, `Broken` are `_post_mcp`, which builds
its headers from the shared state and sends them once more after a broken
connection; `Refused` is `_send_jsonrpc`, which throws the session away and
builds it once; `Retries` is `_query_datasource_with_retry`, which asks a
query again after broken connections and time-outs, and also after an answered
error, the tool's or the gateway's own, whose text reads like one (`Answered`,
`Failed`: which text it is, is a choice).

### DqcScorer, DqcCycle

`stage[c]` is where the task of cycle `c` is, `row` the status of its row,
`work[c]` the snapshot of its open transaction, `due[c]` the events it has still
to emit, `lock` the Redis keys with the token they hold.  `Start` takes the key
of the cycle's scope (all assets, the hourly light cycle, one asset); `Create`,
`Pick`, then per asset `Measure`, `Snapshot`, `Emit` (whose commit is that of the
whole asset), `Commit`; `Finish` or `Raise`, and `Release`, which compares the
token.  `AssetFails` and `SessionBreaks` are the exceptions of an asset, `Kill`
the death of the worker, `Expire` and `Forget` Redis.  `Found` merges what the
rules of the cycle's kind find with 100 for the dimensions it does not look at,
and `DqcScorer` turns scores and the snapshot before into a signal and into the
events that announce its change.

## The runs

| Run | Instance | Distinct states | What it shows |
|---|---|---|---|
| `task_run_default_isolation` | 2 callers, 3 retries | 99 569 | every status in the row had a legal predecessor and ends are recorded; who starts late is refused; an attempt nobody crossed takes an edge of the table, its retries too; calls return |
| `task_run_lifecycle_claim` | the same | violated | a finish and a cancellation both commit: a terminal status is overwritten |
| `breaker_per_request` | 2 wrappers, threshold 2, recovery 2, time to 5 | 84 738 | a closed breaker's count is the streak; after a trip nothing is dispatched before the recovery time |
| `session_scope` | 3 requests, 2 threads, 4 sessions | 157 762 | no uncommitted work outlives its request; a request that met no other is atomic |
| `session_own_claim` | 2 requests, 2 threads | violated | two running requests share a Session |
| `sync_requests` | 2 requests, 2 firings, 1 retry, 1 rare event | 1 109 619 | an expiry under work puts one more execution beside the lock's owner, and without one the lock excludes (what runs without it, after a failure of Redis or in the API process, does overlap); no row runs ahead of its log; whatever says running is explained; a request is sent once; requests end |
| `semantic_publishing` | 1 data source, 1 written and 1 generated text, 3 logs, 1 edit, 1 restore, sensitive rows, crashes | 5 410 785 | generated text in Tableau was approved; which logs stay open |
| `metric_registry` | 2 metrics, 2 users, 2 formulas, 2 requests, 2 edits or take-downs | 2 955 709 | the review is kept and by another user; cycles, edits in service and revivals need a race |
| `agent_service` | 1 question, 4 steps, 1 tool retry, a preflight of 2 queries, 4 calls, 1 repair, thin fallback | 44 290 | stream, row and stored answer agree (`AgentPromise`); the paths keep their contract; blocked results stay blocked; calls are bounded; the question ends |
| `args_guardrail` | 43 344 requests, informed or not | 207 178 | what runs is known, bounded and what was asked; a second guard allows it as it is |
| `mcp_bridge` | 2 calls of which 1 query, a pipe of 1, 2 attempts, 1 fault | 1 836 835 | an answer reaches the call that asked (`McpPromise`); re-executions are explained; a lone call recovers its session; calls return, whatever the child does |
| `dqc_cycles` | 3 cycles over 2 assets: a light cycle and two runs of one asset; 2 dimensions, 1 fault | 536 001 | one cycle per key; changes are announced; counts are exact; later cycles see earlier ones; forks need two keys; keys become free |

`RowIsSound`, `RunningIsExplained`, `ReviewHolds`,
`ChangesTakeEffect`, `RunAndStreamAgree`, `BlockedStaysBlocked`, `ExecutesSafely`,
`GatewayIsSound` and `ChangesAreAnnounced` are conjunctions of the named parts
defined above them.  The type invariants of
`TaskRun`, `CapabilityBreaker`, `SessionScope`, `SyncRequests`, `SemanticPublish`,
`MetricRegistry` and `AgentRun` are proved for every instance, and so are
`LogsFollowLifecycle`, `EndedRunStays` and `OwnKeyOnly`; the runs do not repeat
them.

### Bounds, and why they are enough

* `TaskRun`: two callers make every race on one row: what a write meets is the
  latest of the others.  `MaxRetries` is 3 as in the code: a first, an inner and
  a last attempt.
* `CapabilityBreaker`: with a threshold of 2 one failure does not trip and two
  do; five ticks and a recovery time of 2 allow a trip, a failed probe and a
  second trip.  The second wrapper is there for what requests share, the cache.
* `SessionScope`: three requests over two threads can follow, overlap and share;
  a Session is needed for each thread and for two requests whose Session is no
  longer any thread's, hence four.
* `SyncRequests`: the retries of two requests already queue up to six
  executions; two firings overlap (they are
  interchangeable, so the first idle one executes).  `MaxRare` = 1 is one expiry
  under work, process killed, message refused, report swallowed or view that
  writes late in a behaviour: it meets every state, but not another such event;
  the proofs take any number of them.  The code retries twice; one retry is
  already retried twice by a failed connect.
* `SemanticPublish`: two logs are a publish and the rollback or retry of it;
  three add the retry of a rollback.  One edit brings a written text behind a
  generated one, or the other way round; one restore brings an older row back.
  `RestoreReachesTableau` alone needs a second data source.
* `MetricRegistry`: two metrics are the smallest cycle with a race; two requests
  are a reader and the writer in between.  Two changes are an edit against an
  edit or a take-down; creations, publications and reviews are not counted.
* `AgentService`: questions share nothing but the Session, which `SessionScope`
  is about, hence one.  Four steps and one tool retry give the engine a first, a
  middle and a forced last turn; four calls and one repair let the first path
  repair, retry and fall back; a preflight of two queries has a first and a last,
  each with its date fallback.
* `ArgsGuardrail`: names are a field, an aggregate calculation, spellings of
  them, a synonym and an unknown; limits are missing, below, at or above the
  maximum, as numbers or text, at the top or nested; up to three fields with a
  width of two.
* `McpBridge`: two calls are the smallest interference over a session, a lock
  and a pipe that holds one line; one of them is a query and retried as a whole.
  The code makes three attempts after transport errors and two after read
  timeouts; two have a first and a last.  One fault is a lost connection, a
  death, a reader that fails or a restart.
* `DqcCycle`: two runs of one asset share a key; the light cycle meets them with
  another; two assets are needed for a cycle that fails between them.  Two
  dimensions, of which one is light.  One fault: commit, rule, release, kill, or
  a loss of Redis.

The proofs below do not depend on any of these bounds.

### Deadlock

Checked for `TaskRun`, `CapabilityBreaker` and `MetricRegistry`.  The other runs
end where their bounds do: all requests answered (`SessionScope`), all requests
ended (`SyncRequests`), all logs and edits used up (`SemanticPublish`), the
question ended (`AgentService`), the arguments judged (`ArgsGuardrail`), all
calls returned (`McpBridge`), all cycles over (`DqcCycle`).

### Fairness

* `TaskRun`: `CallReturns` assumes that a caller that has begun a call goes on
  with it (weak fairness of `Step(c)`): a thread runs, and a commit answers or
  raises.  Nothing is assumed about which of the three ways a commit goes, so
  the bound on the attempts is what makes the call return.
* `SyncRequests`: `RequestsSettle` assumes weak fairness of `Progress`, the steps
  of the executions, producers and firings that have begun, all together:
  workers keep taking messages, and what has begun goes on or stops.  No
  time-out is assumed, for the clients of Tableau and Redis are given none: a
  call that never returns is a step of its own, the same as a killed process
  (`WorkerStops`, `ApiDies`).  New requests, expiry, views and faults are not
  fair.  A request one of whose processes was stopped, or whose message was
  refused, is excepted by name (`Lost`), since nothing in the code looks for it,
  and so is one whose last report was swallowed (`unsaid`).
* `AgentService`: `QuestionEnds` assumes weak fairness of `Service`, the steps of
  the coroutine: tools run under `wait_for`, the calls of the model and of the
  gateway have timeouts, and the event loop resumes whoever awaited them.  Which
  way a call ends is not assumed; the limits of the paths make the question end.
* `McpBridge`: `CallsReturn` assumes weak fairness of the steps of threads that
  have begun a call and of the gateway's handlers, together.  Nothing is assumed
  of the child, which may stop reading for ever: it is the client's read timeout
  that ends a call queued behind it.  That timeout fires only for a handler that
  queues or drains, since one that waits for its answer has a shorter one.
* `DqcCycle`: `KeysAreFreed` assumes weak fairness of the steps of each running
  cycle (a Celery task has hard time limits) and of the expiry of each key.
* The other modules state safety only.

## What is proved

Eight modules hold proofs, for every value of the constants that satisfies the
named assumptions (non-empty callers, positive limits, disjoint sets of texts,
model values that are not numbers, ...).  Each proves one or two inductive
invariants from a lemma per action; the theorems follow from them.

* **`TaskRun_proofs`** (any callers, any retry limit).  `IInv` says that a
  caller about to commit is at a transition which the table allowed for the
  status it read, and that the row has had that status (`CommitReady`).  This is
  what survives a stale write: the row may move along no edge at all, but each
  status in it had a legal predecessor at some time.  Hence `TypeCorrect` and
  `RowSound`.  `SInv` adds what a reader can rely on: a caller whom nobody has
  overtaken has seen the row as it is (`Snapshot`), and once a start was
  confirmed the row is never queued again, whoever writes (`Starts`).
  `UncrossedWritesFollow` and `LateStartsRefused` follow.  That the row follows
  `TaskLifecycle` without these provisos is false (`task_run_lifecycle_claim`).
* **`CallWrappers_proofs`**, of three modules that share nothing.
  `SessionScope` (any requests, threads, sessions): `Alone` says an unmixed
  request is the only live one, `Atomic` how far it has come; `LeavesNothing` and
  `Atomicity` follow.  `CapabilityBreaker` (any threshold, recovery time, number
  of wrappers): `Sound` says what each state means: closed, the count is the
  streak; open, it opened at its last failure and no call is out; half open, the
  recovery time has passed since the last failure.  `CountsStreak` and the action
  property `Rests` follow.  `ArgsGuardrail` (any arguments of the types of the
  tool's schema, with lists of any length, any normalisation, synonyms and
  limits): each stage has what it establishes, a predicate of the arguments alone
  (`LimitOK`, `WordsOK`, `ShapesOK`, `NamesOK`, ...), and `FirstPass` says that
  the stages done so far still stand, that is, that no later repair undoes an
  earlier one.  `FieldSo` follows each field back to the one that was asked, and
  `Recorded` says that what was asked stands where no repair is
  recorded, and was not clean where one is.  Together
  they make the arguments `Clean`, and `SecondPass` that a guard leaves clean
  arguments as they are.  `GuardSafe`, `GuardAddsNothing` and
  `GuardsAlwaysAgree` follow.
* **`SyncRequests_proofs`** (any requests, firings, retries, rare events; nothing
  is assumed of the time a synchronisation takes).  `LockInv` counts the
  executions that believe in a key which is not theirs (`Strays`): one of them
  that releases takes the key from its owner, who then strays in its place, so
  only an expiry under an execution at work adds one; hence `OverlapsAreBounded`.
  `PlanInv` relates producers and firings to the messages they have queued:
  `RowsAreSentOnce`.  `RowInv` says that whoever is about to write the end of a
  row, an execution, the API process or a view that read a log before, has seen
  the log end, and that a log never reopens (`LogsStayEnded`): `RowsAgreeWithLogs`,
  whatever reports are lost.  `RunInv` follows the first execution of a log and
  those after it: `RunningExplained`.  `SyncTypes` is the type invariant.
* **`SemanticPublish_proofs`** (any data sources, texts, bounds).  A generated
  text can reach Tableau from the row, from an older version of it, or from a
  log that puts back what was there before; `AllCleared` says that on each of
  these ways it is approved.  `Linked` says which logs the request in progress
  works on and in which status it left them.  `ReviewedFirst`,
  `LifecycleHolds` and `OpenLogsExplained` follow; the last from `XInv`, in which a
  pending log that no request works on is explained by a crash or by a later
  publish of its data source that succeeded and whose success nothing can take
  back any more (`Firm`).
* **`MetricRegistry_proofs`** (any metrics, users, formulas, requests).
  `RowsSound` ties the three columns of a row to each other and to the
  reviewer; `RequestsTied` relates an open request to the row it loaded: what it
  will flush (`Keeps`), that an approval it saw is still there (`Stale`), that
  it saw the latest place of the row unless the metric is already raced
  (`Fresh`).  `ReviewsHold` and `ChangesHold` follow.  A second invariant,
  `GraphInv`, is about the graph.  An edit of dependencies that has searched and
  not yet committed has a set of metrics that is `Apart`: it holds what the edit
  names, not its metric, and what its members depend on unless they raced.  Other
  commits keep it: those of edits race, and a creation is of a metric nobody has
  heard of.  So if the commit closed a cycle without a race, what is on the cycle
  and in that set was a cycle already.  `CyclesTakeARace` needs no path and no
  induction along one.
* **`AgentService_proofs`**.  Of `AgentRun`, for any path that keeps its
  contract: `RunInv` says for each place of the coroutine what the row, the
  stored message and the stream can be (`Shape`, `Flags`); `RunsAndStreamsAgree`,
  `EndedRunsStay` and `RunKeepsPromise` (the refinement of `AgentPromise`) follow.
  Of `AgentPaths`, for every limit: `CallsInv` bounds the calls by what the loops
  have used up, hence `ServiceCallsAreBounded`.  Of both together, `HandsOver`
  says what a path has ready to be delivered: data as long as it goes on, and when
  it is over one `Closing` list, or an exception.  That is the contract, so
  `PathsKeepContract` (the refinement of `AgentRun`), and with it everything
  proved of `AgentRun` holds over the real paths (`ServiceKeepsPromise`,
  `ServiceStreamsAgree`).  `BlockedInv` follows a blocked result from the path
  over the list of events to the client: `WhatIsBlockedStaysBlocked`.
* **`McpBridge_proofs`** (any calls, queries, size of the pipe, attempts, faults).
  Its invariant `IInv` has four layers.  `GInv`: the lock is held by the one
  handler that writes or waits, the id it has registered is pending unless the
  reader has ended, every line has an id of its own, and a line whose id is
  pending is the holder's; hence
  `GatewaySound`.  `CallInv` ties each thread to its handler.  `Loaded` bounds
  what has been and may still be executed for a call (`Load`: its executions,
  the lines the server has not read and the handlers still in line) by the
  failures it has seen; hence `RunsExplained` over three levels of retries, those
  after answered errors included.
  `FirstSession` and `SecondSession` say which session a call that met no other
  is using before the gateway's first and second restart; hence
  `LoneCallsRecover`.  `PromiseIsKept` is the refinement of
  `McpPromise`: an answer that comes back under an id is of the request
  registered under it, also when the one before it timed out and answers late.
* **`DqcCycle_proofs`** (any assets, cycles, scopes, dimensions, faults).
  `HoldsKey` says a running cycle holds its key unless Redis forgot one;
  `SeesBefore` and `SeesOwnKey` that what it will compare with is at least as
  late as what earlier cycles, and those of its key, have stored; `DueAt`,
  `OnceEach` and `StillDue` which events of a stored snapshot are still to come.
  `CyclesExclude`, `KeysAreOwn`, `ChangesAnnounced`, `LaterSeesEarlier` and
  `ChainsFork` follow.  The signal of a snapshot is arbitrary in these: they
  do not depend on how scores become signals.  `CycleTypes` says what they are
  (`SignalType`: the worst of several signals is one of them).  `Counted` says of
  a cycle of which no commit failed that its two counts are the cardinalities of
  the assets it is done with and has, or has not, a snapshot of, with one snapshot
  each; at the end nothing is left to do, hence `ReportsAreExact`.

Every safety invariant and every action property of the runs is a theorem.  Only
model-checked are the liveness properties `CallReturns`, `RequestsSettle`,
`QuestionEnds`, `CallsReturn` and `KeysAreFreed`: they rest on fairness and on
`ENABLED`, which are out of the prover's reach.  So are the violated claims below,
which are counterexamples.

What the theorems assume of the constants is in the modules' named `ASSUME`s,
which TLC evaluates on the instances of the runs: no identifier is also the
"nobody" of a lock or a column, limits are natural numbers and where the code
needs it positive, the arguments sent have the types of the schema, the assets
are finitely many, scores lie between 0 and 100.

## Where code and documents disagree

Two runs state what a comment says and find it violated:

* `session_own_claim`: "each request gets its own Session" (`database.py:34`,
  `:167`).  The registry is keyed by thread: two requests whose dependencies were
  entered on the same thread of the pool, the second before the first has ended,
  share one Session and with it each other's uncommitted objects.
* `task_run_lifecycle_claim`: "expected current status (for the optimistic lock
  check)" (`task_runtime/service.py:98`; "with OCC retry", `:93`).  There is no
  version column, the UPDATE names no status, and under read committed nobody
  refuses it: a finish and a cancellation both commit, and two starters can both
  be told that they started.  `RowIsSound`, `LateStartersRefused` and
  `OnlyCrossedWritesStray` are what is left of the claim.

The modules define further claims that fail under the configurations of passing
runs.  Each is stated next to the properties that hold; put in the place of the
properties of the cfg, TLC refutes it.

| Definition | Configuration | Claim, and what happens |
|---|---|---|
| `QueuedRunIsCancelled` (invariant) | `TaskRunRC.cfg` | `cancel` ends a queued run (`service.py:210`); the transition it calls is not in the table |
| `RepeatedCancelAnswers` (invariant) | `TaskRunRC.cfg` | cancelling twice is answered (`service.py:210`); the second call is refused |
| `ProbeIsAwaited` (invariant) | `BreakerWrappers.cfg` | a half-open breaker has a probe out (`circuit_breaker.py:97`); a probe that is cancelled (`wrapper.py:206`) gives no verdict and its slot is never returned |
| `OpenRefusesAll` (property) | `BreakerWrappers.cfg` | an open breaker refuses every request (`circuit_breaker.py:5`, `:8`); it refuses those of its own wrapper |
| `ClearsOnlyInherited` (property) | `SessionScopeMixed.cfg` without SYMMETRY | the rollback at entry clears inherited state (`database.py:170`); it also clears that of a running request |
| `OneSyncAtATime` (invariant) | `SyncRequests.cfg` | five minutes are enough for a synchronisation (`tableau_tasks.py:53`); nothing bounds one, and when the key expires under it, or Redis fails, two run |
| `FailedRowsNeverLogged` (property) | `SyncRequests.cfg` | a row is failed that "never created an execution log" (`app/api/tasks.py:281`); the view does not look again before it writes, and the log may be there and running |
| `TaskFollowsDiagram` (property) | `SyncRequests.cfg` | the diagram of spec 43, 3.2; a skipped retry ends a running row, a second retry reopens an ended one |
| `RetriesAreBounded` (invariant) | `SyncRequests.cfg` | at most `max_retries` repetitions (spec 07:998); a failed connect queues two (`tableau_tasks.py:123`, `:165`) |
| `PublishedWasApproved` (invariant) | `SemanticPublishing.cfg` | approved semantics are written back (`publish_service.py:3`); a manual edit of an approved row keeps its status and is published |
| `PendingMeansPublishing` (invariant) | `SemanticPublishing.cfg` | pending means publishing (spec 19:256); a retried log stays pending after a retry that succeeded |
| `RetriedUndoRestores` (property) | `SemanticPublishing.cfg` | the retry of a rollback puts the old text back (`publish_service.py:435`, spec 09:213); it publishes the row's current text |
| `RolledBackIsRestored` (property) | `SemanticPublishing.cfg` | rolling a log back restores what was there before (`publish.py:384`, `rollback_service.py:308`); the diff of a publish has no `rollback` key and nothing is restored |
| `RestoreReachesTableau` (property) | `SemanticPublishing.cfg` with two data sources | restoring a version undoes the publish (`service.py:129`, `:171`); it takes the newest success of the connection, which may be another data source's |
| `EditedIsDraft` (property) | `MetricReviews.cfg` without SYMMETRY | a published metric that is changed is a draft again (`registry.py:913`, `:972`, spec 30:421); `reviewed_at` survives (`:92`) and it is approved |

Observed while reading, and part of the models as the code has them:

* **Questions.**  The helpers that resolve the "most recent" result read the
  oldest twenty messages.  The first path emits its rows before they are judged:
  the client has them although the answer says they were blocked, and the
  preflight query is not judged at all.  The exception handler writes without a
  rollback, so a commit that failed leaves the run `running`, and nothing
  cleans `bi_agent_runs`.  The branch for schema errors stores no answer.
* **MCP.**  "One request in flight at a time" (`proxy.py:27`) is true of handlers,
  not of the child, which still works on what has timed out.  Two threads that
  are refused after a restart throw each other's new session away, and the raw
  `_SessionExpiredError` escapes, which the docstrings say is caught and retried
  (`mcp_client.py:628`, `:1789`).  `drain` has no time limit; a dead child is not
  restarted before the gateway is.
* **Quality cycles.**  `emit_event` commits the asset's transaction in passing; a
  commit it swallows loses a snapshot that is counted as processed, or leaves the
  row `running`.  `processed + failed` can exceed the number of assets.  A
  completed row can be overwritten as failed with zero counts.  A killed worker
  leaves its row `running` for ever, and the redelivered message is skipped while
  the dead worker's key lasts.  Asset runs use other keys than cycles: both may
  compare with the same snapshot, and a change is announced twice or not at all
  (spec 31:2652).  A light cycle counts dimensions it does not measure as 100 and
  announces recoveries that are none.
* **Synchronisation.**  `backfill` is called idempotent (`app/api/tasks.py:317`); when
  it meets a run that is not yet linked to its log, a second row stays `running`.
  The stale view (`:277`) fails a row whose message still waits, or which has
  been linked since it was read.  The fallback in
  the API process takes no lock.  Two requests within the second that the ping
  takes both pass the check.  A broker error leaves the connection `running`.
* **Guardrail.**  The limit that is looked at is the nested one; the one at the
  top is what runs without it.  A limit of `"200"` is clamped and accepted, one of
  `"50"` is rejected by the schema.  The docstring's promise (341-343) holds but
  for the function taken off an aggregate calculation.  A second guard is
  idempotent for callers without synonyms, the only ones there are; for an
  informed caller a synonym that leads to an aggregate calculation refutes it.

And of parts without a module: a causation session sets RUNNING twice, which its
own table forbids, so every session fails before its first step
(`causation_session.py`); the stream of a task run commits events it never sends
(`task_runs.py:242`); `event_tasks.py:122` says beat runs the outbox every 30
seconds and no schedule does.

## What is not modelled, and why

Of the modelled parts:

* task runtime: the event table, the SSE stream and the validators of creation;
* capability wrapper: authorization, parameter validation, cost and audit
  records; the rate limiter is one refusal;
* session scope: the engine's pool and the schema check at start-up;
* synchronisation: the deletion of a connection, an outage of Redis at the lock of
  a plan, the asset tables, the signals of task runs; at most one view at a time
  has read and not yet written;
* semantics: field semantics (the API has no write back for them), embeddings,
  the assembly of contexts, edits made in Tableau;
* metric registry: the version log, bindings (an invalid one is a request that
  fails), sensitivity levels, lineage records, events, the lookup;
* data agent: heartbeats, titles, archiving and clearing of conversations, the
  pairing of messages with runs, the content of plans and renderings; much of
  `mcp_first_main.py` (about 297 to 1175) is not called;
* guardrail: the guards of the two other tools, enumerated values, the hints of
  the catalog, the messages;
* MCP: sessions evicted or expired by age, the handshake with the child, the stop
  at shutdown, the cache of clients;
* quality: the SQL of the rules, the seven-day mean, profiling, analysis by the
  language model, templates, partitions, clean-up, the endpoints.

Of the others, the inventory says what they are; those without state of their
own, or whose state is one row written in one step, are left to tests.  By size
most of the repository is of that kind: planners, renderers, prompts, SQL,
endpoints that read, the frontend.

## Plan

What is left, in this order:

1. `TaskRunEvents`: the event stream and the SSE loop over `TaskRun`: what a
   reader is sent before the stream ends.
2. `AnomalyReview` and the circuit of `token_budget`: two small state machines
   against their abstract tables.
3. `AnalysisSession` and `Outbox`, once a router or a schedule reaches them.

Theorems to go with them: that the events a reader of `TaskRunEvents` is sent are
a prefix of what the row went through; that an anomaly's row follows its table.
