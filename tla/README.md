# Verification of Tenchi

Tenchi is a Python framework in which an application declares contracts
(routes, jobs, tasks, tools), implements them as use cases over ports, and lets
the framework call the use cases with validation, a context scope, hooks,
deadlines, observers, idempotency and rate limits. Around that it has a
developer's tool chain: generators, a verification command with receipts, a
compatibility gate, evaluations of models, and MCP servers. The repository also
ships taskboard, an example application whose SQLite stores and outbox worker
show how those ports are meant to be implemented.

This directory holds TLA+ models of Tenchi and taskboard, the TLC runs that
check them, and proofs. Most models are about the order of things: what happens
when a cancellation, a deadline, a crash, another process, an editor or a clock
gets in between two steps. The others are about agreement: what a client
declares and a server reads, what one release publishes and the next accepts.
`PROJECT.json` lists the components, the runs, the mutants, the source lines
behind every definition, the findings, the hazards and the theorems. This file
explains them.

Source paths below are relative to the repository root; `T/` is
`src/tenchi/`.

## 1. The system

| Component | Source | State | Operations | What is hard | What makes it correct |
|---|---|---|---|---|---|
| Idempotency | `T/idempotency.py` | `_records`, `_last_now` of the store; each caller's reservation | reserve, complete, abandon; `run_idempotently` | the operation runs outside the lock; leases expire under it; any injected clock | one live run per key, one answer per key, answers only to the same input, fencing by token |
| Entrypoints | `execution.py`, `server.py`, `jobs.py`, `tasks.py`, `tools.py`, `webhooks.py` | none across calls; a call has a scope, a deadline, an outcome | HTTP dispatch, `execute`, job dispatch, task and tool runs; registration of use cases | cancellation at every await, two sources of cancellation, failures on every step; signatures and annotations that only fail when called | what the caller and the observers are told agrees with what was committed; what was registered can be called |
| Client | `client.py`, `retries.py` | a call's attempt number, deadline, outcome | `call`, `call_with_response`: build, send, read; attempt, backoff, give up | Retry-After, backoff and total timeout compete; slow observers; cancellation inside a handler | no early retry, budget kept, one truthful outcome per call |
| Rate limits | `rate_limits.py`, taskboard's `sqlite_rate_limits.py` | one window per identity | `consume`, `enforce_rate_limit` | changed rules, clocks set back, rounding | bounded bursts, exact Retry-After, refusals cost nothing |
| Contracts, routes, composition | `contracts.py`, `routes.py`, `_composition.py`, `responses.py`, `errors.py`, `_media_types.py` | immutable declarations | declare, group, compose into an application, order the routes | HTTP carries text: headers without case, defaults of clients, converters, media types, passthrough bodies | the use case gets what its caller meant and the caller what the use case answered |
| taskboard outbox | `server/worker.py`, `add_project_member.py`, `sqlite_repositories.py` | outbox rows, notifications, members | enqueue, claim, deliver, dead-letter | workers compete and crash; a claim is released before the dead-letter is written | at most one delivery, in order, atomic with its effect |
| taskboard tasks | `move_task.py`, `create_task.py`, `update_task.py`, `sqlite_idempotency.py`, `port_wiring.py` | task rows, idempotency records, quota windows | move, create, patch | four writes in one transaction; clients repeat requests; processes die | once per key, quota only for work done, no lost update |
| Health checks | `health.py` | detached check tasks, the pool's threads | concurrent checks with timeouts | a check that ignores its cancellation, or keeps its thread | bounded answer time, "healthy" is proven, runaways are held |
| Preflight | `preflight.py` | the verdicts so far | concurrent checks, each under a deadline | a check may swallow its deadline | an expired deadline is never reported as a pass |
| MCP server for tools | `mcp.py`, `tools.py` | calls under way | tools/call: authenticate, see, validate, approve, run | concurrent calls, a policy that changes, an approver that changes what it is shown, awaits after the commit | what runs was approved as it is; what an answer says of the commit is true |
| MCP server for agents | `_mcp_server.py`, `_checks.py`, `_openapi_operations.py` | operation lock, import state of the interpreter, process groups | inspections, inline operations, validations | a cancelled operation's thread goes on, through nested swaps of the import state; subprocesses ignore signals; the source is edited | one operation at a time, fresh imports without leaks, nothing left running |
| Evaluations | `evaluations.py` | outcomes, usage, lifespan | batches, deadlines, budgets, gate | partial results, overspending batches, contexts that hang | a pass is proven; a budget overspends by one batch at most |
| Generators | `scaffold.py`, `_cli_operations.py`, `_change_plans.py` | files and directories on disk | guards, write, roll back | failure half-way, other processes in the same directories, kills | all or nothing, and nobody else's files |
| Verification | `_verify_operations.py`, `_verification_policy.py`, `_pytest_evidence.py`, `_source_identity.py` | evidence of each stage, captured identities | run the stages, capture the tree, compare the policy | the tree changes while stages run; the policy weakens with the change it judges | evidence belongs to the tree the receipt names |
| Boundary compatibility | `compatibility.py`, `_schema_compatibility.py`, `openapi.py` | none | classify a change of a document | direction (request or response), references, Python equality | what the gate lets through breaks no earlier client |
| Application map, doctor, command line, telemetry, testing helpers, todos, fieldnotes | see `PROJECT.json` | none | rendering and inspection | nothing over time | - |

Interactions. An entrypoint opens an application's context scope
(`open_context` around `open_request_ports`: one connection, one transaction),
calls the use case with the scope's ports, closes the scope and tells observers.
A use case may call `run_idempotently` and `enforce_rate_limit`, whose stores are
ports as well: the memory stores keep their own state under an `asyncio.Lock`,
taskboard's SQLite stores write into the request's transaction and so commit or
roll back with it. A use case may also enqueue a job into the outbox in the same
transaction; the worker claims it later, on a connection of its own, and runs it
through the job entrypoint. The client is the other end of the HTTP entrypoint,
usually in another process; both are built from the same contracts, or from
contracts of two releases that the compatibility gate compared. The tool chain
works on the source tree: generators write it, `verify` runs checks on it and
identifies it, the agents' MCP server imports it again and again while it changes.

## 2. The modules

    IdempotentResult <- refines -   Idempotency      <- MCIdempotency, IdempotencyProofs
    DurableResult    <- refines -   TaskboardTasks   <- MCTaskboardTasks, TaskboardTasksProofs
    FixedWindow      <- extends -   TaskboardTasks, RateLimit
                                    TaskboardOutbox  <- MCTaskboardOutbox, OutboxProofs
    Preflight, Health, ToolMcp, RateLimit, ClientRetry <- MCServedProcess, ServedProcessProofs
                                    AgentServer      <- MCAgentServer, ServedProcessProofs
                                    Evaluations      <- MCEvaluations
                                    Generation       <- MCToolchain
    VerificationPolicy, PytestEvidence, ChangePlan <- Verification <- MCVerification, VerificationProofs
    SchemaCompatibility <- OpenApi ; OpenApi, EvaluationCompatibility <- Boundary <- MCBoundary <- MCToolchain
    Evaluations, Generation <- ToolchainProofs ; Boundary <- BoundaryProofs
    HttpParameters, Routing <- HttpExchange
    Entrypoint, Binding, HttpExchange <- MCApplication, EntrypointProofs

`MCServedProcess`, `MCApplication` and `MCToolchain` hold components that share no
state. One variable, `subject`, says which of them a behaviour is about; the
others stay in an initial state. That is a way of checking several small models
in one run, not a composition: no property relates two subjects.

Definitions whose names carry a suffix (`Expired_LeaseOnly`, `Lock_Barging`)
are faulty variants of the definition they are named for. Nothing uses them: a
mutant run puts one in the place of the correct definition and must then find
the property violated that `PROJECT.json` names. They show that every checked
property depends on the code it is about. Ghost variables (marked in the
modules) are history that no guard reads.

### Idempotency, IdempotentResult

`records` and `lastNow` are `_records` and `_last_now` of
`MemoryIdempotencyStore`; `clock` is what the injected clock would return now;
`calls` holds every caller's progress in `run_idempotently`. The store never
suspends while it holds its lock, therefore `reserve` is one step (six actions,
one for each decision or error: `ReserveConflict`, `ReserveReplay`,
`ReserveInProgress`, `ReserveWins`, `ReserveNoFuture`, `ReserveClockBackwards`),
and so is the end of a run together with the `abandon` that follows a failure
(`CompleteAndReturn`, `CompleteRefused`, `OperationFails`). Other calls and
`ClockMoves` interleave while an operation runs. A call reserves at most once,
so its name also stands for its token and its result. `Coarse` readings are the
clock values so large that adding a ttl to the float does not change it.

`IdempotentResult` is the promise without leases, tokens and clocks: a key has
at most one answer at a time, and a call gets the answer of its own run or
replays the one there is for the same input. `Idempotency` implements it
(`ImplementsPromise`) with the mapping `answerBar`, `outcomeBar`.

### Entrypoint

One call through one of the five entrypoints. `stage` is the program counter
over the awaits of `server._make_endpoint`, `execute`, the job dispatcher and
the task and tool runners. These share the path and differ in what comes before
the scope (HTTP validates inside it, the others before it), in who validates
results, and in the lifespan a task or tool owns. `scope` is the unit of work of
`open_request_ports`, `flight` the result or exception on its way out, `run` the
status the use case's observers will hear. `DeadlineExpires` and `CallerCancels`
deliver a cancellation at any await; `Cut` says what the awaiting code makes of
it. User code may swallow it, and a commit that aiosqlite has begun may take
effect although it was cancelled. `TimesOut` is the rule of `asyncio.timeout`:
the cancellation becomes a `TimeoutError` only if it is the deadline's own and
the only one.

### Binding

How a plain async function becomes a tool, a job's handler, a task, a route's
use case or the subject of `execute`: `Bind` is what the decorators and
registrars check of its signature and annotations, `Register` what composition
checks of the whole, `job_message` the producer's side, and from `Give` to `Invoke`
a call whose input becomes keyword arguments. A signature is a function from
parameter names to how the parameter is taken, an annotation a name that leads
through the module's globals to a type or to nothing. The code follows names one
at a time (`_resolved_annotation`); `Meaning` says what must come of it without
following any: the types in every set that is closed under the globals.

### HttpParameters, Routing, HttpExchange

`HttpParameters` says which object types can be parameters, queries, headers and
response headers, and which bodies go with which media types. `Routing` holds
the identities that `create_app` refuses, the order in which routes are tried,
the dispatch, groups and webhook bindings. `HttpExchange` is one HTTP call: an
application is composed (`Compose`) or refused; a typed client builds a request,
or any other peer sends one; the server dispatches it (`Arrive`), verifies a
webhook, validates the inputs, and answers what the use case returned, presented,
passed through or raised; a proxy may answer instead (`Intrude`); the client reads
the answer (`Read_`). A value is a Python type and a text, a type is the function
of what it validates and of what it serialises to, a body is a token with a size.
What refers to itself, the shapes of a schema, the kinds of an annotation and the
resolution of dot segments, is a recursive function over a set (`Nodes`, `Notes`, the
places of a URL).

The assumptions name what the code relies on and does not check. `TextsAssumption` is
about Python and Starlette: a text is split at slashes in one way, and what a codec
encodes it decodes. `ApplicationsAssumption` is about what an application is made of: a path
that Starlette compiles (`Compiles`), ranks that tell paths and methods apart, values
that serialise to texts, non-empty strings where the schema says so, `ErrorDef` statuses
from 400 to 599, proxies that do not claim the application's own header, and an
exception that is no value.

`WhatIsSentIsReceived` and `WhatIsAnsweredIsUnderstood` are stated with two properties of
a type. It is *legible* if it accepts what it writes (`Legible`, `HeadersLegible`), and
*faithful* if it also gives back the value (`Faithful`). The code asks for neither: a body
is checked against its schema and read again, not compared with the value.

### ClientRetry

One call of `Client.call_with_response` with its attempt loop (`_run_attempts`).
`Succeed`, `Reject`, `BreakOff`, `Fail` and `AttemptExpires` are the ways an
attempt ends; `Finish` records what the attempt observers hear, including the
announced `willRetry` and delay; `TryAgain`, `Wake`, `SleepExpires` and
`Conclude` are the loop; `Return` is the end of the call observers.
`CallerCancels` may come at every await, up to `Cancels` times, and distinguishes
the handlers that are active: a cancellation that arrives inside an `except`
clause is not seen by its siblings (`HandlerCancelled`). Time is counted in
ticks. Timers fire when they are due, because `Tick` is disabled once an awaited
timer is due.

### FixedWindow, RateLimit

`FixedWindow` holds the pure part: the window after a `consume` (`Window`), the
decision (`Decision`), the whole-second `RetryAfter`, and the validation of
decisions in `enforce_rate_limit` (`Valid`). `RateLimit` lets calls, a change of
the rule, time and one set-back of the clock interleave, for the memory store
(which raises on a window longer than its rule and keeps what it pruned) and for
the SQLite store (which rolls back on any error). `spent` is a ghost: how much an
identity has been granted up to each time under the rule its window has.

### Preflight, Health, ToolMcp

`Preflight` is `run_preflight`: the checks of a group at once, each under its own
deadline or the shorter cap. A check returns, raises, obeys its deadline, swallows
it and returns late, or raises a cancellation of its own; `_run_check` decides by
the deadline and not by the result.

`Health` is `health_route`: every request starts all checks as tasks of their own.
An asynchronous check may swallow its cancellation; a synchronous one keeps its
thread of the shared pool although its task is gone, so that later requests'
checks may find no thread. `detached` is `detached_checks`.

`ToolMcp` is `call_tool` of the application's MCP server with `ToolRunner._invoke`:
each step ends at an await of an application callback (principal, visibility,
runner factory, approver, use case, the context's exit, observers, the lifespan's
end), where other calls and changes of the policy come in between, and where the
client may give up. `flight` is what is on its way out of `_invoke`: the use case's
result or error (`RunUseCase`), until the context commits, rolls back or raises
(`CloseContext`) or the lifespan's end raises (`_invoke`). A call may so be dropped, or
told of a failure or an application error, after its work was committed; `verdict`, a
ghost, remembers what the use case itself came to.

### AgentServer

`tenchi mcp` for coding agents: one lock over all operations, inspections in a
worker thread, preflight, evaluations and tasks on the loop, and validations in a
shielded worker that runs commands. `interpreter` is the process's import
state, which every operation swaps (`EnterImports`) and restores (`Leave`), and which
each load of a group of the project swaps and restores once more inside (`Load`,
`LoadEnds`); an `Import` reads the source's version, or takes a module that is loaded.
A cancelled inspection loses the lock; its thread, once it has begun (`Begin`), goes on
from wherever it is, also if it has yet to take its snapshots. A validation cancelled
once keeps lock and thread until its worker has stopped, cancelled twice it loses the
lock. `process` is a command's group, whose leader and descendants may ignore SIGTERM.
Five ghosts tell such histories apart: `stale` has the calls that imported an earlier
version, `abandoned` those that gave up the lock under way, `late` those of them that
took a snapshot after that, `beside` those that ran while another did.

### Evaluations

A run under one lifespan: suites one after another, cases in batches of
`concurrency` tasks, each with its deadline and its context, and gates on scores,
tokens and cost. A task's `hit`, `expired` and `outer` say which cancellations it has
been sent; `Ended` is what `asyncio.timeout` makes of them. `gather` waits for all
of a batch unless one was cancelled.

### Generation

`make feature`, `make use-case` (with its change plan) and `make capability` by
several generators in one project, step by step as system calls: guards, the
sample of existing directories, `mkdir`, exclusive `Open`, `Write`, and after an
`OSError` the rollback (`unlink`, `rmdir`). `files` and `dirs` say who made each path,
`gen` holds each generator's locals. `Fault` lets a call fail; `Kill` ends a
generator anywhere; `Stray` and `RemoveStray` are a process that is no generator.

### Verification, VerificationPolicy, PytestEvidence, ChangePlan

`Verification` is `verify`: it captures the identity of the tree (file by file,
while an editor changes files), runs the stages that the policy requires, captures
it again after each, re-reads policy and plan at the end and writes the receipt.
`Facts` says what the stages would find in each tree. Three ghosts keep history:
`evidence[s].read` has the trees a stage has seen, `past` what each file has held,
and `undone` whether a file was ever given back something it had held before.
`VerificationPolicy` is `tenchi.toml` and its
comparison with the baseline's, `PytestEvidence` the plugin that says whether the
planned test ran, `ChangePlan` the plan that a generator leaves behind.

### Boundary, SchemaCompatibility, EvaluationCompatibility, OpenApi

`SchemaCompatibility` classifies a change between two JSON Schemas in a direction.
`compare` is one call of `_Comparator.compare` without the calls it makes, `Calls` are
those, and `compare_schema` collects what all the calls say that are reached within
Python's recursion limit (`Visited`); a comparison that would go deeper raises, and lets
nothing pass. References that were followed once are not followed again, so the calls
are a set. As the reference it defines which values a schema admits (`Admits`) and of
which it says something (`Declares`): recursive functions over a document's definitions,
a schema and a value. `OpenApi` is the document that `openapi_schema` builds from contracts and the errors the server
answers for them. `EvaluationCompatibility` compares evaluation policies.
`Boundary` is a sequence of releases (what each kind of `Documents` consists of say
`IsApi`, `IsContract`, `IsTool`, `IsPolicy`): `Merge` deploys a document that the gate calls
compatible with the deployed one, `Build` makes a client of what is deployed; the
properties relate that older client to the release that runs, after any number of
merges, although the gate only ever compares neighbours.

### TaskboardOutbox

`db` is the committed database, `work` the copy of the one connection that holds
SQLite's writer lock, `writer` that connection. `ReadMembers` reads outside any
transaction, `SaveMembers` takes the lock, `Enqueue` adds the outbox row in the
same transaction. Workers `Claim` the oldest pending row, then `Deliver` or
`Reject`; a rejected job is rolled back, which releases the lock, and only then
marked as failed (`RollBackJob`, `MarkFailed`). `Fault` is a crash, an
infrastructure error or a lock timeout. `Rejects` says which worker's dispatcher
refuses the message about which user, so that workers of different releases can
disagree.

### TaskboardTasks, DurableResult

Several processes, one SQLite file. A request reserves its key, runs its
operation (`Move` with its quota, `Create`), completes and commits in one
transaction; `update_task` reads outside and saves with a version check
(`Read`, `Save`). `Die` is a cancellation, a timeout or the death of the
process, which may fall on a commit that was applied although nobody heard of
it; clients repeat a request with the same key before or after that (`Send`).
`DurableResult` is what such a client is promised: a key settles on one result
of one input, for ever. `TaskboardTasks` implements it
(`ImplementsDurableResult`, mapping `settledBar`, `toldBar`).

## 3. The runs

| Run | Question | Bounds | Distinct states |
|---|---|---|---|
| `idempotency` | Do leases exclude, and does the store keep the caller's promise under any clock? | 3 calls, 1 key, 2 inputs, clock readings 0..5 (5 is coarse), lease 3 ticks, 2 ticks a second, symmetric calls and inputs | 199 410 |
| `application` | Can everything that was accepted at registration be called with what it is passed? Does the use case get what its caller meant, and the caller what the use case answered? Does what the caller and the observers are told agree with the transaction? Do timed requests end? | a catalogue of wirings with 2 names, 3 types and 3 payloads; some three hundred applications of one or two contracts, 2 clients, 17 kinds of field values, other peers, proxies; a call of all 5 entrypoints, timed or not, signed or not, 2 observers of each kind | 199 906 |
| `served_process` | Is the gate proven, is health honest and answered, are tool calls sound, are bursts bounded, refusals exact, retries on time and told? | 2 probes with different timeouts and a cap between them; 2 requests with one asynchronous and one synchronous check and 1 thread; 2 callers, 2 tools, 3 arguments, 1 change of the policy; rules 2 per 3 ticks and 3 per 2 ticks with the clock set back once by 1 or 4; 4 retry policies, Retry-After in {0, 1, 3}, 2 cancellations | 531 610 |
| `agent_server` | Is the import state restored, and when may modules be stale? | 2 symmetric inspections and an inline operation, 2 loads each, 1 edit | 1 058 189 |
| `agent_commands` | Does one operation run at a time, and leave no command running? Does every call end? | an inspection, an inline operation and a validation of 1 command, 1 load each | 190 535 |
| `agent_imports` | Are imports fresh whatever is cancelled? (violated) | an inspection and 2 inline operations, 2 loads each, 1 edit | - |
| `evaluations` | Is a pass proven and a report honest? Does the lifespan surround the cases? Does a run end? | a suite of 5 cases with a token limit in batches of 2, a suite of 1 case with a cost limit, 4 measurements, any selection | 70 244 |
| `verification` | Is an ok receipt evidence about one tree, with everything the baseline required, and did the planned test run? | trees of 2 files with 3 and 2 contents, 2 edits, 3 baselines, 2 plans, 2 commands | 1 963 650 |
| `toolchain` | After any number of compatible merges, are old calls served, new answers understood, promises kept? And do generators make all or nothing, the plan after its files, and leave the files of others alone? | documents around 31 scalar schemas, 22 containers and recursive schemas; operations, tools, jobs, policies; 21 values; all pairs; 2 symmetric generators, 7 commands, 1 failing system call, any kill, 1 file of another process | 777 950 |
| `taskboard_outbox` | Is every committed message delivered at most once, in order, atomically, and settled in the end? | 3 requests (two add the same user), 2 workers, one user whose message is rejected, 2 faults | 13 938 |
| `taskboard_tasks` | Do repeated requests, quota, versions and crashes compose? | a move sent twice, the same key reused by another move, a creation sent twice, a competing patch; limit 1 per 2 ticks, lease 1 tick, 2 ticks | 407 264 |
| `outbox_mixed_releases` | Does a job end in exactly one way when workers of two releases run? (violated) | as `taskboard_outbox`, no faults | - |

Why these bounds are enough to meet the interesting cases:

- `idempotency`: three calls are one that overstays its lease, one that takes
  over, and one that replays, conflicts or reserves once more; the readings
  cover before, at and after the end of a lease and of a retention, backwards
  jumps and the coarse reading. Keys do not interact in the store beyond the
  clock, so one key suffices; the proofs cover any number.
- `application`: the model is a function of what was declared, so the catalogue is
  the bound. It has every kind of parameter in every position, annotations that
  lead through one name, two names, a cycle or nowhere, and for HTTP each slot
  with types that read more than they write, less than they write, or something
  else; two contracts that overlap in path and method; texts with separators,
  non-ASCII characters and leading blanks; bodies below and above the limit. A call
  of `Entrypoint` is a finite program; only `Observers` is a bound, and two tell "once
  each" from "at least once". The state of different calls is disjoint except
  through the database.
- `served_process`: `Preflight` needs a check on either side of the cap; `Health`
  needs a second request to find the thread that the first one's check keeps;
  `ToolMcp` a second caller whose locals could be mixed up with the first's, and a
  value that is spelt in another way than it is validated to. Windows are not a whole number of seconds, so
  rounding matters; the times 0 to 5 hold two windows and the boundary between
  them. Three attempts give two backoffs; the waits are below, at and beyond the
  policies' caps; a second cancellation interrupts the handler of the first.
- `agent_server`: two inspections are given up together, or one beside a call that
  keeps the lock and one after it; two loads let a cancellation fall before, between
  and after nested snapshots; one edit makes modules stale. `agent_commands`: one call
  of each kind holds, waits for and runs beside the lock. The proofs cover any
  number of calls, loads, edits and commands.
- `evaluations`: five cases in batches of two make a first, a middle and a
  shorter last batch.
- `verification`: two edits change a file away and back, which is the one thing
  the second look cannot see; a tree of two files can be read torn.
- `toolchain`: the relation "older client" is closed after two merges; the catalogue
  holds, for every keyword, a schema with it, without it and with another value
  of it. Two generators meet on a feature, on a use case and on the capability;
  failures within a rollback are the second failing call's and are left out
  (`MaxFaults`), kills are not bounded.
- `taskboard_outbox`: the second request for the same user shows the
  already-member path, the third a second row to overtake; two workers are all
  that the one writer lock can be contended by besides requests.
- `taskboard_tasks`: limit 1 makes the second move depend on the quota of the
  first; a lease of one tick can end inside its own transaction; two ticks let
  the quota window end as well.

Deadlock is checked where a finished model has an explicit `Done` or `Quiet` step
or never finishes (`idempotency`, the outbox runs). The
other systems do stop: calls are answered, runs report, generators and edits are
used up, times end at a `Horizon`, clients stop after a number of requests.

### Fairness

- `EveryMessageSettles` (outbox): a request that has begun to write ends, by
  commit or rollback, because the request's scope is left in any case; `main` in
  `worker.py` keeps every worker polling and a process that died is restarted
  (weak fairness of `Process`); SQLite does not refuse the lock to the same
  worker for ever (strong fairness of `Claim` and `MarkFailed`, which compete for
  it). Faults are bounded by `MaxFaults`: a worker that crashes for ever settles
  nothing.
- `TimedRequestsEnd` (application): the framework's own steps go on; the event
  loop fires an armed deadline; user code that swallowed the cancellation returns
  after it. Without a deadline user code has no fairness: a use case may hang.
- `HealthAnswers`: the loop resumes a `run_check` whose task ended, fires its
  timeout, and answers. No check has fairness: all may hang for ever.
- `EveryCallEnds` (agents' server): a freed lock is taken by each waiting call,
  and operations go on: imports and what is awaited inline end, and a command that
  does not end is signalled at its deadline. Nobody need call, edit or cancel.
- `RunEnds` (evaluations): the runner goes on, timers fire and are delivered, and
  a case whose deadline has cancelled it ends even if it swallowed that. A case
  that is not overdue has no fairness.

### The findings

`outbox_mixed_releases`: the rollback of a rejected job releases the claim;
another worker can deliver the row before `mark_failed`, which updates by id
alone, dead-letters it (`sqlite_repositories.py:115`). A job then ends in two ways,
and `worker.py:12` says that it ends in one. It takes two workers that disagree
about a message, as in a rolling deployment.

`agent_imports`: an inspection whose thread has begun is cancelled before its
snapshot. It releases the lock (`_mcp_server.py:221`, `to_thread` without a shield) and
its thread goes on. The next call loads the project; the inspection then enters its
swap and saves those modules; the agent edits the project; the inspection ends and
puts them back under a third call, which imports the earlier version.
`_openapi_operations.py:135` promises fresh imports without leaks. One
cancellation suffices, as long as it falls between the thread's beginning and a
snapshot; `ImportsAreIsolated` says what holds otherwise.

## 4. The proofs

Eight modules hold proofs, checked to the last leaf with tlapm. They hold for every value of the constants
that satisfies the named assumptions of the module, which the runs evaluate on
their own instances. Each state machine's theorem follows from an inductive
invariant that is stated as a conjunction of named parts.

### IdempotencyProofs

Assumptions: `TimesAssumption`, `TTLAssumption`, `NoneAssumption` (clock readings
and ttls are natural numbers, `None` is none of the data). Arithmetic on
`Coarse` readings is what the model says of floats.

Two inductive invariants carry the results. `LeaseHolds` together with `TypeOK`
is the first (`IInv`): a running call whose lease reaches beyond the last accepted
reading owns its key's record, with the same end of lease. It is inductive because
`lastNow` never decreases, a smaller reading raises, and a record is only
dropped as expired at a reading that `lastNow` then remembers. `LeasesHold`,
`LiveRunsExclude` and `AnswersEndRuns` follow from it. `OneLiveRun` alone is not
inductive: it does not say that the loser of a lease has lost the record.

The second (`HInv`) is about history: every stored answer is `Backed` by the call
that returned it, and every call that returned is `Remembered` by its record or
past its retention. `ReplaysAreBacked` and `AnswersAlone` follow.

`AnswersStay` and `ReservationsStay` are action properties (only the owner or time
ends a reservation, only time ends an answer), proved from the types and the
store's guards. `KeepsPromise` shows that every step of `Idempotency` is a step or a
stutter of `IdempotentResult` under the mapping.

### EntrypointProofs

Assumption: `EntrypointAssumption`. The invariant is `TypeOK` with one conjunct
for each dependency of the program counter: `ScopeFits` (which transaction states
each stage can have), `FlightFits` (what can be on its way out where, and that a
result or refusal is only ever on the committing side), `RunFits`, `AnswerFits`
and `ToldFits` (how many observers have been told so far). `TypeCorrect`,
`SuccessMeansCommitted` (of the answer; of use-case observers only that what they do
not hear succeed is not committed), `FailureMeansRolledBack`, `LateSuccessIsATimeout`,
`ObserversToldOnce`, `InvalidInputStops` and `RefusalsCommitTheScope` follow, for
any set of entrypoints and any number of observers.

`BindingsFit` is about the arguments of the call (assumptions: `BindingAssumption`,
of which the proof needs that there are finitely many names, apart from types and
`Unbound`, and that strict validation admits no more than validation;
`WiringsAssumption`, what the constructors of tools, jobs and contracts enforce before
anything is bound). `BindInv` carries what `Bind` and `Register` have checked to the
call (`WiringFits`), that the keywords are those of the input as soon as it is accepted
(`GivenFits`), and which scopes are open at each stage (`OpenedFits`). `AcceptedBinds`
is the heart of it: for each entry, what its check of a signature asks is what its
arguments need. The run chases names through small modules; the proof needs
it for any. There is no induction theorem that the provers can instantiate, but the
well-foundedness of the naturals gives every set of them a least one (`LeastNumber`),
and a counterexample of least length does the work: the chain of names exists
(`ChainsAre`), it ends in what the annotation means (`ResolvedIsMeant`), and
flattening a group loses no handler (`FlattenedHolds`). `BindingsFit` holds for any
applications, names, types and payloads.

`SentIsReceived` and `AnsweredIsUnderstood` are about the exchange (assumptions:
`SchemasAssumption`, `TextsAssumption`, `ApplicationsAssumption`). `HttpInv` remembers why
things are as they are: the request on the wire is what the client's builder made of the
call (`CallFits`), the route is the dispatcher's (`DispatchFits`), what the use case has
was read from the request and valid (`ReceivedFits`), every response has one of the
reasons that the server can have for it (`AnsweredFits`), and the client's result is what it
makes of the response (`ReadFits`). What is left is about the operators, for any
declarations:

- `FilledIs`: a path that the client fills has no dot segment, matches its own
  template, and gives every parameter back its own text, also the one that takes the rest
  of the path. It rests on `FlattenedPath` and `NormalisedIs`, two recursive functions
  about which a least counterexample proves what an induction would.
- `DispatchIs`: priorities are totally ordered (`OneIsBefore`, `NotBothBefore`,
  `BeforeThose`, `PrioritiesDiffer`), so that the first of the routes that can serve a
  request exists (`OneIsFirst`), and `Dispatch` finds it. `LiteralIsServed`: a route without
  parameters is tried before any other that matches its URL. This needs
  `_validate_route_identities`: two routes of one method with the same document path
  would otherwise take each other's calls.
- `ParamsArrive`, `QueryArrives`, `HeadersArrive`, `BodyArrives`: what the server reads is
  what the client's round-trip check has read before it sent anything.
- `BodyIsRead`, `HeadersAreRead`, `StatusSelects`: what the server rendered the client reads,
  under the definition that was chosen, because a contract's statuses are distinct and
  those of errors lie apart.

### OutboxProofs

Assumption: `OutboxAssumption` (requests and workers are disjoint; `Rejects` may
be any relation, also one on which workers disagree). What the properties say of
`db` after a commit depends on what `work` held before it, so the invariant says
exactly what `work` is at each point of each transaction (`WorkFits`), that a
claimed row is still pending while its worker has the lock and that the rows
before it are settled even after the lock is gone (`ClaimFits`: the gap before
`MarkFailed`), that a request's stale copy of the members holds only announced
users (`SeenFits`), and that only settled rows have notifications
(`NotifiedFits`). `TypeCorrect`, `DeliveredOnce`, `OldestFirst` and
`MembersAnnounced` follow, for any number of requests, workers, users and faults.

`NotifiedOrDeadLettered` has the one hypothesis of this kind: `OneRelease`, that the
workers agree on what they reject. Without it the statement is false, which is the
first finding above. With it `VerdictsFit` holds (whatever a worker makes of its row
follows from the row's message), also in the gap before `MarkFailed`, when
another worker may have dead-lettered the row but cannot have delivered it.

### ServedProcessProofs

Six specifications that share no variable, one after the other.

- `GateProven` (`PreflightAssumption`): `TimersAreOnTime` (a check that no deadline
  has interrupted is not past it) makes a "passed" as old as its proof at most.
- `HealthHonest` (`HealthAssumption`): `Fresh` (before a request comes nothing of it
  exists) and `OutcomesAreEarned` (a run_check's ok is its own task's, a
  timeout is for good) carry `HealthyIsProven`; `RunawaysAreHeld` is inductive.
- `ToolsSound` (`ToolAssumption`): `LocalsFit` says at each stage what the call's
  locals are: the principal of its own headers, the validated form of its own
  arguments, and the very triple that was approved. `FlightFits` says what is on its
  way out: the use case's own outcome until the context is closed, then a result only
  if it was committed; `EffectsFit`, that nothing is committed but the work of a use
  case that returned a valid result.
- `RetryAfterHonoured`, `TotalTimeoutKept`, `CallEndsAreTold` (`ClientRetryAssumption`).
  `DeadlineFits`: the deadline is the total timeout plus the observers' time, at
  every moment, and no attempt or sleep outlasts it. `AnnouncementFits`: the delay
  that observers heard of covers the wait that was asked for and leaves time before
  the deadline. It carries the wait from the attempt that was refused, over the
  observers and the sleep, to the next one. It speaks of the Retry-After that the
  client goes by, which is not every one it is sent (section 5). `OutcomeFits`: a call has one outcome.
- `BurstsBounded`, `RetryAfterExact` (`RateLimitAssumption`, `FixedWindowAssumption`).
  The bound of two windows' worth is not inductive: it looks back over windows
  that are gone. `OpenedAt(o, ...)` remembers for each identity a time `o` when its
  last window was opened: what was granted since is what the window counts, what was
  granted within a window's length before is at most a limit, and the window stays
  open for its length however the clock is read. Whatever stretch of that length one
  looks at, it meets at most the grants on both sides of one such `o`.
- `OperationsExclude`, `ImportsIsolated`, `CommandsEnd` (`KindAssumption`,
  `BoundsAssumption`, `UnsetAssumption`), of the agents' server. `LockFits`: an
  operation under way has the lock or was given up, and only in the two ways the
  code gives one up. `ProcessFits`: a command runs only while its step does.
  `BesideFits`: operations run at once only after one was given up. `IsolationFits`: as
  long as none did, whoever is inside will restore the original import state.
  `AloneFits`: an operation that runs alone has only modules loaded, and only modules to
  put back after a load, that are as new as its call. `FreshFits` covers one
  inspection that was given up and takes no snapshot any more: what the process has
  loaded is as new as whoever is inside, and so is what every load and every other
  operation will put back; the inspection itself puts back nothing (`ModulesFit`).
  Snapshots within snapshots are what makes it this long: it has to speak of what each
  restores under all the others. All three hold for any number of calls, edits, loads
  and commands.

### TaskboardTasksProofs

Assumptions: `TaskboardTasksAssumption`, `FixedWindowAssumption`. One connection
writes at a time, so everything that can go wrong lies between the committed tables
and the writer's copy. `WorkFits` says what the copy is at every stage of the
transaction: the writer's own key reserved and nothing else changed, then only the
writer's own change of the task, then its own result. `SeenFits` is what an update knows
from its read outside the transaction: the task of a version that is not newer than
the committed one, and the very task if the version is the same.

`Charges` counts: a window has used as many permits as there are keys whose moves
were charged to it. It must hold of the tables and of the copy the writer is about
to commit (with the result it is about to store), because the
permit is taken by one statement and the result stored by another. A new
window counts from zero since no move was charged to one that closes later.
`Inductive` is the invariant; `QuotaSpentOnWork` and `NoLostUpdate` follow.

`KeepsDurableResult` proves the refinement: with `settledBar` (the committed records
that have results) and `toldBar` (the results in answers), the commit of a first
result is `DurableResult`'s settlement, the answer is its telling, and every other
step stutters. A death whose commit was applied settles without telling, which is
why the two are separate steps of `DurableResult`.

### VerificationProofs

Assumption: `VerificationAssumption` (trees of one shape; what a tree contains and
what a baseline requires is arbitrary). Every `KnowsX` conjunct of the invariant says
that what `verify` has learnt holds of the tree that it named first, or that the
run is `Spoiled`: an error is recorded, the receipt is lost, or some file no
longer holds what the digest says and the capture under way has not read it yet
(`Diverged`). Divergence lasts, because a file that could match the digest again
would hold what it held before: `DigestIsPast` and `CapturesArePast` place both in
`past`, so that this is what `undone` excludes. The last capture then either finds
the difference or there is none. `Static` holds also when a file was undone: it has the
shape of the locals, what does not depend on files (`History`, `Baselined`) and what a
receipt requires (`ReceiptFits`). `ReceiptOfOneTree`, `RequiredPassed` and
`PlannedTestRan` follow, for any files, stages' findings, baselines, plans, plugins
and any number of edits.

### ToolchainProofs

- `LifespanOutlastsCases` (`ConcurrencyAssumption`, `SuitesAssumption`): tasks exist only
  between `StartBatch` and `gather`; when `gather` gives up on a batch, all are done or
  one is cancelled for good, which no later step of a sibling changes (`RunInv`).
- `ReportsHonest` (the same assumptions; of `None` that it is no number). `HonestInv`:
  what a suite has attempted is a beginning of its cases, each batch of it but the
  last was in time and within the limits together with those before it, and what
  follows was left out because the budget had not passed (`OutcomesFit`); a task that
  is done was attempted, and if it completed its context had ended in time
  (`TaskFits`); the reports are of consecutive suites up to the one under way. It needs
  no induction over outcomes: a sum over the first cases stays the same when others
  are put behind them (`SameSum`), so what `_budget_outcome` said before a batch is
  what must hold of the cases before it (`PassedBudget`, `EarlierAre`), and cases that
  were left out change no budget (`SameBudget`, `SkippedFit`).
- `ArtifactIsAllOrNothing`, `PlanImpliesFiles`, `RollbackSparesOthers`
  (`GenerationAssumption`). `FilesFit`: what a generator has created is a
  beginning of what its command writes, it is there and it is its own; until a
  rollback fails there is nothing else of its own. `DirsFit`: directories it made are
  its destinations, and what a rollback removes is what its sample did not
  find, while the project's directories are always in what it has found or has yet
  to look for. `StageFits` ties the program counter to both, `SuccessFits` says that
  success has written everything. Nothing in it speaks of two generators: creation
  is exclusive, so a step of one takes only absent paths and its own
  (`OwnStep`), and the others keep their part (`OthersFit`). The theorems hold for any
  commands, generators, strays and kills, and for any `MaxFaults`: also for rollbacks
  that fail in several places, which the run leaves out (section 3).

The lemmas on what a command writes (`WritesAreFiles`, `DestinationsAreDirs`) unfold
the paths. They are stated over `Words`, the words that occur in paths,
because the provers cannot show that a literal is a string.

### BoundaryProofs

The invariants relate a release to programs that were built from an earlier one, with any
number of releases in between. The gate only compares neighbours, so the argument has
two parts.

What one comparison shows, of two schemas in any two documents, as long as they have the
shape that Pydantic writes (`SchemasAssumption`) and no untyped enumerations or constants
that Python's `==` confuses (`LooseEqualityAssumption`; the code does let such a pair pass,
section 5): this is `CompatibleInput` and `CompatibleOutput`. When `compare_schema` lets a change of an input pass, every value that
the earlier schema admits and says something of, the later admits and says something
of; for an output, the other way round. The comparison is a set of pairs that is closed
under the calls, each with severities that pass (`Compared`). `InputCarried` and
`OutputCarried` turn what that says, keyword by keyword, into a relation without
severities, `Carries`, and `CarriesSpeaks` shows that values are carried along it. It would
be an induction over the height of a value's validation; as there is no induction that the
provers can instantiate, a counterexample of least height does the work (`LeastNumber`),
and the same argument shows that the recursive functions `Admitted` and `Declared` are what
their equations say (`RecursionDefines`). Beside references and under `oneOf` the
comparison asks for equality: by `ReachedIs` and `SameAdmits`, what is written the same and
reaches the same definitions admits the same values.

What a chain of comparisons shows. The properties are not inductive as they stand: a status
that is new to the neighbour may be the framework's internal error only, which says
nothing of a program that knew another response under that status, before a release
dropped it. `IInv` therefore says that `known` and `deployed` are releases, that
`deployed` can be imported, and that the one `Serves` the other: `ApiServes` (calls are
taken, responses read, no documented status and no guarantee of idempotency went), for
contracts also `SourcesTold` (the header that tells who answered an error names no new
source), `ToolServes`, `PolicyServes`. `Serves` is reflexive (`ServesItself`, for `Init`
and `Build`), a change that the gate calls compatible establishes it (`ServesNext`), and it
is transitive (`ServesOn`), so `Merge` preserves it. `BoundaryServesOldCalls`,
`BoundaryAnswersUnderstood` and `BoundaryKeepsPromises` follow under the same assumptions on the schemas; the second needs that a
document tells every error its server answers (`OwnErrorsAreTold`), the third that what
contracts read off a key's schema holds of every value it admits (`KeyIsNeverEmpty`).
`PoliciesTighten` says of any two policies that the gate calls compatible that no promise
of the old one is loosened.

Assumptions, each of which TLC evaluates on the run's catalogue:

- `DocumentsAssumption`: releases are made of the constants' schemas, codes and limits.
- `SchemasAssumption`, `RegistriesAssumption`, `ValuesAssumption`: what is inside a schema,
  document or value is one as well, and bounds are integers. As Pydantic writes them, a
  schema that names properties says that it has a type and is a record or a map, not both.
- `LooseEqualityAssumption`: constants and enumerations that Python's `==` cannot tell
  apart have types that differ. Without it the theorems are false (section 5).
- `HeightAssumption`: validating a value ends; no definition is merely itself or a
  union with itself. Without it "admits" has no meaning.
- `RecursionLimitAssumption` (a natural number), `NoLimitAssumption` (no limit is no number).

### Proved and no longer a checked property

The types (`TypeOK` of the proved modules), `DeliveredAtMostOnce`,
`MembersWereAnnounced`, `NoLateSuccess`, `InvalidInputGoesNowhere`,
`RefusalsCloseTheScope`, `AnswersAreKept`, `ReservationsAreFenced`,
`ReplaysWhatWasReturned`, `AnswersDoNotOverlap` hold by proof alone: TLC found no
counterexample to them before they were proved, and the runs now ask other questions.
The inductive invariants were checked by TLC in the same way before their proofs.

### Only model-checked

Every invariant that a passing run checks is also a theorem. What is left:

- Liveness (`EveryMessageSettles`, `TimedRequestsEnd`, `HealthAnswers`, `EveryCallEnds`,
  `RunEnds`): the prover does not reason about fairness.
- The two violations, of course: a proof cannot refute.

## 5. Where code and documentation disagree

Beside the findings, these were met while modelling. The models follow the code,
and the properties are stated so that they hold of it.

- Client: a cancellation that arrives while attempt observers hear of an expired
  or cancelled attempt leaves the call without an outcome (`client.py:504`, against
  `client.py:351`). An error that is selected by its code, whose definition does not
  declare Retry-After, is retried too early (`client.py:584`, against `retries.py:143`).
- Entrypoint: the deadline covers commit and close as well, so a 504 can follow a
  committed transaction (`server.py:1474`, against `docs/content/database.mdx:12`).
- taskboard: the reservation sits in the request's own transaction, so a repeated
  request waits for the lock and then replays; the 409 for work in progress never
  occurs (`sqlite_idempotency.py:44`, against `contracts.py:67`). Two additions
  from one read of the members lose one of them (`add_project_member.py:28`,
  against `docs/content/database.mdx:141`).
- Evaluations: cancelling a run with a concurrency of two or more closes the
  lifespan while a sibling's context still closes (`evaluations.py:702`, against
  `docs/content/evaluations.mdx:166`). `LifespanSurroundsCases` says so.
- Agents' server: `ImportsAreIsolated` excludes what the second finding shows (an
  inspection that takes a snapshot after it was given up), and likewise two calls, or a
  validation, that were given up under way.
- Entrypoint: use-case observers hear "succeeded" of a use case whose commit then fails
  (`execution.py:137`); `SuccessIsCommitted` promises the commit to those who hear of
  the answer.
- HTTP: a converting path converter whose parameter is declared as `str` always
  answers 422 (`routes.py:398` describes such a route as one to be refused); the
  check does not catch it, and the catalogue leaves it out.
- Generation: a rollback unlinks by path, also a file that a user removed, made again
  and edited meanwhile; and the sample of existing directories may be stale, so that
  a directory made again is left (`CHANGELOG.md:742`).
- Verification: a file that is changed and changed back between two captures is
  invisible (`_verify_operations.py:499`); the properties carry `~undone`.
- Boundary: Python's `==` hides a change of an enumeration from `[1, "a"]` to
  `[true, "a"]` (`_schema_compatibility.py:611`); `LooseEqualityAssumption` leaves out such
  enumerations where they have no type. Adding an optional typed property to
  an open object, or making a model of a `dict[str, Any]`, is called additive although
  earlier values may be refused (`docs/content/jobs.mdx:213`); the reference
  therefore considers declared properties only (`Declares`).

## 6. What is not modelled, and why

`PROJECT.json` gives the reason for each component. The application map, doctor,
the command line, OpenTelemetry and the testing helpers render, inspect and
parse: they keep no state over time. todos and fieldnotes are applications of the
same framework. Subprocess, git and file-system plumbing is input and output.
Inside the modelled components:

- Idempotency: fingerprints are model values (equal inputs have equal
  fingerprints, different inputs different ones); the validation of decisions
  from a foreign store is left out.
- Entrypoint: a context scope that suppresses exceptions is left out; several
  calls are not composed, because they share only the database.
- HttpExchange: response headers are not re-read by the server, so header types are
  those that read their own text; non-ASCII values of response headers, HEAD
  contracts with JSON bodies, streaming, redirects, cookies and httpx's
  authentication and hooks are left out. JSON bodies have no round-trip
  check and passthrough bodies are not validated, so the properties ask for the body
  only of types that read what they write (`Faithful`). A parameter that spells a
  more literal route is served by that route (`OwnRoute`).
- Client: guards against float overflow are left out.
- Health: a check that raises CancelledError ends the request without an answer
  (`health.py:154`); the model has it, `HealthAnswers` only asks for an end.
- ToolMcp: tools/list, which changes nothing, and protocol framing. A use case that
  swallows its cancellation goes on as if there were none, except that nobody reads
  the answer; that is left out. A tool whose transaction was committed may be dropped,
  or told "failed" or of an application error, if the rest of the way out is
  cancelled or raises (`tools.py:556`); `AnswersTell` claims nothing of those.
- AgentServer: the check operation, progress messages, redirection of standard
  output. Taking a snapshot, putting it back and importing a module are one step
  each, although another thread may come in between their statements. `_stop_process` returns early when the leader has just exited
  (`_checks.py:436`); `NoCommandSurvives` speaks of groups that were signalled.
- Generation: contents of files; `new`; the interpreter's import of a contract is
  one step that may fail.
- Verification: what a check finds is a function of the tree; digests have no
  collisions.
- Boundary: a document has one or two operations, tools, jobs or policies around
  one schema; `title` stands for all metadata, `extra` for every unknown keyword;
  malformed JSON, `allOf` and schemas with both properties and a schema for all others
  are left out. A new static path that takes over calls of a
  templated one (`server.py:485`) is additive for the gate and not modelled; an added
  evaluation case can raise an average (`evaluations.mdx:230`).
- taskboard: start-up (`ensure_schema`, `_ensure_wal`), where two processes migrate
  one file; a project's existence and its policy are preconditions or choices.

## 7. What comes next

1. taskboard's start-up: two processes, one file, journal modes and migrations.
2. The doctor and the application map, as pure operators over a project's imports.

The suite stays at some twelve runs and forty checked properties, so that all
of it is run on every change: a new component takes the place of the shallowest
properties here.
