# RedOps: a verification development

RedOps is an evaluation and red-teaming platform for language models: a FastAPI
backend (`src/backend/app`), Temporal workflows that execute long-running work,
a Postgres database, a Redis event bus, and a Next.js frontend.  This directory
holds TLA+ models of the parts of the backend whose correctness depends on
order, concurrency and failure, the TLC configurations that check them on small
instances, and proofs of the main invariants for every value of the constants.

Paths below are relative to `src/backend/app` unless they begin with `src/`.

## 1. The system and its parts

| Component | State it keeps | Operations | Talks to |
| --- | --- | --- | --- |
| Evaluation run aggregate (`evaluation/domain`, `evaluation/application/run_handlers.py`) | status, item counters, integrity fields, checkpoint of a run | create, queue, start, update progress, complete, fail, cancel, pause, resume, timeout, finalize | loaded and saved by every component that moves a run |
| Evaluation workflow (`evaluation/temporal`) | control point, completed/failed counts, cancel flag (in Temporal's history) | ten activities, cancel signal, progress query | activities change the run's row, item executions and metric rows |
| Evaluation API (`api/evaluation_run.py`, `core/dependencies.py`) | one transaction per request | create (with idempotency key), retry, cancel, read | the row, `start_workflow`, `signal` |
| Gate (`src/redops-gate`) | the run it watches | trigger, poll, exit with a verdict | the evaluation API |
| Definitions (`evaluation`, `agent`, experiments; their handlers, repositories and routers) | rows with a status, a unique name and a version | create, update, change status, archive, delete | runs refer to them |
| Provider runtime (`providers/runtime`) | per-provider breaker, limiter, the calls in flight | `execute`, manual reset | provider adapters; shared by all tasks of a process |
| Red-team campaign (`redteam`) | attack run, durable rounds, attack and metric results, mutation phase | run campaign, finalize, cancel | target provider, judge, Temporal |
| Agent runs (`agents`) | agent run, trajectory, cancel event | start, loop over model and tools, complete, fail, cancel | tools, providers, Temporal |
| Event bus (`infrastructure/event_bus`) | Redis streams, consumer groups, handlers, dead-letter list | publish, subscribe, unsubscribe, consume, redeliver, dead-letter | audit, webhook and notification subscribers |
| Pipeline orchestrator (`evaluation/orchestration`) | in-memory execution contexts and checkpoints | execute, pause, resume, cancel | stage executor |
| Identity (`identity`) | accounts, refresh, verification and reset tokens | register, login, refresh, logout, change and reset password, verify | database |
| Tenants (`tenant`) | memberships, invitations | create, invite, accept, revoke, change role, remove | database |
| Service registry and composition (`kernel/service_registry`, `infrastructure/composition`) | services and their dependencies, engine, clients, consumers | start and stop in order, subscribe handlers | everything |
| API keys, RBAC, scheduling, notification, audit, analytics, reports, projects | rows | CRUD | database |
| Metrics, judge, replay, regression, reliability, validation | none that outlives a call | numeric scoring | called by the activities |
| Frontend, CLI, deployment | none of the protocol's | calls the API | API |

Behaviours that are hard to get right here, and hard to reach with a test:

* several database sessions change one run row, each with its own load, change
  and merge, and no version column or `FOR UPDATE` orders them;
* the row is created in a request transaction that commits after the workflow
  has been started, so a worker can be faster than the commit;
* activities are retried: an attempt may have committed before its result was
  lost, and an attempt that missed its deadline still runs beside the next one;
* a cancel arrives at any point, as a row change and as a signal, and either of
  the two can be lost;
* tasks of one event loop share a breaker and a limiter and can be cancelled at
  each await, with a reserved probe slot or concurrency slot in hand;
* answers of a previous half-open episode arrive in a later one;
* a request is answered before its transaction commits, and what it read may have
  changed by then: tokens, owners, names, statuses, the runs of a key;
* the bus adds a new entry for every failing handler, never reads a pending entry
  again, and loses its task at any await;
* another thread, or a signal, cancels an agent loop in the middle of a batch of
  tool calls;
* a campaign's successor rebuilds from stored rounds what its predecessor kept in
  memory;
* thirty-one subscriptions are made beside the start of the services they need.

`PROJECT.json` lists the single hazards with the line where each bites and the
properties that would catch it; those no property covers carry a reason.

## 2. Modules

```
EvaluationRun            the aggregate's state machine and operations (no state)
  |-- RunAggregate               one run, one operation at a time (abstract spec)
  |     `-- RunAggregate_proofs        (used by Platform_proofs)
  |-- EvaluationWorkflow         request + workflow + attempts + cancels + row
  |     |-- MCEvaluationWorkflow       TLC instances
  |     `-- EvaluationWorkflow_proofs
  `-- Orchestrator               the same aggregate executed inside the process
CircuitBreaker           the breaker's operations (no state)
  `-- RuntimeCoordinator         execute() of several tasks, breaker and limiter
        `-- RuntimeCoordinator_proofs
RedTeamCampaign          one attack run: requests, workflow, attempts, durable rounds
  |-- MCRedTeamCampaign          TLC instance
  `-- RedTeam_proofs
CampaignLoop             the rounds of one campaign, its phases and their replay
EventBus                 one event type: stream, group, handlers, consumer task
  `-- EventBus_proofs            (used by Backend_proofs)
AgentRun                 one agent run: request, workflow, attempts, cancel requests
AgentLoop                the loop inside it: model, tools, trajectory
Identity                 one account and its tokens under concurrent requests
Tenant                   one organization under concurrent requests
Definitions              saved definitions of one kind under concurrent requests
RunRequests              gates, create_run and Temporal around one idempotency key
ServiceRegistry          start order, start_all and stop_all
  `-- Startup                    bootstrap, services, subscription task, shutdown
MCBackend                EventBus, AgentRun, AgentLoop, Orchestrator, EvaluationWorkflow
  `-- Backend_proofs
MCPlatform               RunAggregate, Definitions, ServiceRegistry, Startup,
                         Identity, Tenant, CampaignLoop, RunRequests, RuntimeCoordinator
  `-- Platform_proofs
Induction                induction and recursion over naturals, stated about sets
```

`MCBackend` and `MCPlatform` check several components in one run.  Components put
together there share no state, so their interleavings would teach nothing: the
variable `part` names the one that moves, and the others stay where they begin.
Components that do interact are composed in one module (`EvaluationWorkflow` on
`EvaluationRun`, `RuntimeCoordinator` on `CircuitBreaker`, `Startup` on
`ServiceRegistry` and on the consumers of the bus).

### EvaluationRun

Pure operators over a record of status, `items_total`, `items_completed`,
`items_failed` and one bit for the four integrity fields (verdict, trace data,
provenance, fingerprint), which the code always sets together.  `CanTransition`
is `RunStateMachine.transition`: its table, its three guards and the rule for
terminal statuses.  Each entity method is a pair, `CanStart`/`Start` and so on;
`Queue` has no `Can` because the entity swallows a refused queue transition.
`UpdateProgress` is the handler that turns cumulative totals into per-item
`record_item_success`/`record_item_failure` calls; it includes the clamp at
zero and the fact that a failure counts as a completion too.

### RunAggregate

The abstract specification: a single run, on which the commands of
`run_handlers.py` and the entity act one at a time, with arbitrary arguments up
to `MaxCount`.  It says what any correctly serialised use of the run may do.

### EvaluationWorkflow

One run from the request that creates it to its end.

| Variable | Code |
| --- | --- |
| `row` | the committed row of `evaluation_runs` |
| `api` | how far `create_run`/`retry_run` is: inserted, workflow started, committed, rolled back |
| `wf` | local variables of `EvaluationRunWorkflow.run`: the activity it awaits, item index, completed, failed, `_cancel_requested`, Temporal's attempt number |
| `proc`, `cur` | the activity attempts in the worker slots, and the one Temporal waits for |
| `cancels`, `lock` | each `cancel_run` request and the row lock its flushed UPDATE holds |
| `durable`, `metricRows` | `item_executions` and persisted metric results, by item id |
| `calls`, `faults` | provider calls per item, faults injected (bounded by `MaxFaults`) |
| `evidence`, `finalized` | history for the properties only; no guard reads them |

A transaction on the row is two steps, load-and-change and store, so that others
can commit in between.  A store is `Written`: SQLAlchemy's `merge` writes the
columns that differ from the row the merge itself read, which is either the
current row (the whole stale copy wins) or the one loaded before (only the
changed columns win); both are allowed.  `cancel_run` flushes before it signals
and commits after, so its UPDATE holds the row lock across the signal.

An item attempt is: look up the durable record, look up metric rows (only for
UUID ids), call the provider, write the durable record in a transaction of its
own, evaluate metrics, return.  Each is a step, and the worker may crash between
any two.  The upsert of the durable record is find-then-insert, so two attempts
may both insert: the second raises (`RecordConflict`).

`AfterActivity` and `AfterFailure` are the workflow function: a loop with a
cancel check at its head, the try/except around execute, persist and update
progress, finalization, then the terminal transition chosen by
`failed == total_items`.

Temporal is external and modelled from how the code configures it: at most
`MaxAttempts` attempts, a new attempt after an exception, a lost worker or a
missed start-to-close deadline, and no cancellation of late attempts.

### CircuitBreaker and RuntimeCoordinator

`CircuitBreaker` has one operator per method of `RuntimeCircuitBreaker`.  The
deque with a maximum length is `LatestOf`, `popleft` while the oldest time is too old is
`Since` (used by the limiter as well), pruning happens when a failure is recorded,
and every transition increments `generation` and drops reservations, as the code
does.  `RuntimeCoordinator` is `execute` for a set of tasks.  One action is the
code between two awaits: a task is at the provider (`invoking`) or in a retry
delay (`sleeping`), everything else is atomic on the event loop.  Each attempt
evaluates timeout, breaker and limiter in the order of the code; a denial by the
limiter gives a reserved probe back; success, retryable failure, non-retryable
failure and cancellation each treat the slots as their branch does.  Delays take
any time (a sleeper may wake at once), so back-off values play no part.

### RedTeamCampaign

One attack run.  `row` is the committed `attack_runs` row, `durable` the
`red_team_rounds` by number, `wf` the workflow and the attempt Temporal is at,
`proc` the attempts of `red_team_campaign_activity` in the worker slots, `req`
the API requests that start, cancel, complete or fail the run.  `overlapped`,
`reopened` and `unpersisted` are history for the properties.

An attempt loads the run's status, then the durable rounds, and replays them
(`Replayed`).  A terminal run is rebuilt from them or refused; any other one goes
through the loop: call the target, look for the round's row and write it, record
the round, stop early on a hit or after three errors, check the budget.  Then come the metric rows, the
finalization of the row (load and store, `Written` as above) and the result.
Exceptions split as in the code: those of the round and metric persistence leave
the activity and Temporal retries it, all others fail the run and return a result.
A cancelled workflow returns at once (`TRY_CANCEL`); its attempt goes on until it
is told.

A round is its number and one of three kinds: answered, answered at the
effectiveness threshold, or failed at the target.  An answered call uses the tokens
that the constant `CallTokens` gives for its round and kind, known only once it has
been answered (`redteam/domain/campaign.py:481`).  Every attempt starts its own clock, so the duration budget may be found
exhausted at any loop head (`EndLoop`).  BUDGET_EXHAUSTED is merged with COMPLETED; they
differ in the reported status only.  The legacy mode without `red_team_rounds` is
left out.

### CampaignLoop

What `AdaptiveCampaignEngine.run_campaign` does with its rounds.  A round is the
judge's verdict, the effectiveness in tenths and whether the target call failed.
`PhaseAfter` is `recommend_phase_transition`: the verdicts it counts are those of
the whole campaign, its trend is that of the last three rounds, and a level trend
counts as declining; so from the fifth round on the phase moves with nearly every
round, and the third phase, ADAPTIVE, is never reached.  `Replay` is the loop that
takes over the durable rounds, separate in the code from the one that records new
ones; `ResumeCampaign` is the next attempt.  A campaign that stops early on its
last round ends BUDGET_EXHAUSTED, and one resumed behind a round that met the
threshold goes on.

### EventBus

`RedisStreamsEventBus` for one event type and one process at a time.  `busLog` is
every entry ever added with its delivery count, `busPresent` those still in the
stream, `busGroup` and `busPending` the consumer group; `busTask`, `busBatch` and
`busNth` say which await the consumer task is at.  A failing handler makes the bus
add a copy of the entry, with its count raised, for all handlers, or dead-letter the
event at `max_delivery_count`; the entry is then acknowledged and deleted.  `StopBus`,
`CrashBus` and `Unsubscribe` may come at each await.  A Redis command that raises is
`RedisFails` while an entry is answered, acknowledged or deleted; a failing
`xgroup_create` is suppressed and never tried again (`BeginConsumer`), after which each
`xreadgroup` fails and nothing is read; any other failing `xreadgroup` is tried again
a second later and changes nothing.  `busKnown` says that the event type has a list
of handlers, be it an empty one, which `unsubscribe` of the last handler leaves behind
and for which `start` still begins a task; that task finds no handler and returns
(`"over"`).  The group is read
with `>` only and under a consumer name that no later process uses, so pending
entries are never read again.  An event that cannot be rebuilt is handed to the
handlers as raw fields and never dead-lettered; that is so for every event of the
program, since `event_type` is a property of each class (the docstring at
`infrastructure/composition/services.py:79` assumes the opposite), hence the
constant `Unreadable`.

### AgentRun and AgentLoop

`AgentRun` is the row and everyone who writes it: the creating request, which starts
the workflow before it queues the run and commits; `create_agent_run_activity`;
the workflow's activities, each a read and a later write in up to three attempts;
cancel requests.  An attempt that outlives its start-to-close timeout is replaced by the
next and goes on beside it (`agentLate`): its write, `merge` without lock or version
check, can take back a status it has never seen.  The loop activity commits the terminal status itself.
`AgentLoop` is that activity's inside: rounds of a model call and a batch of tool
calls, each tool begun after the previous one, the cancel event that another thread
sets, a tool or a provider that raises, arguments that do not parse, and the
trajectory recorder beside the loop's own counters.  `loopRecorded` and `loopTools`
choose whether a recorder and tools are there: production passes neither a recorder
nor a filled registry, tests do.

### Orchestrator

`execute_run` with its executor's stages and its finalization, and the pause, resume
and cancel commands that run between two of its awaits.  `orchShared` chooses
between a repository that hands every caller the same aggregate (the in-memory one)
and one that maps rows (copies without a checkpoint).  The plan has provider steps
only, and each stage after them goes through the items again.

### Identity and Tenant

Requests that read, and later commit what they read: `Begin`/`Accept` for the checks,
one `Commit...` for each operation, nothing locked between.  `Identity` has one
account; `idLogin` names the login a refresh token descends from.  `idEnded` (the
tokens that a completed logout or reset had read) and `idRaced` (per login, how often
a refresh or a logout found at its commit that the token it had read was no longer
the one) are history.  `Tenant` has one organization.  Its repositories save a
loaded entity with `session.add` of a new object with the same primary key: the
flush raises IntegrityError, the request rolls back, and role changes and
acceptances never persist (`SaveLoaded`); removals do.  No route of the program can
therefore make a second owner; `ImportMember` is the operator who inserts rows, of
any role.  `tenCrossed` is history: a removal committed although an owner it had
counted on was gone.

### Definitions

Evaluations, agents and experiments, by `defKind`: the entity's rules for each
operation, the repository's `merge` column by column, the database's unique name and
its foreign keys, and the commit behind the answer (`core/dependencies.py:64`;
dependencies with `yield` are exited after the response).  A creation of an evaluation
or agent is flushed, which finds a taken name, then answered, then committed
(`FlushRow`, `Commit`), an update or deletion answered before anything reaches the
database (`RespondFirst`); in both cases the commit may still fail and the answer
stands.  Experiments are committed by their repository before the answer.  `OrgIsProject` assumes a
projects row with the organization's id, which the program never makes: without it
no experiment can be created.

### ServiceRegistry and Startup

`ServiceRegistry` has Kahn's algorithm as placing one service after the other, and
start and stop with services that raise.  `Startup` runs it over the four services
the application registers, beside the task of `_subscribe` that nobody awaits, with
the consumers of the bus, events published meanwhile, and shutdown.  A
Temporal client that cannot connect ends the process without a stop (`aborted`).

### RunRequests

Several invocations of `redops_gate.py` with one idempotency key.  `requestAt` is how
far a request of `create_run` is: it looks the key up, inserts the run, starts the
workflow the key names, answers, commits.  Temporal refuses a workflow id while its
workflow is open and takes it again afterwards.  `gateAt` is the process and its
exit: a gate that hears nothing for thirty seconds, or polls a run that is not
committed, dies of an exception nobody catches, which a shell sees as exit
status 1, the status of a breached threshold.

## 3. What is checked

Every run is exhaustive.  Violations are runs of one property each.

| Run | Instance | Shows |
| --- | --- | --- |
| `workflow_concurrent` | 2 items, 2 attempts, 2 slots, 1 canceller, all fault kinds, 2 faults | properties that survive every interleaving |
| `workflow_serial` | 3 items, 3 attempts, 1 slot, no canceller, 4 faults | properties of runs whose transactions do not overlap, and the refinement |
| `red_team` | 3 rounds, 3 tokens of which a call uses 1 to 3, 2 attempts, 2 slots, 2 requests of any operation, all fault kinds, 1 fault | what resumed, redelivered, cancelled and twice started campaigns leave behind |
| `backend` | bus: 2 handlers, 2 events of which one is unreadable and one at most is published, batches of 2, delivery limit 2, 2 faults, 1 unsubscribe; agent run: 2 cancel requests, 2 faults; orchestrator: 3 items, 3 executions; loop: 4 steps, batches of 3; workflow: 2 items with one UUID, no `item_executions`, 3 attempts, 2 faults (database, metrics); fairness | redelivery, the agent workflow and its loop, the orchestrator, with faults and cancellation at every await; every evaluation run ends, metric rows replacing the durable record |
| `platform` | aggregate: counters to 3; definitions: 2 ids, 2 names, 2 requests at a time, 4 in all; registry: the application's graph and all graphs of three services, 2 faults; startup: 3 subscriptions of 2 event types, 2 events each; identity: 3 requests, 3 tokens, 1 reset; tenant: 2 users, 2 requests, 1 invitation; campaign: 6 rounds of 4 kinds, 1 crash; gate: 3 invocations; runtime: 3 calls, 1 retry, 1 probe, 2 concurrent, 3 per window, clock to 3 | what requests read and later commit, the life of the process, and the slots, window and threshold of a provider's runtime |
| `terminal_immutable` | 2 items, 1 canceller, no fault | finding 1 |
| `lifecycle_retry` | 1 crash of 3 attempts | finding 2 |
| `all_failed` | 3 database errors | finding 3 |
| `metric_retry` | 2 rounds, 1 slot, 1 request, 1 database error | finding 4 |
| `dead_letter` | 1 handler, 1 unreadable event, delivery limit 2 | finding 5 |
| `agent_run_executed` | no cancel request, no fault | finding 6 |
| `duplicate_key` | 2 invocations with one key | finding 7 |

### Properties that hold

* `FinalizedBeforeTerminal` (concurrent).  A row is COMPLETED or FAILED only
  after some finalize attempt committed.  It is the part of "never durably
  COMPLETED without its verdict" that survives stale merges; proved as well.
* `SuccessRestsOnRecord` (concurrent).  Every item the workflow counted as a
  success has a durable execution made by a call for an item of the same id, and
  there are no metric rows without a record.  Stalled attempts that write beside
  their successors are the hard case.
* `ProviderCallBound` (concurrent).  At most `maximum_attempts` calls per item.
  A crash between the provider's answer and the record causes a second call, so
  the bound one would like (one call) is false.
* `CancelStopsNewItems` (concurrent).  After the signal no further item starts,
  even when the current one is retried or fails.
* `OutcomeRecorded`, `ProgressNeverAhead` (serial).  The workflow's outcome is the
  row's, and the row's counters never exceed the workflow's however often an update
  is repeated.
* `NoCallAfterRecord` (serial).  Once an item is recorded, retries reuse
  the record (or its metric rows when `item_executions` does not exist).
* `ImplementsAggregate` (serial).  Every commit is one operation of
  `RunAggregate` on the latest row: the refinement mapping takes the row for the
  abstract run.
* `WorkflowRunEnds` (backend).  Under fairness and fewer faults than attempts the row
  reaches a terminal status and stays there.
* `ProbeSlotsExact`, `ConcurrencyExact` (platform).  The two counters are exactly the
  calls that hold a slot, on every way a call can end, stale episodes included.
* `RateWindowHeld` (platform).  Between the k-th invocation and the one
  `requests_per_minute` later more than the window passes.
* `OpensOnThreshold` (platform).  The circuit opens on the threshold of failures
  within the window, neither earlier nor later.
* `ProgressMonotone` (platform).  No sequence of the aggregate's commands takes
  progress back.
* `TerminalNotReexecuted` (red team).  An attempt that is delivered after the run
  has ended never reaches the target.
* `ResultMeansTerminal` (red team).  A workflow that returns its activity's
  result leaves a terminal row, whatever requests store beside it.
* `ResumeSkipsDurable` (red team).  A resumed campaign does not call the target
  for a round that is durable, as long as no failed round was skipped: failed rounds
  are not durable, so after one of them a retry numbers its rounds lower and
  overwrites durable ones.  The property names that exception (`NoGaps`).
* `ResultsHoldDurable` (red team).  Recorded results hold all durable rounds, also
  when a later attempt rebuilds them.  It depends on `maximum_attempts = 2`, the
  code's value: a third attempt would drop rounds that the second had added
  after an early stop.
* `BudgetHeld` (red team).  A campaign has at most `max_rounds` rounds, whoever resumed
  it.  Its tokens are *not* within `max_total_tokens`: the budget is checked before a
  call and charged after it (`redteam/domain/campaign.py:58` and `481`), so they stay
  below the budget and one call more, and that only while attempts do not overlap and
  the run is not started again.
* `CountedOnce` (red team).  The rounds are counted in the row once, however often
  finalization is repeated.
* `ReplayRebuildsCampaign` (platform).  As long as no target call has failed, an
  attempt that takes over has the campaign its predecessor died in: the rounds in
  order, and the phase the next strategy is chosen in, which is stored nowhere.
* `RemovedIsAccounted` (backend).  An event that has left the stream has reached every
  handler, is dead-lettered, or could not be rebuilt and was read as often as the limit
  allows.  Every event of the program is of the last kind; that such an event is not
  dead-lettered is finding 5.
* `CopiesBounded` (backend).  An event is published once, no copy carries the maximal
  count, and there are at most |Handlers| times as many copies with count k + 1 as with
  k.  `StreamDrains`: while its task lives and the consumer group exists, a consumer
  comes to the end of the stream, its own copies included.  Without the group it reads
  nothing for good, which the model contains and the property excludes by name.
* `FailureReportNeedsStaleWrite`, `ExecutionsBounded` (backend).  The workflow returns
  the status `failed` only after a late attempt has written over a status it had not
  read, since the loop activity has committed FAILED before `fail_agent_run_activity`
  tries to; and the agent loop runs at most twice, in late attempts as well.
* `CancelHeeded`, `TrajectoryAgrees`, `LoopEnds` (backend).  After the cancel event
  at most one more tool is begun and the model is not asked; the trajectory of a run
  that did not fail agrees with the loop's counts, status and messages; the loop ends
  whatever the model asks for, provided that tools return.
* `CompletedMeansAnswered` (backend).  A run is COMPLETED by its first execution
  only, with an answer for each item, whatever is paused, cancelled or resumed.  It
  does not speak of a forced cancel that finalization overwrites.
* `StartOrderSound`, `ConsumersMatchSubscriptions` (platform).  The registry refuses
  exactly the cyclic graphs and keeps dependency order in both directions although
  services raise; consumers exist for what is subscribed, neither before the bus is
  started nor after it is stopped, and only while the engine is there.  It does not
  promise that a handler sees the events read before it subscribed.
* `StrayMovesAreStale` (platform).  A definition moves as its entity allows unless the
  request that writes it had loaded something else: only staleness takes an archived row
  back to draft, or inserts a deleted one again.
* `OneSessionPerLogin` (platform).  Rotation leaves one valid refresh token per login,
  and a logout or password reset that found one leaves none; every further one comes
  from a race of two requests that read the same token.  So a session survives a logout
  only where a refresh was in progress, and then it does.
* `OwnerLostOnlyToCrossing` (platform).  With any number of owners, an organization
  loses the last one only to removals that cross, each having counted on an owner that
  was gone when it committed.  Two such removals do leave none.
* `DuplicatesOnlyInWindow` (platform).  Of two runs that share an idempotency key one was
  scheduled by a request that had looked the key up before the other was committed
  and after the other's workflow had closed: the only window in which the key fails
  to prevent a duplicate (finding 7).  A gate sends no items, so its workflow may well be
  that short; once two rows share the key, `scalar_one_or_none` raises for every later
  request with it.

The red-team properties exclude, where they say so, attempts that overlap and runs
that a second start request has reopened; the model contains both.

Every property has a mutant in `PROJECT.json`: a definition changed as a
plausible slip would change it (`Mut_...`), under which TLC finds the property
violated in the same run.

### Bounds, and why they are enough

* Two items and two attempts let an item be retried, exhausted, cancelled before
  and after, and share its state with the next item; three items in the serial
  run add a middle item and let two of them fail.  The loop treats items alike.
* Two slots hold one late attempt beside its successor.  A third slot would add
  late attempts of the same kind; `MaxFaults = 2` spends at most two stalls.
* Two faults exhaust a two-attempt activity.  In the serial run four faults
  exhaust one activity and still disturb another; in the workflow part of `backend` two
  faults against three attempts are the most under which the code promises to end.
* One canceller is enough to overlap any transaction; a second would only
  contend for the same row lock.
* `MaxCount = 3` lets counters start below, at and above a total.
* In the red-team run one fault separates two attempts; with two faults the model
  with a single start request was explored as well, without an error, but takes
  too long to be kept.  Three rounds let a
  failed round lie before, between and after durable ones; with three the stop
  after three errors coincides with the end of the round budget.  Two requests suffice for start against
  cancel, complete, fail or another start.
* Calls cost 1 or 2 tokens by their round, and 3 when they meet the threshold, against a
  budget of 3: a campaign ends below its budget, on it, or above it.
* The clock's bound of 3 is above every period used (timeout 2, window 1,
  recovery 1), so each can begin, end and begin again.  `MaxGeneration` only
  stops manual resets; transitions of the breaker itself are bounded by the
  number of attempts.
* Bus: two handlers make "one succeeded, one failed" possible, one event and its
  copies fill two batches; a delivery limit of 3 with one fault was explored as well
  (1.27 million states of the bus), without an error, and takes too long to be kept.
* Agent loop: four steps and batches of three let a batch overrun the step limit.
  Three orchestrator executions are the first, one resumed beside it and one more.
* Definitions: two requests overlap; four in all create, change, delete and create
  again.  Three tokens are a login, a rotation and a race, or two logins; of three
  requests two race and a third, a logout or reset, meets them.  Two users
  are the fewest that can both be owners, so that two removals cross.
* Campaign: phases first move at the fifth round and back at the sixth.  One crash:
  what a successor rebuilds depends on the stored rounds alone, not on how many
  attempts wrote them (two were explored as well).
* Three gates: two to make a duplicate, a third to meet it.
* `CHECK_DEADLOCK FALSE` in `backend` and `platform`: loops end, processes exit,
  requests and faults run out.  The other runs check deadlock.
* Symmetry is used on worker slots, API requests and the runtime's calls (whose model
  values are the gates and the identity's requests as well), which the specifications
  do not tell apart, and only in runs without liveness.

### Fairness

Fairness is assumed in `backend` only, of one part at a time.  The workflow: weak
fairness on the creating request (asyncio runs a started
handler to its end), on each slot's attempt (Temporal workers poll without pause and
Temporal dispatches what is scheduled), and on cancel requests.  No fault, abort or
crash is ever owed.  Weak fairness suffices because a step of an attempt stays
enabled until it is taken: only a lock could disable it, and no canceller takes part
there.

The bus and the agent loop: weak fairness on the consumer task's steps (asyncio resumes
a task whose await has returned; handlers and Redis commands return or raise) and on the
agent loop's steps.  Provider calls time out.  That tools return is an assumption about
the tools: the code gives each a timeout but does not enforce it.  Stops, crashes, failing
commands and cancellation are not owed.

### Findings

1. `terminal_immutable`.  A cancel request that loaded the row while RUNNING
   merges CANCELLED over COMPLETED (and the reverse): `save` merges without lock
   or version check.  `src/docs/evaluation/STATE_MACHINE.md:121` says terminal states
   are immutable.
2. `lifecycle_retry`.  `start_run_activity` commits, its result is lost, the
   retry loads a RUNNING row and `start` is refused until attempts run out; the
   workflow fails and leaves the row RUNNING.  The comment at
   `evaluation/temporal/workflow.py:197` calls these activities idempotent.
3. `all_failed`.  The except block counts an item again that the try block had
   already counted, `failed` passes `total_items`, and the equality test at line
   401 completes a run without a single success.
   `src/docs/evaluation/FAILURE_HANDLING.md:106` says it is FAILED.
4. `metric_retry`.  A campaign stops early, persisting its metrics fails, and the
   retry replays the rounds up to the early stop and then enters the loop all the
   same: it calls the target again.  The comment at
   `redteam/temporal/activities.py:891` says the retry re-persists without
   re-invoking any provider.
5. `dead_letter`.  `_process_entry` dead-letters an event only if it could be rebuilt,
   and `deserialize` rebuilds none of the program's: at the delivery limit the entry is
   deleted and the event is nowhere.  `infrastructure/event_bus/dead_letter.py:3` says
   that events beyond the limit are moved to a dead-letter stream (so does
   `redis_event_bus.py:39`), and `infrastructure/composition/services.py:82` that the
   serializer can deserialize the events of the program.
6. `agent_run_executed`.  `create_agent_run` starts the workflow and queues the run before
   it commits; the workflow's first activity finds no row or a QUEUED one, which `queue`
   refuses, and the workflow ends in an error.  `agents/api/router.py:131` says the run's
   execution is scheduled.  `ApiRunsNeverExecute` proves that it never takes place.
7. `duplicate_key`.  Two requests look a key up before either commits; the workflow of the
   first closes before the second starts its own.  `api/evaluation_run.py:197` says that
   a repeated key returns the earlier run instead of scheduling a duplicate.

Passing runs show three disagreements by the exception their property names:

* `FailureReportNeedsStaleWrite`: the workflow of an agent run announces FAILED as an
  outcome (`agents/temporal/workflow.py:3`, the branch at `151`), which it reaches by a
  stale write only; otherwise it ends in an error.
* `OneSessionPerLogin`: "logout and revoke all refresh tokens"
  (`identity/api/router.py:164`) does not hold beside a refresh.
* `OwnerLostOnlyToCrossing`: "an organization must keep at least one active owner"
  (`tenant/services/tenant_service.py:224`) does not hold when two owners are removed
  at once.

Met while modelling and not kept as runs.  Some disagree with a text of the
repository, but in a way that needs no exploration of states:

* Event handlers are subscribed in a task nobody awaits;
  `infrastructure/composition/services.py:190` says they are registered before the
  bus starts consuming.  `ConsumersMatchSubscriptions` says what holds of the consumers
  instead; events read and deleted before a handler is in the list are missed by it,
  which no property speaks of.
* `retry_run` passes `items_total` of the aggregate it has just constructed, zero: the
  retried run executes nothing and, as `failed == total_items` reads 0 == 0, is *failed*;
  `api/evaluation_run.py:380` says the inputs of the run are reproduced.
* Nothing calls `TemporalWorkerLifecycle.initialize`
  (`infrastructure/temporal/lifecycle.py:52`), so `start` finds no worker and none
  polls; `src/docs/DEPLOYMENT.md:135` says the worker runs inside the API's process.  The
  models of workflows assume a worker that does poll, since the activities were
  written for one.
* `update` of an evaluation merges a stale entity over a row archived meanwhile,
  a status `evaluation/domain/enums/evaluation_enums.py:70` calls terminal; `_to_domain`
  drops `version` and no query compares it, against
  `kernel/entities/base.py:77`.
* `create_experiment` passes the organization's id as `project_id`
  (`api/experiment.py:126`); the foreign key fails and the request is told of a
  conflict.
* The trajectory of a failed tool holds an empty result (`agent_loop.py:255`), the
  model is told the error; `agents/domain/trajectory.py:168` calls it a record of what
  actually happened.

Others are consequences of the findings or contradict nothing that is written:

* Evaluation: a stale cancel can erase integrity fields of a finalized row; a
  non-forced cancel whose signal comes after the last loop head can leave the row
  CANCELLING; a provider is called again after a crash before the durable record;
  over-counted items take progress above 100 %.
* Provider runtime: `success_threshold` counts successes of calls admitted while
  CLOSED.
* Red team: a second start request that loaded the attack run in time writes RUNNING
  over a status reached meanwhile, or finds the workflow id taken and fails the
  running run; an engine error returns a "failed" result while the row becomes
  COMPLETED; two failed attempts leave the attack run RUNNING.
* Agents: `execute_sync` starts an event loop inside the running one; the
  cancel monitor asks for the cancellation of an activity from a thread outside the
  activity's context; timeouts of tools are not enforced; `all_tool_calls` counts
  each call twice; the history sent to the provider has lost its tool calls.
* Orchestrator: a resume is always refused, since nothing makes a checkpoint; a
  refused `complete` leaves the run RUNNING.
* Repositories of tenants, identities, API keys and schedules save a loaded entity by
  adding it again, and the update fails; several columns are lost between load and
  save (an agent run's priority and failure reason, an attack run's timestamps, an
  evaluation run's failure reason).
* Startup: a Temporal client that cannot connect ends the lifespan without
  `bootstrap.stop()`.
* Gate: every `--threshold` is refused as a usage error, since `_parse_thresholds`
  gets one string and goes through its characters; it asks for
  `/runs/{id}/metrics`, which the API does not have, so its scores are empty; it
  sends no items; TIMEDOUT is not one of its terminal statuses; a retry with the key
  of a failed run is answered with that run.

## 4. What is proved

Every proof is checked by TLAPS to its leaves.  Every safety property of a passing
run, invariant or action property, and the refinement, is a theorem; only liveness
rests on TLC alone.  The proofs assume the named assumptions on constants, which TLC
evaluates in the runs, and the three hypotheses listed below, which theorems that
need them state.  The proofs follow one scheme: the property is not inductive, an
invariant with named parts is, each action keeps each part it can disturb (a lemma
per action), and the property follows from the invariant.

| Module | Proved, for every value of the constants | Inductive invariant |
| --- | --- | --- |
| `RunAggregate_proofs` | `AggregateTyped`, `TerminalKept`, `ProgressGrows`, `CompletedWhenAllItems` | types; the rest are action properties that follow from `StepKeeps` and `UpdateProgressGrows` |
| `EvaluationWorkflow_proofs`, concurrent system | `TypeCorrect`, `FinalizedFirst`, `SuccessIsDurable`, `CallsBounded`, `CancelHeededByLoop` | `IInv`, with `RecordOK` and `CallsOK` |
| the same, one transaction at a time | `ProgressBehind`, `OutcomeInRow`, `RecordedNotCalled`, `WorkflowImplementsAggregate` | `IInv /\ SInv` |
| `RuntimeCoordinator_proofs` | `ProbeSlotsAccounted`, `ProbesLimited`, `StaleIgnored`, `ConcurrencyAccounted`, `RateHeld`, `ThresholdOpens` | `SlotsInv`, `ConcInv`, `RateInv`, `OpenInv` |
| `RedTeam_proofs` | `TerminalNotReexecutedTheorem`, `ResultMeansTerminalTheorem`, `CountedOnceTheorem` | `Ledger` |
| the same, at most two attempts | `BudgetHeldTheorem`, `ResultsHoldDurableTheorem`, `ResumeSkipsDurableTheorem` | `Campaign` |
| `EventBus_proofs` | `BusTyped`, `RemovalAccounted`, `CopiesStayBounded` | `BusInv`, `Generations` |
| `Backend_proofs` | `BackendTyped`, `AgentTyped`, `FailureNeedsStaleWrite`, `ExecutionsStayBounded`, `ApiRunsNeverExecute`, `CompletionAnswered`, `CancellationHeeded`, `TrajectoryFollows` | `AgentInv`, `OrchInv`, `LoopInv` |
| `Platform_proofs` | `PlatformTyped`, `SessionsBounded`, `TenantOwnerKept`, `DuplicatesNeedWindow`, `StartOrderHeld`, `ConsumersFollowBus`, `ReplayRebuilds`, `StrayMovesAreStaleTheorem` | `IdInv`, `TenantInv`, `GateInv`, `RegInv`, `StartupInv`, `CampInv`, `DefInv` |
| `Induction` | lemmas the others use | |

`TerminalKept` and `CompletedWhenAllItems` (the aggregate never leaves a terminal
status, and completes only with all items counted), `ProbesLimited` and
`StaleIgnored` (no more probes than the limit; an answer of an earlier episode
changes nothing of the present one) are proved and need no run beside the proof.
`ApiRunsNeverExecute` is the general fact behind finding 6.

### Hypotheses of single theorems

* `OneAtATime`, no canceller and no `stall` among the faults, for the serial
  properties.  They are claims about runs whose transactions do not overlap: with
  overlap they are false, which `terminal_immutable` shows.  Crashes, lost results and
  failing databases remain, as do any number of items, attempts and faults.
* `MaxAttempts <= 2`, for what a resumed red-team campaign knows.  The code's retry
  policy has `maximum_attempts=2` (`redteam/temporal/workflow.py:57`), and
  `ResultsHoldDurable` is false with three: after an early stop the second attempt
  stores rounds that the third one's replay does not reach.  The theorems of the first
  line have no such bound.
* `BusNeedsDatabase`, for the consumers: the graph of the process makes the bus
  depend on the database, as `infrastructure/composition/services.py` registers them.
  Without that edge the engine could be disposed of first.

### The arguments

* `EvaluationWorkflow`, concurrent.  `FinalizedBeforeTerminal` is not inductive: a
  copy of the run in an attempt or a cancel request may carry a terminal status into
  the row much later.  `IInv` adds: the attempt in the awaited slot belongs to the
  activity the workflow is at (`CurrentOK`); and once any copy, the row or the
  workflow's control point has reached the terminal transition, a finalize has
  committed (`FinalizedOK`).  `NextAttemptKeeps`, `LateAttemptKeeps`, `RaiseKeeps` and
  `ReturnKeeps` treat the end of an attempt once for all actions.  For
  `SuccessRestsOnRecord`, `RecordOK` says that a record is of its item's id, that
  metric rows have records, and that what each attempt has in hand is recorded or is
  the result of its own call (`AttemptRests`).  For `ProviderCallBound`, calls made and
  calls still to come (`Pending`, the attempts that have not called yet) are at most the
  attempts scheduled so far (`Due`): a step adds no pending attempt (`Fewer`), adds one
  with an attempt (`OneMore`), or turns one into a call (`OneSpent`).
* `EvaluationWorkflow`, one transaction at a time.  `SInv`: only the awaited slot works
  (`Alone`), what it loaded is the row with its operation applied (`CopyOK`), the row's
  counters are totals the workflow once had, and an item counts at most twice
  (`CountersOK`, `TotalsOK`), a stored terminal transition is the one the workflow
  returns (`OutcomeOK`), and an attempt that found no record is right (`LookedOK`).
  With it every store is one operation of `RunAggregate` on the latest row
  (`StoreIsOperation`) and every other step a stutter.
* `RuntimeCoordinator`.  `SlotsInv` relates `inFlight` to the calls whose ticket is
  the current generation, and says that no ticket is newer than it; each operation of
  the breaker has a lemma on these accounts.  `ConcInv` does it for the limiter's slots.
  The two windows are proved to be suffixes of the history behind them (`Suffix`) in
  which everything forgotten is too old: `SinceDrops` says it of the `popleft` loop,
  `SuffixAgain`, `SuffixGrows` and `LaterSuffix` that pruning, recording and the passing
  of time keep it.  For the breaker the failures that count are then the last ones
  (`RecentAreLast`), so the deque's maximal length never hides one.
* `EventBus`.  What has left the stream must be accounted for although handlers are
  removed and tasks lost in between.  `BusInv` says that what lies behind the group's
  position is in the stream (`StreamShape`), that a busy task has an entry and how far
  in the list of handlers it has come (`TaskShape`), and that for the handlers called
  so far the entry's event is settled: handled, dead-lettered, exhausted, or copied
  to an entry that is present (`CalledSettled`).  The bound on copies is by generation:
  the copies with count k + 1 are at most |Handlers| times those with count k that have
  been handled, less what the entry at hand may still breed (`Generations`);
  a handler is in the list once, and an entry in the batch once (`ListsOnce`).
* `RedTeamCampaign`.  `Shape` is types and control.  `Ledger` adds that a terminal
  status once seen is still there unless the run was reopened (`Settled`), that
  attempts follow one another unless one outlives its deadline (`Unique`), and that
  whoever is about to raise the row's counters holds a copy that has not been counted,
  while the row has not either (`Counted`).  `Campaign` adds what connects an attempt's
  rounds with the durable ones: in the first attempt they agree number by number
  (`FirstAttempt`), its successor starts from a store in which nothing follows a hit,
  holds all of it, and is ahead of a durable round only beyond a gap (`Resumed`); and
  results, once given to anyone, hold every durable round (`GivenHolds`).  Tokens are a
  sum over rounds, given by a function of the number of rounds (`AddsUp`); an attempt
  calls only while its sum is below the budget, and what its successor replays is what
  was durable, so that one call more is all the sum can reach (`WithinReach`).
* `AgentRun`.  A run the API creates is QUEUED when it is first visible, and the
  workflow's first activity takes a CREATED one only, in late attempts as well
  (`OriginDecides`); what an attempt, awaited or late, has read is a status its activity
  may change (`ReadsLegal`); while no stale write has happened, a run that is about to be
  reported failed can still be cancelled and nothing else (`FailedStays`); an attempt in
  progress is one the retry policy allows (`CopyHeld`), and executions of the loop, with
  those that late attempts may still begin, are no more than its attempts (`RunsCounted`).
* `AgentLoop`.  The one call that begins late is a tool, after which the loop ends
  (`LateOnce`); the recorder is behind the loop by the tool that runs, and what it
  knows of a status it was told at the end (`Followed`).
* `Orchestrator`.  A resumed execution is refused its start, since the run has left
  QUEUED for good by then (`ResumedRefused`, `QueuedFirst`); what the first execution
  counts is what it was answered, once per item (`AnswersCounted`), and the run it
  completes is of the size of the plan (`SizeKept`).
* `Identity`.  An issued token descends from an issued login (`LoginRoots`), requests
  have read issued tokens only (`ReadsIssued`), and what a logout or reset had read is
  revoked (`EndedRevoked`).  A request that commits leaves a login one valid token more
  than it is owed only if the token it had read was revoked meanwhile, which `idRaced`
  counts; a logout that finds the token it had read revoked has missed its successor.
* `Tenant`.  There are no members before the creation (`NoneBefore`); no saved
  invitation is ever accepted (`NeverAccepted`); a request that is about to remove an
  owner has seen another one (`RemovesOthers`), so that its commit either leaves an owner
  or crosses the removal of all those it had seen.
* `RunRequests`.  Of two requests that started the key's workflow, one saw the other's
  closed (`OneAtATime`), as Temporal refuses the id otherwise; a request that found a
  run schedules none (`FindersRefused`).
* `ServiceRegistry`.  Each turn of the search keeps: a service is in the order or the
  queue, once, exactly if its dependencies are in the order, and they stand before it
  (`Sound`).  That the search which runs dry early has met a cycle is an induction over
  the turns; `RegInv` says how far start and stop have come (`Through`).
* `Startup`.  Subscriptions only grow (`ListsGrow`), the bus runs from its start to its
  stop and the engine around it (`BusRuns`, `EngineRuns`), and consumers exist for the
  lists exactly while the bus runs (`ConsumersRun`).
* `CampaignLoop`.  A campaign whose rounds were all stored, none but the last at the
  threshold, is what the durable rounds rebuild (`Stored`, `StoredIsRebuilt`), and so is
  the one about to record a round that has been executed (`ExecutedIsStored`).
* `Definitions`.  A request that is about to write holds what its operation makes of the
  row it has seen, and was allowed on it (`RequestHeld`, `Made`); a row that is being
  created is nobody else's yet (`CreatedAlone`); and a row still in its first version is
  what requests have read of it, so that a column a merge leaves alone has the value
  they saw (`FirstVersionsSeen`).

Three model definitions that were `RECURSIVE` operators or filters of sequences are
recursive functions or choices (`Replayed`, `Placing`, `Since`), since the provers at hand
reason about those.  `Induction` states induction over an interval as a fact about a
*set* of numbers, and recursion as one about a function with a given step: the
library's theorems take operators as parameters, which cannot be instantiated here.
With them, what the registry's search and the two campaigns' replays compute is proved
for every input.

Only model-checked:

* liveness (`WorkflowRunEnds`, `StreamDrains`, `LoopEnds`): liveness under fairness is out of
  the prover's reach;
* the violations, which are counterexamples and need no proof.

## 5. What is not modelled, and why

* Inside the modelled components: listing and read endpoints, ownership checks,
  traces, token and cost sums, dataset entities, domain events, token-bucket
  policies, telemetry and middleware, the legacy mode of campaigns, publish failures
  and replay of dead letters, the retry request of agent runs, OAuth, and the
  workflow's execution timeout, which leaves the row as it is (in `RunRequests` it is
  one of the ways `FlowDies`).
* The fallback chain, evaluation profiles, API keys, RBAC, scheduling, notification
  and audit: single rows, or a short walk over a list within one task.
* Pure numeric or textual code (metrics, judge, mutation operators, validation,
  reliability and regression scores, cost, tokenization, streaming parsers), wire
  formats, HTTP clients, the remaining CRUD, the CLI and the frontend, deployment,
  scripts and migrations: no order of steps matters in them, and most of the lines of
  the repository are there.

## 6. Plan

1. Red-team campaign: liveness under fairness of the workers (a started campaign
   settles); an abstract specification of a campaign as a growing sequence of rounds,
   implemented by `RedTeamCampaign` and `CampaignLoop`, with the refinement proved.
2. Proofs: an abstract session store and an abstract key table that `Identity` and
   `RunRequests` implement; bounds on how often the target and a handler are called.
3. Fallback chain as pure operators (`record_failure` past the last provider raises
   IndexError), the retry request of agent runs, evaluation profiles, replay of dead
   letters.
4. Regression, reliability and replay services as pure functions checked against
   reference definitions, where their arithmetic has boundaries.
