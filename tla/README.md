# Verification of FaNest

FaNest is an application framework in the manner of NestJS on top of FastAPI:
modules, dependency injection, life-cycle hooks, gateways, queues, scheduled
jobs. Everything runs on one asyncio event loop, so code is atomic between two
`await`s and everything that goes wrong goes wrong at one. The specifications
in this directory model the parts whose behaviour depends on what happens
there, and the algorithms the rest relies on: TLC checks them on small
instances, and TLAPS proves most of their safety properties for all instances.
`PROJECT.json` lists the runs, the theorems and, for every definition, the lines of
`src/` it stands for.

To run: `tlc -workers 2 -config <Name>.cfg <Module>`, with module and
configuration of a run in `PROJECT.json`, and `tlapm <Module>_proofs.tla`.

## Contents

1. The system
2. The modules
3. What is checked
4. What is proved
5. Where the code departs from its documents
6. What is not modelled
7. Plan

## 1. The system

About 26 000 lines of Python in 102 files under `src/src/fanest`, 21 000 lines
of tests. The parts, the state each keeps, what is done with it, and what makes
it correct:

| Part | State | Operations | What makes it correct |
|---|---|---|---|
| `queues` | books `_active`, `_delayed`, `_completed`, `_failed`, `_dead_letter`, `_attempts`; a backend's records; background tasks | `add`, delayed dispatch, handlers with attempts and back-off, `retry_failed`, `clean`, `clear`, `close`, `wait_until_idle` | a job is in one book; books and backend agree; a record is the latest one written, whatever process reads it; a job only goes forward; waiting ends |
| `core/container` | singletons, request caches, tokens in progress (per context), scope and dependency caches | `resolve`, `resolve_async`, `override`, lookup through imports, exports, global modules | one singleton; one instance per request and none of another request; only real cycles are errors; scopes are what the provider graph says |
| `core/scanner`, `lazy_loader` | module records, the container's tables | scan, `load` after start | what the scan accepts can be injected; a later module disturbs nobody |
| `core/factory`, `application` | instances kept, listeners and handlers, the schedule runner, `shutdown_state`, signal handlers | bootstrap, serve, shut down (from the lifespan or a signal), start again; `init` and `close` of a context | providers start after what they rely on; every listener hears; hooks in the documented order, once each; one shutdown |
| `schedule` | definitions, a registry of loops, `tasks`, runs | `start`, ticks, `pause_job`, `resume_job`, `cancel_job`, registry `cancel` and `delete`, `stop` | one loop per job; ticks on the grid; no overlap when asked; nothing after `stop` |
| `websockets`, gateway endpoint | connections, rooms by name and by socket, namespaces by name and by socket | connect, join, leave, broadcast, disconnect, message handlers, hooks, acknowledgements | the two views agree; a room lies within its namespace; a socket that has gone is forgotten; the gateway answers a frame once |
| request pipeline, routes | request context, enhancers, route tables | registration and sorting, versions, hosts; middleware, guards, interceptors, pipes, handler, filters, stream | the most specific route serves; order; an error is filtered once; a request's scope covers its stream and ends |
| `cache` | entries with expiry | interceptor, `@CacheEvict` | no stale entry after eviction |
| `throttler` | hit times per key | guard over a memory or Redis store | at most `limit` hits in any window |
| `session` | a dictionary per id in a store; cookie | load, handler, save or destroy | sequential requests see each other's changes |
| `auth` | claims, rules, expiry | guards in a chain | the handler runs only if every guard's rule holds |
| `upload` | files of a request, the directory | select, limit, filter, store | what is stored is what was sent |
| `events` | listeners, `once` listeners, captured errors | `on`, `once`, `off`, `remove_all_listeners`, `emit`, `emit_async`, `emit_strict`, `clear_errors` | listeners in order; `once` once; errors reach the emit that caused them |
| `cqrs` | handlers, an aggregate's uncommitted events, sagas | `execute`, `publish`, `apply`, `commit` | every event published, and once |
| `microservices` | pending requests by id, connections, stream positions | request and reply, events, over memory, TCP, NATS, Redis, RabbitMQ, Kafka | a reply goes to its request; no message passed over; calls end |
| `workers` | semaphore, active tasks, futures | `run`, `run_background`, `shutdown` | the limit holds; `shutdown` leaves none; nobody waits for a permit for ever |
| `graphql` | selections, errors, subscriptions; a data loader's keys, batches and cache | `execute`, `subscribe`; `load`, `clear`, `prime` | every field answered; payloads in order; each load answered, none from before a `clear` |
| `sqlalchemy`, `mongodb` | ambient session, advisory lock, pool | transactions, nested use, `create_all` | commit or roll back as a whole; mutual exclusion without starvation |
| `http` | attempts of a call, open client | request, retry, interceptors, close | what must not be repeated is sent once |
| `inertia` | flash data in the session, asset version | page visits, partial reloads, redirects, forced reloads | errors shown once, a submission handled once, the props asked for |
| `health`, `metrics`, `swagger`, `security`, `config`, `i18n`, `mailer`, `logger`, `testing`, `cli`, pipes, serialisation | little or none that is shared | | |

How they interact:

- `FaNestFactory` scans modules into a `FaNestContainer`, which resolves the
  providers; the factory's lifespan calls their hooks, registers their listeners
  and handlers, starts the `ScheduleRunner`, and on the way out closes
  microservices, stops the runner and calls the shutdown hooks in reverse.
  Signals come in from outside and end in the same `shutdown_once`.
- A request resolves request-scoped providers in a context of its own, copied by
  the tasks it spawns, and passes session, throttler, cache and guards on its
  way to the handler: three stores that are read before it and written after it.
- The adapter runs each WebSocket in a coroutine that resolves guards, calls
  the gateway's hooks and handlers, and keeps the `WebSocketManager` up to date;
  handlers and services broadcast through the manager from other tasks.
- Queue and event handlers, sagas, workers and scheduled jobs are provider
  methods that run in tasks of their own and may call any of these services again.
- Queues, microservices, throttler and `create_all` meet other processes through
  a broker or a database.

What is hard about it is therefore: what other tasks do during an `await`
(a handler, a hook, a send, a factory, a `gather`); cancellation delivered at an
`await`; lists and flags read before and used after one; errors that leave a
multi-step operation in the middle; the clock after a stall; replies that come
after a time-out; caches kept while what they were computed from changes; and,
between processes, commands that interleave and a process that dies between two.
The hazards in `PROJECT.json` name the lines. There are no threads.

## 2. The modules

| Module | Models | Atomic step |
|---|---|---|
| `JobQueue` | `QueueService` over `MemoryQueueBackend` | what a task does between two suspensions |
| `JobLifecycle` | the abstract specification of one job: the states introspection reports, two it cannot tell, and the moves between them | one job's move, `clean()`, `clear()` or `close()` |
| `QueueBackends` | records of the memory and the Redis stream backend, written by one or several processes | a backend call; in Redis, one command of `remove()` and `clear()`; a crash |
| `Container` | `resolve()` and `resolve_async()` by several tasks | one event of the recursion; only awaiting an async factory gives the loop back |
| `ProviderScope` | `_locate_provider`, `_effective_scope` and their caches | a query, or an override |
| `Scanner` | the scan of a module graph: records, visibility, refusals | (operators only) |
| `Bootstrap` | from a scanned graph to running providers; restarts; lazy modules | a module scanned, a provider started, an event emitted |
| `Hooks` | order of the hooks of `_bootstrap_instances` and `_shutdown_instances` | (operators only) |
| `Lifecycle` | the lifespan of an HTTP application and signals | a hook, a resolution, a signal |
| `ApplicationContext` | `FaNestApplicationContext`, shared by several callers | a hook, a call |
| `Scheduler` | `ScheduleRunner`, `SchedulerRegistry` | a tick, a call, the end of a task, time passing |
| `WebSocketGateway` | `WebSocketManager` and the endpoint `_register_gateway` makes | what a coroutine does between two suspensions |
| `GatewayMessages` | the endpoint's message loop: frames, handlers, acknowledgements | a frame, a send |
| `Routes` | registration, sorting and matching of routes | a controller registered, a request matched |
| `Requests` | an HTTP request from middleware to the end of its stream | one component of the pipeline |
| `Stores`, `Throttler` | what requests keep for later ones, over one clock: cache entries and sessions; the hits of the throttler | part of a step of `Requests` |
| `Authorization` | tokens and the chain of guards, over a clock | a guard |
| `Upload` | file interceptors of concurrent requests | the checks, or one file |
| `Inertia` | visits of a browser, middlewares, flash data, deployments | a request, its answer |
| `HttpClient` | a call of `HttpService`, its retries and interceptors | a transmission, an answer |
| `Events` | `EventEmitter` | a listener's call, a call by it, the end of a task |
| `Cqrs` | aggregate, publisher, event bus, sagas and their commands | what happens between two awaits of `publish()` |
| `Microservices` | clients and a server over six transports | a message sent, delivered or lost, a handler's end, a time-out |
| `Workers` | `WorkerService` | what a job does between two suspensions |
| `GraphQL` | a document or a subscription | a field, a hook, a frame |
| `DataLoader` | `GraphQLDataLoader` | a load, a dispatch, a batch's read and return |
| `AdvisoryLock` | `advisory_lock()` around `create_all()`, processes with a pool each | a connection, the lock, the work |
| `Transactions` | ambient transactions of both database modules | entering, a save, leaving |

`Bootstrap` extends `ProviderScope` and `Scanner`: the scan's result becomes the
container's tables. `Requests` extends `Throttler`, and that `Stores`, whose clock
they share. `Lifecycle` and `ApplicationContext` extend `Hooks`. `JobQueue`
instantiates `JobLifecycle` under a refinement mapping.

**MC modules.** `MCJobQueue`, `MCWebSocketGateway` and `MCRequests` give one module its
values. The others put several into one run: `MCCore`, `MCBackground`,
`MCMessaging`, `MCServices` and `MCWeb` have a variable `part`, fixed in the
initial state, that says which of them moves; the others keep their initial
state. This is a disjoint sum and not a composition: parts that share state are
composed in a module of the project (`Requests`, `Bootstrap`), not there.
`MCProviderScope` holds the module graphs, which `MCCore` runs among its parts, and
serves two violation runs by itself.

**JobQueue.** Callers are application tasks, Workers the slots of background
tasks. `task[t]` is the suspension point: in a handler, in a back-off sleep, in a
delay, in the `gather` of `close` or `wait_until_idle`. `HandlerOk`,
`HandlerRaises` and `BackoffOver` are the turns of `_run_handler`, and continue to
the next handler or to `Finish` in the same step, as the code does without an
`await`. Cancellation is a request (`cancelled`) and a delivery (`CancelWorker`),
because a task that has not started runs nothing. The lists of finished jobs are
sets of `Job` objects, told apart by the serial number of the `add()` call.
The backend keeps list positions, since `update()` replaces the first record
with a matching id. A (queue, job name) pair is one queue.

**QueueBackends.** The memory backend's list and each Redis stream are sets of
records numbered in the order they were written; `jobs()` shows the latest record of
each id. `remove()` and `clear()` are loops of commands, oldest entry first, between
which others read and write, and a process may die in them and restart. `UsedBy` says
which queues use an id; `AnyQueue` is the program without such a convention.

**Container.** A frame is one call of `resolve_async` in progress, `resolving` is
the context variable of tokens in progress. Instances carry the set of requests
whose request-scoped instances they reach; that is all `NoCrossRequestBleed` has
to know. `SharesWith` says whose context a spawned task has copied.

**ProviderScope, Scanner, Bootstrap.** The searches thread the set of seen modules,
or providers, which the code mutates in place through all branches. Those of
`ProviderScope` are functions over depths: what a call answers, given what the calls
below it answer (`Find`, `ScopeFrom`); a call inside another has seen one module,
or provider, more, so that there are no more depths than modules. A state is an
application and its two caches; the invariants compare the code's answers with
reachability definitions that know no cache and no order. One exception is written
into them: after an override a search that ends early in a cycle of re-exports
answers with the container's own copy, which is the same provider. `Bootstrap` takes a declared graph through the scan, the
container and the hooks; `records` is the scan's result, `agenda` what is still to
be started, `heard` who heard the event that hooks emit.

**Hooks, Lifecycle, ApplicationContext.** A pass over the instances is named by the
hook it calls; `AsDocumented` is the order of calls the documents promise, stated of
the whole record `called` of a life. `disposition` says who handles each signal;
`Prior`, who did before `enable_shutdown_hooks()`. A handler chained to the server's
tells the server to stop. One without a predecessor starts an exit task that runs
`shutdown_once` and then kills the process. `told` is the signal name the shutdown
hooks receive. The context has the same passes with its own variables (`ctx...`), and
several callers of `init()` and `close()`.

**Scheduler.** A loop is a task per job, a run a task per tick. `cancelled` holds
cancellations not yet delivered; a cancelled loop ends when it next runs. The
clock is an integer that may jump by any amount, which is a stalled event loop.
A cron expression is an occurrence every `Delay` seconds; how croniter computes
occurrences is outside. `ResumeDuring` names the phases in which the application
calls `resume_job()`.

**WebSocketGateway.** `m` is the manager, a record of five tables changed only by
operators named after its methods; an empty set stands for an absent key. A
handler joins its own socket, anybody may make any socket leave. `Raising` says
whether hooks, listeners and payload encoding may raise; a coroutine that a
listener raised out of ends in `"raised"`. A broadcast is a snapshot of the
audience and sends one by one. `GatewayMessages` looks at one connection instead:
what a client gets back for each frame.

**Requests.** Each request carries its own stage and what it has read: the session
loaded, the entry looked up, the components still to come. What handlers read and
write is a version number, so a cache entry is stale when its version is old. The
stores differ in what is atomic: a memory store's `hit()` is, a Redis client
without EVAL counts and adds in two steps.

**Events, Cqrs, Microservices.** `emit()` of the event emitter calls listeners
inside the caller's step stack (`frames`), so nothing else runs meanwhile; the
event bus of `cqrs` awaits each listener, so everything may. A listener of `cqrs` is
called at a *place*, the look-up (by type, by base type, sagas likewise) and the
registration in it: `calls` holds the places still to be visited, earliest first, and
`CalledFor` keeps the first place of each listener, which is what the removal of
duplicates does. `Microservices` has one client and server logic and six transports
that differ in who may hear a reply, in whether messages are handled one by one, and
in whether a message that found nobody is kept.

**Workers, DataLoader, AdvisoryLock.** All three are about who waits for whom: a
permit handed to the first in line before it runs, a batch that answers all who
wait for its keys, a lock for which one holds a connection of a bounded pool.
A job's depth is the number of `run()` calls nested in it.

**Transactions.** A context is a stack of sessions; a task started inside one
inherits it as it was. The SQL variable has a session per service, Mongo's has one.

## 3. What is checked

| Run | Module | Distinct states | Shows |
|---|---|---|---|
| `queue_books` | `MCJobQueue` | 535 000 | two jobs, two handlers, `add`, delays, retries, `clean`, `clear`, `close`, `wait_until_idle`, cancellation anywhere, malformed back-off options |
| `core` | `MCCore` | 122 000 | two requests, a spawned task and a synchronous caller over injected and real cycles; module graphs with cycles, re-exports, aliases and a global module, asked, overridden, booted, restarted, extended; three signals at every point of an application's life with everything raising; three callers of one context |
| `requests` | `MCRequests` | 1 822 000 | three concurrent requests through the pipeline and its stores |
| `background` | `MCBackground` | 439 000 | pause, resume, cancel, delete, `stop`; an interval and a cron job over a stalling clock; a queue cleared and closed at any point |
| `gateway` | `MCWebSocketGateway` | 321 000 | two sockets in two namespaces and a room, a broadcast, anything raising |
| `messaging` | `MCMessaging` | 1 101 000 | listeners that emit, listen and raise; overlapping, failing commits; two clients over six transports |
| `services` | `MCServices` | 96 000 | GraphQL documents and subscriptions; overlapping batches; `create_all` in two processes; nested worker jobs under `shutdown` |
| `web` | `MCWeb` | 2 944 000 | transactions, queue records of two processes, gateway frames, routes, guards, uploads, HTTP retries, Inertia visits |
| `scope_two_providers`, `equal_dynamic_imports` | `MCProviderScope` | violation | see 5 |
| `lifecycle_reraise` | `MCCore` | violation | see 5 |
| `shared_ids` | `QueueBackends` | violation | see 5 |

Their properties, by run; a name in brackets is a conjunct defined in the module it
is about:

- `queue_books`: a job is in one book and `_failed` mirrors `_dead_letter`
  (`BooksAgree`); every entry of `_active` is run by a task (`ActiveHasRunner`); the
  queue implements `JobLifecycle`, and a job is completed only when each handler
  succeeded (`JobsProceed`); the backend agrees with the books (`BackendAgrees`).
- `core`: one singleton, one instance per request, none of another request's
  (`OneInstance`); an error "circular" only for a real cycle, and tokens in progress
  are those of frames (`CircularOnlyWhenReal`); a module finds what it and the modules
  it sees provide, in the scope the graph says (`ModulesResolve`); what the scan
  accepts can be injected, providers start after those they import, and every listener
  is heard (`ModulesStart`); a lazily loaded module only adds to the
  container's tables and changes nobody's tokens (`LoadDisturbsNobody`); hooks in order, none twice, none
  left out without an error, one shutdown (`HooksInOrder`); resolutions, shutdowns
  and `close()` end, and a context's hooks are in the documented order too
  (`CoreEnds`).
- `requests`: in any window at most `limit` requests are let in (`AtMostLimit`); a
  cached answer is as new as the last eviction (`FreshUnlessRaced`); a session holds
  what requests that did not overlap put there (`SequentialSession`); a handler runs only behind its guards and pipes, and a request's scope
  lasts to the end of its stream (`PipelineKept`: `Guarded` and `ScopeHeld`).
- `background`: type correctness of the scheduler (`TypeOK`); a live loop is
  registered or cancelled (`NoOrphanLoop`) and reached by `stop` (`StopReaches`;
  together `LoopsReached`);
  no tick after `stop`, no overlap, ticks on the grid (`TicksKept`); `stop` returns,
  and a stall is not made up for by a burst (`StopEndsWithoutBurst`); the queue's
  delays and waits end (`TurnsEnd`).
- `gateway`: the tables' two views agree (`ViewsAgree`), a room lies within its
  members' namespaces (`RoomInNamespace`), members are connected, served by
  broadcasts and forgotten when they have gone (`MembersServed`), and the coroutine
  of a closed socket ends (`HangupEnds`).
- `messaging`: a listener hears an event as often as it asked to, and errors reach
  the right `emit_strict()` (`EventsHeard`); a call is answered by its own handler's run
  or not at all, and Kafka keeps no future but those of calls that wait, are publishing,
  or whose publish did not end well (`CallsAnswered`); no message of a stream is passed
  over (`NothingSkipped`); `commit()` loses no event, no handler that raises ends the
  listener, a call that can time out ends (`NothingDropped`).
- `services`: one answer per field and frame, subscription payloads in order, a
  refused document runs nothing (`DocumentServed`); no load is answered with what
  was read before a `clear()` that met no batch of the key (`FreshAfterClear`); two tasks never create the schema at
  once (`LockExcludes`) and no more jobs run than there are permits (`PermitsKept`); loads (but those of a batch that was cancelled), `create_all()` and `shutdown()` end (`ServicesEnd`).
- `web`: a transaction commits as a whole and a task writes to its own session
  (`TransactionsIsolated`); a record is the last one written (`RecordsCurrent`); the
  gateway answers a frame once, and not at all after the handler's own ack, an error apart (`Acknowledged`); requests that must not be repeated are
  received once (`SentSafely`), and a handler runs only for those its guards let in
  (`AccessGranted`; together `ExchangesSafe`); the right route serves (`RouteServes`)
  and the files selected are within the limits and stored as sent, or replaced by a
  later one where a name is shared (`StoredAsSent`; together `RequestsServed`); flashed errors are shown by the
  next page rendered, in an application whose GET handlers render; a submission is
  handled once, the props asked for arrive (`VisitsKept`).

**Bounds.** Constants whose names begin with `Max` appear in guards only, as do
`Restarts` and `Retries`. Two jobs and three tasks (one caller and two
background tasks in `queue_books`, the reverse in `background`) are enough for one
task to work while another is retried, cleaned, cleared or cancelled, and for a retry
to be retried; with two attempts there is a first, a middle (between attempts) and a last turn. Three
signals are one that triggers, one during the shutdown and one after. The
scheduler's `control` part has three loop slots for two jobs, so that a paused loop
that has not ended yet coexists with the resumed one; two calls make a pause and a
resume. `ticks` runs to time 8 so that an interval of 2 and a cron job of 3 miss
several ticks, on and off the grid. Two sockets suffice for a broadcast that loses a
member; that model is finite without a bound. The `container` part of `core`
uses one provider graph, chosen to have every kind of dependency, scope and cycle; the
`scope` and `boot` parts vary the graph instead. Three requests are two readers of one session, of whom the second is
served from the cache, and a writer that evicts what they cached; `MaxClock = 2` is
the length of windows, entries and sessions, so each can expire. Two clients, of
which one sends again (`MCRetries`), are a late reply meeting a later request; a server
listens twice, but once over Kafka (`MCMaxListens`), whose calls have a step more; two
acknowledgements by a handler and one by a task of its own (`MaxAcks`) are one too many
in each order; two processes and four records are a
`remove()` interrupted by a newer entry. Three contenders on a pool of two are the
least that can fill a pool with those who wait. Four visits over three builds are a
stale page, its reload, and a deployment in between. Symmetry is used in
`queue_books` only, which checks no liveness.

Deadlock is not checked: in every part the system really stops (all jobs done, the
process gone, sockets closed, documents answered, the clock at its bound). That
nobody waits for ever is what `CoreEnds`, `TurnsEnd`, `HangupEnds`, `NothingDropped`
and `ServicesEnd` say.

**Fairness.** Only what an event loop and terminating code give: a task that can
run does (`WF` on the steps of each task), handlers, hooks, factories, sends and
sleeps end, and a publish to Kafka returns, raises or is timed out. Clients, signals, callers, brokers and the clock are never obliged to do
anything; a call over a lossy transport ends because its time-out does. Strong
fairness stands at two places. `Close` of `WebSocketGateway`: a closed socket has
finitely many messages left, so `receive()` raises in the end, though a message may
be handled in between. `Lock` of `AdvisoryLock`: the database serves those who wait
for an advisory lock in turn.

**Mutants.** Definitions marked "Variant" are plausible mistakes in the definition
that follows them (a list not updated, a flag set too late, a test dropped). Each
is paired in `PROJECT.json` with a property that fails when it takes the place of
the real definition.

## 4. What is proved

All proofs hold for every value of the constants allowed by the modules' named
`ASSUME`s, and for behaviours of any length. Of the safety properties the runs
check, those in section 3 that are not named under "Only model-checked" below are
theorems. Each `_proofs` module states its inductive invariants as definitions of
their own, shows that a step keeps them in one lemma per action, and derives the
theorems from them.

- **`JobQueue_proofs`**: `TypeCorrect`, `ActiveRuns`, `BooksKept` (`BooksAgree`),
  `RecordsFollowBooks` (`BackendAgrees`), `CompletedAfterAll`,
  `LifecycleImplemented`, `JobsProceedKept`. `TypeOK` is inductive because it says
  that a task in a handler is at one that exists and at an attempt within `max`.
  `OneBook` is not: that a job is in one book when it enters another needs to know
  that the job of a task that delays or runs it is in no book of finished jobs, and
  that each active or delayed entry has exactly the task that will take it out;
  `BooksInv` and `TasksInv` say so. From them every step of the queue is a step of
  `JobLifecycle` for each job, or none.
- **`Core_proofs`**: of `Container`, `InProgressAlways`, `CircularAlways` and
  `CircularAmongShared` (`CircularOnlyWhenReal`), and `OneAlways` (`OneInstance`).
  The frames of a task are a stack in which each token was asked for by the one
  before it, so the tokens below one need it (`StackInv`): a token met again is a
  cycle of the declarations. What a frame is waiting for is in no cache, and what a
  task was given is what the caches hold (`InstanceInv`). Of `Hooks`, `HooksAlways`
  (`HooksInOrder`) and `ContextAlways`: what has been called is what the passes that
  are over call, followed by a beginning of the pass under way (`CameTo`); the same
  lemma serves the lifespan and the exit tasks (`LifecycleKept`), and a context
  (`ContextKept`). Of `ProviderScope`, `ModulesResolveAlways` (`ModulesResolve`), by
  induction over numbers (`LeastNumber`, `UpTo`, `Iterates`): a search that has not
  yet seen all modules either ends in a provider, or has seen everything it could
  see and nothing of it has one (`FoundRight`, from one depth to the next by
  `FindRight`; `LocateRight`). The same of scopes: a visit that does not answer
  "request" leaves only singletons behind of which every dependency is visited or
  transient, so that what is not left behind is closed under bubbling and includes
  the least such set (`VisitRight`, `EffectiveRight`, `BoundInherits`). `ScopeInv` says
  why the caches may be believed: a dependency list kept is that of a provider there
  is (`KnownFrom`), and a scope kept is the one the providers give (`CachesRight`).
  Where every export is valid and no module re-exports a token through a cycle of
  imports (`ReexportsEnd`: a rank falls along re-exports), a module that exports a
  token finds it from wherever it is asked, namely where the first import that
  exports it does (`ComesTo`, `ComingStep`, `OwnerComes`). Two theorems follow:
  `VisibleIsFound`, that the container finds, in a module that provides it, what the
  scan takes for visible, and `AddedDisturbNobody`, that registering further modules
  leaves every owner found as it was. The latter is the consequence in
  `LoadDisturbsNobody` of its first line (`OnlyHas`, `Adds`), which the run checks of
  each lazy load.
- **`Scheduler_proofs`**: `TypeCorrect`, `LoopsReachedAlways` (`LoopsReached`),
  `TicksAlways` (`TicksKept`), `NoBurstEver`. `NoOrphanLoop` is not inductive: one
  must know that a registered loop works for the name it is registered under and is
  in `tasks` until `stop` has returned (`Registered`), and that loops wait for runs
  of their own job (`LoopsWork`). `GridInv` keeps the next tick on the grid and in a
  later period than the last, by the arithmetic of `_run_interval`
  (`NextIntervalBounds`); `StopInv` says that once `stop` was called every live loop
  has its cancellation; `OverlapInv` that a job never resumed has one loop, which
  waits for the job's run while there is one.
- **`WebSocketGateway_proofs`**: `Views`, `RoomsInNamespaces`, `ServedAlways`
  (`MembersServed`). Every step changes the manager by one of its operations or not
  at all (`EveryStep`), and each keeps the tables consistent (`TablesConsistent`).
  `ServedInv` adds the place of each coroutine: a socket the manager knows is
  connected until a send to it fails, one that is over is in no table and is put
  back into none, and a broadcast has reached those of its snapshot that it passed.
- **`Requests_proofs`**: `PipelineAlways`, `SequentialAlways`, `CacheFreshAlways`,
  `AtMostLimitAlways`, from `PipelineInv` (the components passed are those before the
  next one, all within the scope), `SessionInv` (what a session holds is what the last
  request left in it, unless two overlap), `CacheInv` (an entry that nothing raced with
  shows the data as it is, and from a writer's eviction until it writes there is none)
  and `LimitInv` (the requests admitted in the last `ttl` seconds are among the hits
  stored, and no window has more than the limit), on the types alone.
- **`Messaging_proofs`**: of `Microservices`, `CallsAnsweredKept` and
  `NothingSkippedKept`: which attempts a call has made (`CallInv`, `Numbered`), that a
  request that can still run is in one place (`OnePlace`), so that runs and what can
  still run are no more than attempts (`RunInv`), as long as no RabbitMQ server was closed,
  which leaves what it handled to be delivered again (`Redelivers`), which futures Kafka's client
  keeps (`PendingEach`), and how far a read has come (`ReadInv`). Of
  `Events` and `Cqrs`, `EventsHeardAlways` and `NotLostKept`. The order in which
  `emit()` calls listeners is a strict one, so what it collects has each listener once
  (`Ranked`, `CollectsEach`); `OnceInv` follows a `once()` registration from the list,
  over all emissions that may call it, to its call or to the `emit()` that raises and
  drops it; `StrictInv` says that of an emission under way in which a listener raised,
  more errors are kept than it had counted, unless they were cleared. `CalledInv`: publications share
  no event, unless commits overlapped or raised, and what waits in one has not been
  called; `KeptInv`: a commit in progress forgets no safe event that it neither
  has brought nor still brings to every handler.
- **`Services_proofs`**: `PermitsKeptAlways`, `LockExcludesAlways`, `FreshAlways`.
  `WorkersInv`: a job is in line once, one in a handler holds a permit, and the free
  and the held make up the limit. `LockInv`: who works, or is about to, has the lock,
  and owners exclude each other. `LoaderInv`: nothing in the cache, and nothing that a
  batch has read and may store, is older than the oldest version that may still be
  served, which `clear()` moves on. `DocumentServedAlways` is of `GraphQL`, for any
  document: fragments expand to a list of fields with the guards they stand under
  (`FieldsOfTyped`, by induction over the depth to which they are followed), the
  place of a request says what it has answered, and what was sent of a subscription
  is a beginning of what its source yields (`DocumentInv`).
- **`Web_proofs`**: `TransactionsKept` (`TxInv`: the sessions of a context were opened
  by the task or by one it comes from, and its frames close exactly those it opened),
  `AcknowledgedKept` (`MessagesInv`), `SentSafelyKept`, `AccessGrantedAlways` and the
  two together, `ExchangesAlways` (`HttpInv`, `AuthKept`: the guards passed so far
  would pass still, for the user whose token was verified), `RecordsCurrentAlways`
  and `VisitsKeptAlways`. For the records, `BackendKept` says that the latest record
  of a job has its last status, and that a `remove()` under way deletes an
  id's records from the oldest on (`OldestGone`), so that whatever it has deleted when
  it stops, the latest is shown or none. For the visits, `VisitInv` follows a
  flash from the session over an answer to the request that shows it
  (`FlashTravels`), and a submission from the browser to its one handling; a page
  lacks a prop only if it is lazy, deferred, or cached by the browser already.
  `RequestsServedAlways` is about what recursive definitions compute, so it needs
  inductions over numbers (`LeastNumber`, `Iterates`): a path's specificity is a
  number (`TextLengthNat`), `SetSort` returns the routes in an order without
  inversions, because numbering each by those that precede it is one (`SortedLists`),
  and flattened lists hold what the lists hold, in their order (`FlattenLists`).
  `RoutesInv` then says that what is registered is a beginning of what the controllers
  list, so that the first route that matches is the one declared for the request;
  `UploadInv`, that each file stored so far was selected within the limits.

**Hypotheses.** Where a theorem needs more than the constants' assumptions, what it
needs is a hypothesis of the theorem: a definition of the `_proofs` module, or the
constant `FreshIds` of the queue.

| Hypothesis | Theorems | Why it is there |
|---|---|---|
| `FreshIds` | `BooksKept`, `RecordsFollowBooks`, `CompletedAfterAll`, `LifecycleImplemented`, `JobsProceedKept` | `add()` names jobs by `uuid4()`; with ids chosen by callers, two jobs of one id share the records (`shared_ids` in 5) |
| `OwnContexts` | `CircularAlways` | tasks that share a context may meet in one uncached token ("Gathered resolutions" in 5); for the others `CircularAmongShared` needs `EagerSingletons` and `Apart`, which hold in `core` |
| `EagerSingletons`, `RequestsInOrder`, `PlainTransients` | `OneAlways` | the lifespan makes the singletons, the tasks of one request do not race, and no transient provider hides a request-scoped one (5) |
| `ResumesServing` | `TicksAlways` | "Resume during stop" and "Pause and resume" in 5 |
| `SessionsLive` | `SequentialAlways` | a session of age zero expires at once |
| `WritersEvict` | `CacheFreshAlways` | who writes the data has `@CacheEvict` for what shows it |
| `IdsApart` | `RecordsCurrentAlways` | `shared_ids` in 5 |
| `FlashesKept` | `VisitsKeptAlways` | "Flash and an empty answer" in 5 |

All are true of the constants of the run that checks the property, save `OwnContexts`
in `core`, whose run has a spawned task: there the theorem is `CircularAmongShared`.

**For the proofs' sake.** `Events` and `Cqrs` compute what a listener is called for by
sets and functions rather than by recursion over sequences, `QueueBackends` numbers
the records of a stream instead of listing them, and `NotLost` is stated of each event
kept. `Upload`, `Routes`, `GraphQL` and `ProviderScope` write their recursion as functions over
numbers, and say in a named assumption what a form, a controller, a document or an
application is. None of it
changes what the runs reach.

**Only model-checked.**

- Liveness, which is out of the prover's reach: `CoreEnds`, `TurnsEnd`,
  `StopEndsWithoutBurst`, `HangupEnds`, `NothingDropped`, `ServicesEnd`. Their safety
  parts are proved: `ContextAlways`, `NoBurstEver` and `TicksAlways`, `NotLostKept`;
  `ListenerSurvives` is left to the run.
- `ModulesStart` and `LoadDisturbsNobody`. `Scanner` and `Bootstrap` walk the declared
  graph by recursive operators: the scan, the expansion of module exports, the order of
  the lifecycle, and what can be built. What is proved is about any tables of the
  container (`ModulesResolveAlways`, `VisibleIsFound`, `AddedDisturbNobody`), not about
  how the scan fills them.

## 5. Where the code departs from its documents

Four runs exhibit a violation:

- `scope_two_providers`: `_provider_dependency_cache` is keyed by the token alone
  (container.py:486). When two modules provide one token, the dependencies of
  the provider asked first are used for both, and a provider that needs a
  request-scoped one may be kept as a singleton.
- `equal_dynamic_imports`: two dynamic modules built from equal arguments pass the
  scan as one record and crash the lifespan with a `TypeError` (factory.py:718).
- `lifecycle_reraise`: an exit task whose `shutdown_once` found the shutdown under
  way kills the process between two hooks (factory.py:474, 533).
- `shared_ids`: the memory backend's `update()` and `remove()` match records by id
  alone (queues/module.py:139), so two queues that use one custom id overwrite each
  other's records.

The models show others. Some are left out of the passing runs by the value of a
constant:

- *Request scope behind a transient provider* (a singleton in `Deps` that needs a
  transient that needs a request-scoped provider): scopes bubble only from
  providers that are request scoped themselves (container.py:471), and
  `NoCrossRequestBleed` fails.
- *Gathered resolutions* (two tasks with one `SharesWith` and one uncached async
  token): the second is refused as circular, and `CircularIsReal` fails
  (container.py:334).
- *Pause and resume* (`MaxCalls <- 2` for `Ticks` in `MCBackground`): the resumed
  loop does not know of the run its predecessor started, and `NoOverlap` fails
  (runner.py:152).
- *Resume during stop* (`"loops"` in `ResumeDuring`): the new loop is forgotten by
  `tasks.clear()` and ticks on; `StoppedIsQuiet` fails (runner.py:64).
- *Flash and an empty answer* (`"flash"` in `Handlers`, with the session middleware
  inside): the redirect that replaces an empty answer drops the cookie in which the
  handler's flash was to travel; `FlashShown` fails (middleware.py:101).
- *Lazy global module* (a module re-exports a token through a cycle of imports, or
  exports a module that it does not import): the search through it finds nothing and
  goes on to the global modules, so a global module that is loaded later and exports
  the token takes the place of the provider found so far; `LoadDisturbsNobody` fails
  (container.py:752, lazy_loader.py:28). In the runs' graphs the module that closes
  the cycle re-exports nothing, and the one that imports the other has a provider of
  its own. Without either, `AddedDisturbNobody` proves, nothing is disturbed.
- *Close during init* (`Created <- FALSE`): `close()` finds no runner and returns,
  and `init()` then starts one that nobody stops; `CloseStops` fails
  (factory.py:1204).

Others are named as exceptions in the property they concern; each has a hazard in
`PROJECT.json` with the line:

- *Cache*: an entry that an evicting request overlapped stays until its TTL ends
  (`FreshUnlessRaced`).
- *Throttler*: over a Redis client without EVAL, concurrent hits pass the limit
  (`AtMostLimit`).
- *Flash on the way*: with the session middleware outside, a flash is lost to a GET that
  redirects or raises a status outside `error_statuses`; the GET handlers of `Inertia`
  render (`VisitsKept`).
- *Session*: requests that overlap lose each other's changes (`SequentialSession`).
- *Cqrs*: a commit that overlaps another, or that a handler made raise, publishes
  events again (`EventsHeard`).
- *Redis streams*: a listener that begins at `$` misses what is sent between two
  first reads; `NothingSkipped` starts with the first message handled.
- *Events*: `emit_strict()` counts the errors before its await and looks at those
  past the count after it (events/module.py:172-176), so when `clear_errors()` is called
  meanwhile it returns although its listener raised. An `error_handler` that raises, or
  `capture_errors=False`, ends `emit()` in the middle: the coroutines it collected never
  run, and the `once()` listeners it had taken are gone (`EventsHeard`).
- *Kafka futures*: `send()` stores its future before it publishes and removes it in a
  `finally` that begins only afterwards (microservices/module.py:1168-1189). A publish
  that raises, or that the proxy's time-out interrupts, leaves the future in
  `_pending_replies` until `close()` (`CallsAnswered`).
- *RabbitMQ redelivery*: a message is acknowledged after it was handled (1011), so one
  that a closed server was handling is delivered to the next: the handler runs more than
  once for one attempt (`CallsAnswered`).
- *Replies that fail*: the reply of a Kafka or Redis server is sent outside the `try`
  (1278, 473), so one that cannot be serialized or published ends the listener
  (`NothingDropped`).
- *Data loader*: `clear()` in the middle of a key's batch is undone by the
  batch (`FreshAfterClear`). A batch function in which an await is cancelled leaves its
  callers waiting for ever, since `except Exception` does not catch `CancelledError`
  (graphql/module.py:128, `ServicesEnd`).
- *Shared file names*: under a fixed `filename`, or one of a callable or the client
  that two files share, the later file replaces the earlier, also within one request,
  whose handler is then given one path twice (upload.py:391-393, `RequestsServed`).
  `FileInterceptor` looks at the first file of its field only (264).
- *Cache keys*: a route without `@CacheKey` joins its key with `:` (cache/module.py:329),
  and eviction by prefix looks for `|`; the variants of such a route stay. `Stores` has
  the keys of `@CacheKey`.
- *Transactions*: what a task that inherited a session writes after its end is
  lost (`TransactionsIsolated`).
- *Gateway acknowledgements*: the callback does not look at `sent` (adapter.py:57-68),
  so a handler may acknowledge twice, a task it leaves behind may do so after the
  endpoint has answered, and an error is sent after an ack (`Acknowledged`).
- *Gateway answers*: an empty list with an acknowledgement id is not answered, and
  `str(data)` of what JSON cannot express is sent as it is (`Acknowledged`).
- *Advisory lock*: the result of MySQL's `GET_LOCK` is not looked at
  (sqlalchemy/module.py:236); with a time-out, which `create_all()` does not pass,
  the lock would not exclude.
- *Queue closed while jobs are added*: a job added with a delay while `close()` waits
  for the others is forgotten but sleeps on and runs (queues/module.py:522); the
  state "dropped" of `JobLifecycle`.
- *Name of the signal*: the hooks are told the last signal received before the
  microservices were closed, not the one that triggered the shutdown
  (factory.py:484, 665); `told` in `Lifecycle`.
- *Presence*: a socket whose `on_connect` raised was announced with "connect" and
  is never taken back with "disconnect" (adapter.py:340, 516); a listener that
  raises leaves the socket in the manager (adapter.py:317, 519). `emitted` and
  `"raised"` in `WebSocketGateway`.

## 6. What is not modelled

Within modelled parts: the text of records, frames, tokens and sessions; named
tokens, fingerprints of dynamic modules and the asynchronous scan; module
introspection; run counters of scheduled jobs, `delete(cancel=False)`, disabled
jobs, time zones, a `start()` that fails half-way; `SocketIoServer.emit()` to one
socket; binding and validation of parameters (a step that may fail); middleware
consumers; `CacheService.remember()`; the query bus; gRPC and MQTT, whose servers run
in libraries, and connection set-up; `run_many` and the history of worker runs;
GraphQL's lexer, coercion of arguments and printing of schemas; queries, migrations
and documents, which are the databases'; the cancellation of a microservice call by its own caller;
passport strategies; server-side rendering
and history encryption. The components' notes in `PROJECT.json` say this part by
part.

Whole parts: the components with status `not_modelled` in `PROJECT.json`. Pipes,
serialisation, Swagger, security headers, mail, translation, logging, configuration,
health, metrics, test support and the CLI convert one value into another, count, or
do I/O, and share no state between tasks; databases, brokers and the network belong
to others. These are what is left of the code beyond the map, with the wording,
parsing and option handling of the modelled parts.

## 7. Plan

Done: the modules of section 2, and theorems for all safety properties but
`ModulesStart` and `LoadDisturbsNobody`. What is left: to write the walks of `Scanner`
and `Bootstrap` as functions over depths, as those of `ProviderScope` are, and to prove
that the scan's view of a module is the container's.
