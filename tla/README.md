# BroKnowMyQQBot: a TLA+ verification project

The bot is a tokio program in Rust. Adapters (QQ over a gateway WebSocket or a webhook, OneBot 11
over a reverse WebSocket) turn what a platform sends into events; the Runtime of `bot-core` takes
each event once, runs its handlers (the router and, behind it, the plugin host) and tells the
adapter when the event is done with. This project models the protocols among those tasks: who owns
an event, in which order events are processed, what a lost connection, an aborted task, a store
that does not answer or a shutdown may leave behind. Around the Runtime it models what else keeps state:
tokens, uploads, assets and images, WASM instances, the observer and the bot's own supervision; and
the tools that change files, rows and remote repositories in several steps that can be interrupted
or interleaved: configuration, installation, building, publication, logs, the browser's runtime.

Paths are relative to `src/`; line numbers of each definition are in `PROJECT.json` ("map").

## 1. Inventory

### bot-core (`crates/bot-core/src`)

| Part | State it keeps | Operations | What makes it correct |
|---|---|---|---|
| `dedup.rs` deduplication store | entries with their state and token, pins, pending claims, eviction queue, one `watch` channel per entry in flight and one for capacity | `claim`, `commit`, `release`, the drop of a cancelled claim | one owner per event, no lost wakeup, exact bounds, fencing of old claims |
| `runtime.rs` event lifecycle | the outstanding claims with their stage, the supervisor's queue | event task, `ClaimCancellationGuard`, recovery supervisor, finalisation at shutdown | every claim is finalised, handled events are never released, acknowledgement after commit |
| `runtime.rs`, `adapter.rs` dispatcher | bounded channel, permits, task set, partition tails, two semaphores | `reserve`/`send`, `spawn_event`, drain, flush, join, abort | bounds, order in a partition, nothing accepted is dropped by a clean shutdown |
| `router.rs` | the commands' names; per event the middleware entered | middleware before/after/failed/cancelled, handlers, commands | middleware that was entered is left once, in reverse order; an event succeeds only if its routes have run |
| `metrics.rs` observer | counters, phase, adapters, run generation | record, begin and end of a run, health | nothing is told to run when no run is active; healthy means each adapter was ready |
| `shutdown.rs` | one flag in a watch channel | trigger, wait | |

### Adapters

| Part | State it keeps | Operations | What makes it correct |
|---|---|---|---|
| `adapter-qqbot/websocket.rs` session | session id, last received and last committed number, pending dispatches | connect, identify, resume, dispatch, rollback, `event_handled` | a resume skips nothing and repeats nothing that is being processed |
| `adapter-qqbot/websocket.rs` heartbeat | timer, `heartbeat_acknowledged` | tick, acknowledgement, request by the server | a dead gateway is noticed, a living one kept |
| `adapter-qqbot/websocket.rs` executor, `openapi.rs` | budget of inline images, cached upload clients | one or two HTTP calls for each action | the status that is told is true, a repeated request was not executed |
| `adapter-qqbot/webhook.rs` | table of seen events, queue, run guard | callback, reserve, accept, restart | an event is queued once |
| `adapter-onebot11/lib.rs` | slot, published connection, two flags, Actions queued and pending, local event queue | accept, `execute`, the connection's loop, the forwarder, retirement | no Action waits for ever, an Action reported as failed was not sent, no event is lost |
| mappings | none | a message to an event with its identity | what is told again has the same identity, nothing else has |
| `qqbot-protocol/auth.rs` | cached token, refresh lock | `access_token`, `refresh_if_current`, `invalidate_if_current` | single-flight refresh; only a token that was refused is replaced early |
| `qqbot-protocol/stream_upload.rs` | the plan of an upload | validation, parts | the parts cover the file exactly |

### Plugin host (`crates/plugin-host/src`)

| Part | State it keeps | Operations | What makes it correct |
|---|---|---|---|
| `runtime/mod.rs` lifecycle | registered plugins, their phase, the invocation gate | register, configure, upgrade and rollback, pause, shutdown | no invocation meets a half-replaced plugin |
| `runtime/mod.rs`, `storage.rs` delivery | SQLite rows: deliveries, commands, health | begin, commit, failure, requeue, recovery, dead letters | commands run once per committed delivery, superseded invocations change nothing |
| scheduler | schedules | launch, claim, fire, cancel | a schedule fires once per due time |
| assets, http | records and their accounts; per request the hops | insert, remove, sweep; authorised requests | exact accounts within the limits, only granted targets |
| wasm | one store and engine, epoch timer | lifecycle calls, events | a call meets its own data and deadline |
| browser (`src/browser.rs`) | a worker process, its proxy, the origin of the headers | execute, its steps, requests and connections | headers and connections end with what they are for |
| package | | one request each | |

### The executable (`src`, `plugins/builtin`)

| Part | State it keeps | Operations | What makes it correct |
|---|---|---|---|
| `bootstrap.rs`, `management.rs` | the tasks of a run, validation slots and threads | start, end of the runtime or the server, signal, validate | plugins end last on every path, the exit code tells every failure |
| `config/` | configuration and secrets file, lock, temporary files | create from a template, set up, replace, validate | the two files belong together; accepted limits keep the budgets |
| `cli.rs`, `storage.rs` installations | rows, managed packages, lock | install, update, enable, disable, remove, migrate | a row's package exists, no change of another command is lost |
| `plugin_marketplace.rs` | the index's entry, a release | look up, compare, ask | what is installed is what was described and accepted |
| `plugin_dev.rs` | project, component, package, tag, branch, release, issues | new, build, package, publish | a package is valid and fresh; what is submitted is released |
| `browser.rs` | runtimes, `active.json`, lock, downloads | install, check, remove, look up | a runtime in use is whole |
| `logging/writer.rs` | log files and archives, total | write, rotate, archive, tidy up | no record is lost early, the total is kept |
| `plugins/builtin` reminder | index, tasks, schedules | create, cancel, trigger, completions | a reminder is sent once and not forgotten |

### How the parts interact

    platform --> adapter --reserve/send--> bounded channel --> dispatcher --spawn--> event task
                    ^                                                                 |  claim, commit, release
                    |                                                                 v
                    +------- event_handled (acknowledgement) <--------------- deduplication store
                                                                                      ^
       recovery supervisor (claims of dropped tasks), shutdown finalisation ----------+

An event task calls the handlers (router, plugin host), whose actions come back to the adapter
through `execute`. Tasks share the store's mutex, the map of outstanding claims, the partition
tails, the QQ session's mutex and the OneBot connection's state; everything else goes through
channels.

Hard to test: steps of several tasks around an `await` (a claim that goes to sleep, a task aborted
after the effect of a call and before its bookkeeping), calls that time out with an unknown effect
and are repeated by another actor, reconnects that replay events still being processed, bounded
queues that are full on both sides, and a shutdown that may run into any of it. `PROJECT.json`
lists them as hazards with the line where each bites and the properties that would catch it.

## 2. What is modelled

### MemoryDedupStore, DedupContract (`bot-core/dedup.rs`)

One action per section of code that runs under the store's mutex. `claim()` is a loop: it looks at
the entry (`ClaimDuplicate`, `ClaimWaitsForOwner`, `ClaimGranted`, `ClaimWaitsForCapacity`,
`ClaimSaturated`), or sleeps on a channel to which it subscribed under the lock, and looks again
once it is woken. Dropping a sleeping claim takes two locks, one for each of its guards
(`Cancel`, `DropGuard`, `DropPin`). `release()` signals after it has unlocked
(`Release`, `SignalChanged`, `SignalCapacity`). A holder may finalise a claim again after it has been
settled (`CommitAgain`, `ReleaseAgain`): the Runtime duplicates claims, and its recovery does so.

A `watch` receiver can only tell that its channel was signalled after it had subscribed, so the
version counters are the set `woken`; a random token is the number of claims granted.
`DedupContract` is the trait's promise without tokens, pins, signals and queues: a caller that waits
has `asked` for one key, a claim is answered for that key, and `None` says that this very event was
committed and is still retained. The refinement mapping is `held` = the unsettled owners, `done` =
the committed entries, `asked` = the keys of the calls that have not returned; an answer `None`
carries the key of the entry the store looked at.

### EventLifecycle (`bot-core/runtime.rs`)

The claim of each delivery, from `claim_event` to `untrack_claim`. Three actors finalise claims:
the event's task, a recovery task and a finalisation task. They run the same retry loops, so the
loops are actions with the actor as a parameter and `at[actor][delivery]` says where it is. An
await ends an action. The store here is any implementation of the trait: a call may fail for a
while, for good, or time out with or without having taken effect, and a committed event may be
forgotten. `commands` and `pending` are the supervisor's channel and queue, `runtime` the phase of
`Runtime::run` and of `RuntimeShutdown::finish`. The history variables record what has happened to
each delivery outside of the program (handlers succeeded, adapter told).

### EventDispatcher (`bot-core/runtime.rs`, `adapter.rs`)

The channel with its permits, `EventDispatcher::run`, `spawn_event` with the chain of partition
tails, the two semaphores, `prepare_shutdown`, `drain_adapters`, the flush of the closed receiver
and the end of `finish`. What a task does with its claim is reduced to the phases that hold a
semaphore permit, or none. The generation that distinguishes tails is the delivery.

### GatewaySession (`adapter-qqbot/websocket.rs`)

`SessionState` and the handling of dispatches, with the gateway and the Runtime as the environment:
the gateway keeps a log per session, sends it in order and replays what follows the number of a
Resume; it may forget a session. The admission of an event and its rollback are two actions because
they take the session's lock twice. The event is offered with `try_send`, which may fail.

### GatewayHeartbeat (`adapter-qqbot/websocket.rs`)

The `select!` of `run_connection` with its timer, in discrete time: the loop sends a heartbeat at
each tick unless the last one is unacknowledged, answers a heartbeat that the gateway asks for, or is
busy with a dispatch and looks at nothing. `grace` is the time a dead gateway may still go unnoticed.

### EventIdentity (`adapter-qqbot/mapping.rs`, `adapter-onebot11/mapping.rs`)

Which messages become events and under which id (`IdOf`, by family), against what the platforms tell
and tell again. The contents of a message are one value, so equal contents are equal bytes. The
acknowledgement of an event is GatewaySession's.

### WebhookIntake (`adapter-qqbot/webhook.rs`)

A callback is authenticated, may wait for the lock of the table with the time it has read, and then
cleans up, reserves, hands over and accepts in one section without an await, so `SeenState::Pending`
is never observed. `generation` tells the runs of the adapter apart; requests of the old server go on.

### OneBotConnection (`adapter-onebot11/lib.rs`)

Four concurrent parties: callers of `execute`, the `select!` of `run_connection` (one branch per
action), the forwarder and the peer. Admission and retirement of a connection share a lock and are
atomic with respect to each other. A write is two actions (`Transmit`, then `Written` or
`WriteFails`), since the loop reads nothing meanwhile but callers and the forwarder go on.

### PluginDelivery, DeliveryPromise (`plugin-host/storage.rs`, `plugin-host/runtime/mod.rs`)

The tables of `PluginStore` for one instance (`deliveries`, `ledger` for the two command tables,
`health`, and `revision` for the private state) persist; `work` is what each invocation that holds the
gate is doing in `deliver_with_retry`, and `host` where `register()` has got to. An action is a
transaction of the store with the synchronous code around it; the effect of a command (`StartCommand`)
and the record of its result (`FinishCommand`) are two, so a crash, a dropped handler or a failure of
the store can come between them. After `Crash` the steps of the registration run one by one and may
crash again; then the task of the registration (`Loop`) puts the interrupted deliveries through the same
loop (`RecoverNext`). The instance is ready by then, so a schedule that a recovered delivery has created
may fire beside it (`Dispatch` at "deliver") and be aborted; `recovery` holds what the loop has still to
come to with the attempt it has read, whether a command has been executed since, and what aborted tasks
were at. Names of reports (`action/<invocation>/<command>`) are pairs, and the two identifiers of an
attempt one number. `next_attempt_ms` is the flag `due`; the wall clock is assumed not to step back
between a failure and the end of its backoff.

`DeliveryPromise` has no retries, workers, health or restarts: an event is open, settles for ever on
one invocation, or is given up until the operator reopens it, and a command is performed at most
once and only for the invocation its event has settled on. The refinement mapping takes the outcome
and the invocation from the delivery's row, and the number of executions from a history variable.

### PluginLifecycle (`plugin-host/runtime/mod.rs`, `plugin-host/storage.rs`)

One instance, around the deliveries that PluginDelivery details. `lifecycle` is `LifecycleState`,
`lane`, `free` and `queue` the partition locks and the semaphore of `InvocationGate`, `code` and
`config` the registered plugin, `guest` what the plugin itself has been told last, `data` the version
that `plugin_state` is written in. A registration is several steps: `Register` makes the instance ready
and lists the interrupted deliveries (those of schedules, and one for all messages), `RecoverDelivery`
and `DeliveryRecovered` go through them without a permit while workers of schedules they create claim
and fire, and `RecoveryEnds` takes all schedules back. Any other action is the code between two awaits:
of a handler call (`Admit`, `StartCall`, `EndCall`), of a change (`BeginChange`, `Enter`, `Validate`,
`ShutDownGuest`, `Migrate`, `InitNew`, `CheckHealth`, `InitOld`, `BeginShutdown`, `EndShutdown`) and of
a schedule's worker (`Claim`, `Fire`, `FireEnds`, `FinishRow`, `RemoveHandle`). Any lifecycle call of
the plugin may fail. `upgrade` has the host to itself (`&mut self`), so only the workers run beside it;
`update_config` and `shutdown` take `&self` and overlap with calls. An upgrade gives the instance a new
gate; the workers of the old one have been aborted by then. An aborted worker disappears at its await;
if it is within an invocation, either it is dropped there or it gets to the end first.

The semaphore is first come, first served, so a call that waits in it when a change begins gets its
permit before the change and gives up because the plugin is draining. A call that waits for its
partition's lock gets to the semaphore behind the change: for it alone the generation matters. Updates
may overlap: the one that ends first makes the instance ready in the generation that the other began,
while that still waits for the permits. `number` is the order in which changes began, `switched` the
last of them that has switched, and `since` what a call saw when it was admitted: it does not run after
the switch of a change that began later. A call that was admitted after both had begun may run after the
second switch, as it may in the code.

Three exceptions are part of the properties. A `retired` plugin (shut down, disabled by a failed
rollback, or registered with an open circuit) may still be reopened by an `update_config` whose
configuration is refused, since every refusal sets Ready. A task is `overtaken` when its worker is
aborted after its invocation: that worker goes on to delete the row and remove the handle, by then
perhaps those of its successor. A task is `stranded` when the registration takes its row back from a
worker that has claimed it: the worker ends without deleting the row. One more case is outside of the
instance: a `task_id` that is used again (its event has already been delivered, and a schedule created
between `finish_schedule` and the removal of the handle gets no worker). A schedule that falls due while
its plugin is not ready is deleted without having fired.

### EventRouter (`bot-core/router.rs`)

One event at a time through the routes; every hook and handler may succeed, fail, panic or be dropped
at its await. `entered` is the stack of the code, `begun` and `left` the history. A failed event is
delivered again. `commands` are the names and aliases of a CommandRouter while it is filled.

### RuntimeHealth (`bot-core/metrics.rs`, `runtime.rs`), Supervision (`bootstrap.rs`, `management.rs`)

RuntimeHealth has the observer's fields by run, the tasks of adapters and events that write them (the
adapter with a guard, the one without), and a reader that loads them one after the other. A run that
is dropped leaves tasks that still write; its properties make that exception. Supervision has the
three parallel parts of the bot with their results, the phases of `start`, and validations whose
thread nothing can stop: the request, its supervisor and the thread each hold the slot in turn.

### AccessTokens, UploadClients, UploadPlan, PlatformActions (`qqbot-protocol`, executor, `command.rs`, `http.rs`)

AccessTokens: a token is a number, its age a stage; the platform may revoke tokens at any time and
answers a request with a revoked one with 401 without executing it. UploadClients: the map of weak
mutexes by host and the bounded cache. UploadPlan: `validate` and `validate_for_request` against the
set of bytes that a plan covers. PlatformActions: each endpoint is reduced to whether it writes, is
sent once, and has its answer checked; each action to the endpoints it calls. The history variable
`effects` counts what the platform executed, and the errors are mapped layer by layer to the status
the plugin is told.

### AssetStore (`plugin-host/assets.rs`), WasmInstance (`plugin-host/wasm/mod.rs`), Reminders (`builtin/business/reminder.rs`)

AssetStore: the store's methods are single steps, the commands that call them have awaits in between,
and may be dropped there. WasmInstance: `data` is the store's data, `interrupt` what the epoch timer
has done to the engine; a dropped call leaves its timer to fire or to be aborted. Reminders: the
plugin on a host that serialises it, except for the chains that a new host recovers without its permit.

### PluginInstallation, PluginMarketplace, StorageMigration (`cli.rs`, `plugins.rs`, `plugin_marketplace.rs`, `storage.rs`)

PluginInstallation has several commands at once and a bot that starts: reading the row, waiting for the
user, copying the package, the conditional write and the clean-up under the lifecycle lock, each of
which may be the last. PluginMarketplace has what one command checks of an entry, while the index,
the release, the bot's owners and the row change around it. StorageMigration has `PluginStore::open`
in several processes on a database of an earlier version, one statement or transaction a step.

### ConfigFiles, BotConfiguration (`config/`)

ConfigFiles: starts that create templates in place, set up under the lock and replace both files by
renames, crash and roll back. BotConfiguration: the checks of `validate` in their order, on listeners
and limits, with the integers' width as `Word`; the reference is what a socket takes and what the
queue and the requests can hold.

### BrowserTask (`browser.rs`)

One task of a plugin, from the permissions and the lookup of their hosts in the executor to the end of
the worker: `nav` holds the four variables by which the worker's `context.route` handler decides who
gets the extra headers, `request` and `connection` the handlers between two awaits. The reference for
the headers is `page`, where the main frame has been since the last step, which the code does not keep.
The source of the worker is a string constant of the executable (`WORKER_SOURCE`).

### PluginBuild, PluginPublish (`plugin_dev.rs`), BrowserRuntime (`browser.rs`), LogWriter (`logging/writer.rs`)

PluginBuild: revisions of the source and the manifest, the shared intermediate component, a package
by temporary file and rename. PluginPublish: checkouts with their HEAD and tags, the remote's branch,
tag, release and issues, and publishers whose mutations may fail after they took effect and whose
listings may be old. BrowserRuntime: a directory is a set of files, so a killed removal leaves a part
of it; the download is a set of byte ranges. LogWriter: records are numbers, files sets of them;
`evicted` is the history of what made room.

### MCComponents, MCLiveness

Most of these components share no state in the program. MCComponents instantiates twenty-four modules over
the same ten variables: the initial state selects one, each behaviour is that of the selected module,
and each invariant speaks of the modules it is about. This explores exactly the union of their state
spaces (a few hundred thousand states each, 4.4 million in all) in one run. MCLiveness does the same
for two components with their fairness conditions.

## 3. What the runs check

Every run finishes within about three minutes on two cores; every property of a passing run has a
seeded fault (a definition named after the one it replaces, such as `LastPin_Early`) that violates it.

| Run | Instance | Shows |
|---|---|---|
| `memory_dedup_store` | 3 keys and an oversized one, 3 callers, capacity 2, 3 tokens, fair | exact accounting, no lost wakeup, fencing, pinned keys survive, refinement of `DedupContract` (each claim is answered for its own key), a sleeping claim is answered |
| `event_lifecycle` | two deliveries of one event, all faults but plain retryable ones (a timeout covers them), one recovery slot, fair | no claim is lost, one finaliser, clean shutdown (`ClaimsAreAccounted`); handled once, acknowledged after the commit, tracked state keeps up (`HandledThenAcknowledged`); never released once handled; claims settle |
| `gateway_session` | 2 sessions of up to 4 dispatches, 3 deliveries, 2 pending, fair | a resume loses nothing, pending is contiguous, no double submission, an acknowledgement completes its own event (`SessionIsExact`); events of a living session are handled |
| `gateway_session_retry` | expected violation | see findings |
| `onebot_connection` | 2 Actions, local queue of 2, 1 pending Action, 4 events, fair | each event once, refused Actions were not sent (`TrafficIsExact`); nothing unread waits, flags are fresh (`BackpressureIsSound`); resources are released and events reach the Runtime (`TrafficMoves`) |
| `onebot_connection_order` | expected violation | see findings |
| `plugin_delivery` | 2 events that may be schedules, the task of the registration and 2 more, 2 commands (one with a key), 3 attempts in all, one each of crash, dropped task, lost result and recovery of dead letters | refinement of `DeliveryPromise`, keys performed once and no result or report lost (`LedgerIsExact`), failures forgotten only by newer successes, nothing left open by a recovery but what tasks of schedules are at |
| `plugin_lifecycle` | 2 callers of one partition, 2 permits, 2 calls, a shutdown; with 1 schedule and 2 starts a single change (update or upgrade), with neither two changes that may overlap (2 updates, or an update and an upgrade); fair | invocations meet a plugin of one version and calls that waited for a change are given up (`ChangesAreIsolated`), rows and workers agree, everyone gets through the gate |
| `plugin_lifecycle_shutdown` | the same, expected violation | see findings |
| `liveness` | dispatcher: 1 adapter, 3 events in 2 partitions, 2 slots; delivery: 1 event dispatched twice, its reports, 2 crashes, a lost result; fair | nothing hangs; each delivery and report ends unless its instance is disabled |
| `components` | the twenty-four modules of MCComponents, instances below | one property for each group of them, named there |
| `wasm_config` | the WASM module alone, expected violation | see findings |

The instances of `components`:

| Module | Instance | Property |
|---|---|---|
| EventDispatcher | 2 adapters, 4 events in 2 partitions, 2 slots, 1 semaphore permit | `EventsAreDispatched` |
| EventRouter | 3 routes with 1, 2 and no middleware, one stops, 3 names in 4 places, 2 deliveries | `EventsAreDispatched` |
| AssetStore | 2 instances, sizes to 2, limits 2 and 3 records, 3 and 4 bytes | `AssetsAndUploadsAreSound` |
| UploadClients, UploadPlan | 4 uploads to 2 hosts, cache of 1; up to 3 parts and 3 bytes | `AssetsAndUploadsAreSound` |
| PlatformActions | 2 commands, 2 targets (1 granted), budget 3, 1 redirect | `PluginCallsAreSound` |
| WasmInstance | 2 events, an update | `PluginCallsAreSound` |
| BrowserTask | 3 origins of 2 hosts, 2 of them declared, 3 requests (budget 2), 1 connection, 2 steps | `PluginCallsAreSound` |
| AccessTokens | 3 calls (2 of them sent once), 3 tokens | `ExecutedAtMostOnce`, `OnlyItsVictimReplacesAToken` |
| WebhookIntake | 3 requests for 4 messages, 1 place in the table, 2 runs | `EventsAreTakenOnce` |
| EventIdentity | 14 tellings of both platforms, 3 events, 2 sessions | `EventsAreTakenOnce` |
| GatewayHeartbeat | interval 3, answers within 1, 3 unread messages | `HealthIsJudged` |
| RuntimeHealth | 2 runs, 2 adapters (1 guarded), 1 event each | `HealthIsJudged` |
| Supervision | 3 validations, 2 slots | `BotEndsInOrder` |
| ConfigFiles, BotConfiguration | 3 starts with one process id; 3 listeners, words of 4 bits | `ConfigurationIsSound` |
| LogWriter | 4 records, files of 2, total 3 | `NoRecordIsLost`, `WithinTheTotal` |
| PluginInstallation | 3 commands, 2 instances that share 2 packages | `InstallationsAreSound`, `NoChangeIsLost` |
| PluginMarketplace | 2 plugins and versions, 1 capability, 2 repositories | `InstallationsAreSound` |
| StorageMigration | 2 processes, 2 rows, 1 kill | `InstallationsAreSound` |
| PluginBuild, PluginPublish | 2 commands, 2 revisions; 2 publishers and checkouts, 2 commits, 3 builds | `PackagesAreReleased` |
| BrowserRuntime | 1 process at a time (the lock excludes others), 2 runtimes, 2 parts, archives to 3 bytes | `InstalledIsWhole` |
| Reminders | 2 tasks, room for 1, 1 crash | `RemindersAreKept` |

### Why the bounds are enough

The interesting cases of the store need a full map, a waiter for an owner and a waiter for capacity at
once: three callers over more keys than the capacity admits have all three, and the third token makes
room by an eviction, possibly of the key it claims again. In the lifecycle two deliveries of one event
compete for a claim and for the single recovery slot. The dispatcher needs a partition with a
predecessor, a successor and a third event that arrives when the first has ended, plus another partition
to run beside it. The session needs a second dispatch pending behind a first, a replay and a second
session whose numbers start again. In the connection both waiting places (`pending_events`) and the
local queue must be full while an Action is in every stage. A delivery needs two invocations that
overlap, so that a success can meet failures newer than itself (the circuit opens at two), a keyed
command that two events issue, and a report whose own output exceeds the chain limit of one: three
attempts are an event, its report and the report of that, or two of one and one of the other. In the
live instance no behaviour needs more than the ten attempts allowed. A plugin needs a call and a worker
that run at once, a change queued behind them and a call of the same partition that gets its turn after
the change; two starts make a restart, and three numbers for the workers of a task let an aborted one
overlap with its successor and the next.

In `components`, a table, budget or cache is always smaller than what wants to be in it (assets, images,
seen events, upload clients, names, validation slots, the reminder's index, the log's total), and
whatever can be repeated happens at least twice (tokens, runs, sessions, commands on one row,
publishers of one version). Three parties occur where one can interfere with what a second has read
from a third (token calls, installation commands, configuration starts); elsewhere two.
Symmetry (requests r1, r2, r3; processes p1, p2) is used only in this run, which has no liveness property;
its action properties do not tell the symmetric values apart.

In a bounded instance everything comes to rest, so "infinitely often nothing waits" (`NothingHangs`,
`EveryDeliveryEnds`, `TrafficMoves`) means that whatever has begun ends.

`TypeOK` of each module describes its variables. The store's is in its run; section 5
says where it is proved; the others hold in the instances above but are in no run, since they say
little on their own.
`MCNext` of MCPluginLifecycle takes the bounds together: a behaviour with two changes creates no
schedule and has one start, and the second updater (`configure`) does not come first, as the two are alike.
Schedules and restarts do not touch generations, and the workers of an upgrade's instance are covered by
the behaviours with one change. Section 5 proves the safety properties without these bounds.

### Fairness

Fairness is stated per module next to `FairSpec` (in PluginLifecycle as `Fairness`, which `MCSpec` takes), for
the dispatcher and the delivery in MCLiveness. There the task of the registration is fair like the others.
It stands for: tokio polls tasks that are ready;
timers fire; handlers are bounded by `handler_timeout`; tokio's semaphores are first come, first
served (strong fairness of `AdmitClaim` and `StartProcessing`). Two assumptions concern the
environment: a store or an adapter that is asked again and again answers at last (strong fairness of
`Answered`, since a recovery task pauses between its rounds), and an adapter that holds a permit
uses it or drops it. Nothing makes an idle caller claim, a peer send, an adapter stop or the user shut down.

### What the models assume of their surroundings

* The platform: an answer that is not 2xx, or carries an error code, means that the request was not
  executed; tokens may be revoked at any time; a new token is one never issued before.
* GitHub and git: commits of a repository are linear; a listing shows an earlier moment; a mutation
  that fails may have taken effect.
* The system: a rename replaces a file at once; the lock on the browser's home is exclusive, so one
  command at a time is enough; names of temporary packages are unique; the clock of the log files and
  of the backoff does not step back; editors save whole files, and nobody edits the configuration by
  hand while the setup asks its questions.
* SQLite: a statement or a transaction is one step; a statement that fails ends the command.
* `updated_at_ms` of an installation made after a removal is later than any before it.

## 4. Findings

* `gateway_session_retry`, `FailedEventsCanBeRetried`: when a handler fails, the Runtime releases the
  claim "so a retry can process the event" (`dedup.rs:154`), but nothing tells the QQ session. The
  dispatch stays incomplete, and its replay after a Resume is dropped as a duplicate
  (`websocket.rs:2859`): no retry happens while the session lives.
* `onebot_connection_order`, `EventsInOrder`: `enqueue_local_event` tries the local queue first even
  when an older event waits in `pending_events` (`lib.rs:261`), so a newer event can overtake it.
* `plugin_lifecycle_shutdown`, `ShutdownStopsSchedules`: `shutdown()` "drains all ready plugin
  instances, stops scheduled work" (`runtime/mod.rs:1518`), but in the other order. A call that is
  still being drained may create a schedule whose worker nobody stops. If it wakes before the
  process ends, the plugin is no longer ready, and `finish_schedule` deletes the row unfired.
* `wasm_config`, `EventsSeeTheConfig`: `validate_config` of a WASM plugin writes the proposed
  configuration into the store (`wasm/mod.rs:325`) and `on_event` never writes it back. After an update
  that the plugin refuses, `config_get` answers its events from the refused configuration, whereas a
  plugin that keeps the configuration it was initialised with goes on with the old one after a refused
  update (`tests/static_plugins.rs:1320`, `plugin-api/src/protocol.rs:390`).

What the models showed besides, and the properties make an exception of:

* `http.request` reports a failure for a POST whose answer is too large, and `media.reply` one for an
  image that was sent but whose asset could not be consumed (`http.rs:215`, `command.rs:282`).
* `update_config` with a refused configuration reopens a plugin that is shut down (`runtime/mod.rs:361`).
* A reminder whose scheduling result is unknown is "retained for recovery" (`reminder.rs:311`), but
  nothing schedules it again.
* A schedule created by a recovered delivery may be firing when the registration sets all firing rows to
  pending (`storage.rs:1231`). Its worker does not delete such a row (`finish_schedule` looks for a firing
  one) and no other is launched for it, so it stays pending, with nobody to fire it, until it is
  cancelled, or the schedules are stopped, upgraded or recovered again, although the
  delivery of its event has begun.
* Of two overlapping `update_config` calls the first to end makes the instance ready although the second
  is about to take all permits (`runtime/mod.rs:378`); a call admitted then may run after the second switch.
* `::ffff:0.0.0.0` is not recognised as a wildcard that collides with every IPv4 listener
  (`config/mod.rs:509`).
* A configuration file that was torn by a kill while its template was written is kept (`config/mod.rs:781`).
* `plugin enable` looks at neither the permissions nor the configuration of the plugin (`cli.rs:912`).

## 5. What is proved

`MemoryDedupStore_proofs` holds for every set of keys and callers that is finite, every capacity and
every bound on tokens (`StoreAssumption`):

* `Inductive`: `Spec => []IInv`;
* `TypeCorrect`, `AccountingIsExact`, `ExclusiveOwnership`: state invariants that follow from `IInv`;
* `Fencing`, `PinnedIsKept`: the action properties `OnlyHolderFinalizes` and `PinnedSurvives`.

`AccountingExact` is not inductive: that `pending_claims` equals the number of guards needs to know
in which phases a caller holds one; that the eviction queue is exact needs that pins belong to keys
with the right count, that tokens of entries were issued before, and that no two entries or callers
share a token. `IInv` adds exactly that: the relation of phases to guards, pins and keys, freshness
and uniqueness of tokens, and `OneOwner`. The proof has a lemma for each action and, under it, a step
for each conjunct the action can disturb; facts about cardinalities of guards and pins and about the
prefix that `evict_committed` pops are lemmas of their own.

`NoWakeupIsLost` (`Spec => []NoLostWakeup`) and `StoreImplementsContract` (`Spec => ImplementsContract`)
follow from `IInv` and the same assumption. A sleeping claim gets its wakeup because of `WInv`: the owner on
whose channel it sleeps is still in flight or has left the entry and not yet signalled
(`OwnersAwaited`), and a claim that waits for capacity sleeps only while the map is full of entries
that cannot be evicted, or while a release has not yet sent its signals (`RoomAwaited`); `release()`
wakes both channels in two steps, and the steps between them are where a wakeup could be lost. The
refinement maps the callers that own a claim to `held`, the committed entries to `done` and the keys of
calls that have not returned to `asked`; that `None` is about the key that was asked for rests on a
sleeping call's key being the one its loop looks up again. Its
lemmas are one for each kind of step; the grant is the one that needs `IInv`, for the claimed events
are the entries in flight (so the contract's store is as full as the map) and a grant evicts at most
one entry, and only from a full map.

`AccessTokens_proofs` holds for every set of calls and every number of tokens (`TokenAssumption`, a
hypothesis of each theorem):

* `TokensAreInvariant`: `Spec => []IInv`;
* `CallsRunAtMostOnce`: `ExecutedAtMostOnce`; `UsableTokensStay`: `OnlyItsVictimReplacesAToken`.

Neither is inductive. That a call is executed once needs that it has not been executed until it is
done, that one about to be sent holds a token, and that one of the `*_once` family is never about to
be sent after a refusal (`NotYetExecuted`). That a usable token is replaced only for its victim needs
that whoever fetches holds the lock (`LockIsHeld`), hence nobody has replaced the token between the
second look and the answer, hence the reason for the fetch still holds (`FetchesForItself`). One lemma
per conjunct, with one step per action.

`EventLifecycle_proofs` holds for every set of events, finite set of deliveries, number of recovery slots
and set of faults (`LifecycleAssumption`): `TypeCorrect`; `ClaimsAccounted`
(`Spec => []ClaimsAreAccounted`); `AcknowledgedWereHandled` (`Spec => []HandledThenAcknowledged`);
`HandledNeverReleased` (`Spec => NeverReleasedOnceHandled`). None of it is inductive, for a claim is handed
on by what another actor reads of it: from the task to the supervisor's queue, a recovery slot or the
final round of `Runtime::run`. `IInv` says who may hold a claim at all (`TaskAlone`, `RuntimeShape`),
that the store holds claims of tracked deliveries and commits of handled ones (`StoreMatches`,
`HandledKept`), what a task has done by each of its phases (`TaskMatches`), and that whoever finalises
a claim does what its event calls for (`WorkMatches`: a release only of what was not handled, an
acknowledgement only of what was committed).

`GatewaySession_proofs` proves `SessionExact` (`Spec => []SessionIsExact`) for any limits, sessions and
reconnects. That a Resume skips nothing rests on the window of pending dispatches being the stretch of
the gateway's log between the two numbers the adapter keeps (`Contiguous`, `PendingMatches`), on a
connection never running ahead of it (`CursorMatches`), and on a rolled back dispatch being the last one
and not taken (`RollbackLast`). The prefix that `complete()` removes is found with the least number of
a set, since induction is not at hand.

`OneBotConnection_proofs` holds for every finite set of Actions, every capacity and number of events
(`ConnectionAssumption`): `TypeCorrect`, `TrafficExact` (`Spec => []TrafficIsExact`), `BackpressureSound`
(`Spec => []BackpressureIsSound`). `IInv` adds what each stage of a connection has set up and taken down
(`Shape`), that the events read are those delivered, queued, waiting and held, with the sum of the
lengths equal to their number (`EventsKept`: then, by counting, no event is in two places), that an
Action in the outbound queue was not written and has no answer yet (`OutboundUnsent`), and how the
flag shared with the forwarder lags behind the queue (`FlagsKept`).

`PluginLifecycle_proofs` holds for any callers, updaters, tasks, permits and bounds:

* `InvocationsAreIsolated` (`Spec => []RunsInitialised`), for any number of overlapping updates;
* `ChangesIsolated` (`Spec => []ChangesAreIsolated`), likewise, however updates overlap;
* `RowsAgree` (`Spec => []RowsAndWorkersAgree`), when a `task_id` is used once (`MaxCreations = 1`): a worker
  that is aborted while it fires may still reach its end when the id has a new row.

This hypothesis is also that of the instance that TLC checks. `IInv` says that the permits not free are
those of running invocations, or all held by the one change that is inside (`GateKept`), in which phases
the code, the persisted state and the plugin agree (`VersionsKept`), and what a stopped process, an
upgrade or a registration excludes (`DownIsQuiet`, `UpgradeIsAlone`, `RecoveryIsAlone`). For the generations
it needs that a call that waits has the present generation only if no change has begun since it was
admitted (`GenerationsKept`): whatever switches next has a number it has seen. For the
schedules, that a task has one worker, which has the handle and the row as far as it has got: pending while
it sleeps, firing after, or taken back if the task is stranded (`RowOf`); that a worker without the handle
was aborted and nothing follows it (`Ghost`); that a paused task has neither; and that nothing is stranded
before the registration has ended (`SchedulesKept`). `Launch` takes a number that no worker
of its task has, so `Slots` bounds the workers of one task that are alive at once.
`TypeOK` there is proved without its conjuncts on `lane` and `queue` (`Typed`): `Without` is a `SelectSeq`, a
recursion whose type the provers cannot establish.

`PluginDelivery_proofs` holds for any events, workers, commands, keys and outputs and any bounds on
invocations, dispatches, crashes, drops, losses and reopenings (`DeliveryAssumption`, which also says that
the event a result is reported in is none of the adapters' events, as its identifier is made of the
invocation's and the command's):

* `ExactLedger` (`Spec => []LedgerIsExact`): a key is performed once, no result is lost;
* `ImplementsPromise` (`Spec => KeepsPromise`): the refinement of DeliveryPromise;
* `NewerSuccess` (`Spec => NewerSuccessResets`): a success does not forget failures it has not seen;
* `NothingIsLeftOpen` (`Spec => RecoveryLeavesNothingOpen`): a registration that ends ready has ended all but
  what tasks of schedules are at, or were at when they were aborted.

`IInv` serves the first two. `KeyedOnce` needs that only what is in the ledger was performed, that what is in
the ledger belongs to an invocation whose delivery is committed or succeeded, and that a key is in the
ledger once (`LedgerKept`); that a command is not performed twice needs that the identifiers of
invocations are unique among rows and workers (`IdsAreUnique`), that a worker that acts has the row of its
event (`HasDelivery`), and how the ledger, the commands still to be executed and the results collected
divide the commands of its invocation (`CommandsKept`). Over a restart the same facts pass to the steps of
the registration, which no worker disturbs (`RegistrationKept`): interrupted commands before the
reports, the reports before the finalization. Most steps touch the rows of one worker only; `Tame`, `Apart`
and `WorkerKeeps` say so once, and each action has a lemma that shows it is such a step. The
refinement maps a row to what the promise knows of it (`Outcome`, `Source`) and shows for each action which
step of the promise it is, most of them none (`RowsKept`).

The other two have an invariant each on top of `IInv`. `GenerationsKept`: a row of the present
generation that is running or committed began after the last counted failure, since a failure that is
counted begins a new generation. `RecoveryKept`: while a registration recovers deliveries, each delivery is
`Accounted` for. What is open is in the backlog, or some worker is to come to it, as its event, in its
queue, or as a report it will queue (`Sought`); that is not enough, for `begin_delivery()` passes over a
row that somebody else has begun or that is not due, and whoever passes it over no longer comes to it. So
what has been begun has a worker that is still acting on it (`Owned`), and what is not due is awaited
(`Awaited`), by the loop that has read it as it is now, with its attempt, or by the worker whose
attempt has failed. What aborted tasks were at is excepted in each. That the list of
`recover_pending_deliveries()` is taken after the requeueing is what makes it hold at first.

`EventDispatcher_proofs` holds for any adapters, deliveries and partitions and any `queue_capacity` and
`event_concurrency` (`DispatcherAssumption`; the sets of adapters and deliveries are finite):
`RetentionBounded` (`Spec => []Bounded`), `OrderIsKept` (`[]PartitionOrder`), `TailsAreExact`
(`[]TailExact`), `DrainIsComplete` (`[]DrainComplete`), the four that `EventsAreDispatched` is made of.
`IInv` ties the tasks to the order in which their events were accepted: the channel holds the last of
them and all before those have a task (`QueueKept`); a task waits for the one accepted last before it in
its partition, and once past that wait all before it are over (`ChainsKept`). Order needs the tails,
for that is how `spawn_event` finds the one to wait for, and the tails need the order: the last task
may remove its tail only because none before it still runs. `EndsKept` says that until the abort no task is
dropped and all that end finish, and that the channel and the permits are gone by the time the tasks are
joined, from which the complete drain follows. Each step is one of seven kinds (`Step`), so that a
conjunct is preserved kind by kind.

Only model-checked: the properties of the modules composed in MCComponents (but for AccessTokens and
EventDispatcher), and all liveness, since fairness and ENABLED are out of the prover's reach. So is
induction: theorems that take an operator cannot be instantiated, and only what has a set form (a least
number, a finite cardinality) can be used. No module here declares a RECURSIVE operator.

## 6. Plan

Proofs to follow, most important first: `ValidationsAreBounded` of Supervision, whose state is small;
`KeepsChanges` of the installation. `AssetsAreAccounted` of AssetStore counts bytes with a sum over a set,
which is an induction the provers cannot make.

Models to follow: the composition of dispatcher and lifecycle with an abstract `EventPromise` (each
event handled at most once while retained, acknowledged after its commit) that both implement; the
reconnect delays of the gateway; quotas and retention of the plugin store; OneBot's handshakes.

## 7. What is not modelled, and why

The components marked `not_modelled` in `PROJECT.json` carry their reason: types with their
serialisation and validation (wire protocols, plugin API).
Of the components that are `partly` modelled, the note says what is left out: mostly the contents and
formats of messages, requests and files, texts, option parsing and output. In particular:

* the reconnect delays and close codes of the QQ gateway, the byte budgets of OneBot media, the limit on
  concurrent OneBot handshakes and their authorisation;
* schedule quotas, retention and a registration that fails in the plugin host; the number of attempts of
  a retry loop (any failed attempt may be the last); clocks (a timeout may strike whenever its operation
  has not finished, except where a module counts time);
* what a browser's page does beyond its requests: texts, screenshots, WebSockets, the sandbox check;
* the load shedding and connection limits of the webhook's and the management endpoint's servers;
* what wasmtime does to an instance whose call is dropped;
* manual and dry-run publishing, and the timeout of a browser's discovery;
* several installations from the marketplace at once (PluginInstallation has their concurrency).
