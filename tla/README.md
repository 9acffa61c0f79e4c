# Verification of the Floe substrate

Floe runs actors (model-backed agents), command nodes and human operators on one durable event
bus. Two long-lived Node processes carry its logic, and a desktop app and a command line work with
them:

* **floe-bus** (`floe-bus/src`): an HTTP and WebSocket server over a `BusStore`, a class of
  synchronous SQLite transactions that owns all durable state;
* **floe-bridge** (`floe-bridge/src`): a daemon that attaches a workspace's endpoints to the bus,
  takes deliveries from it and runs each one in a model runtime or as a shell command;
* **floe-app** and **floe-cli**: the operator's window, and the commands that start and stop the
  services.

This directory models how an event gets from its emission to the end of the turn it causes and how
a request gets back to whoever made it, and around this core the parts whose state several
processes, timers or unnumbered answers change: under every interleaving of clients, bridges,
timers, crashes and lost messages.

## 1. Inventory

| Component | State | Operations | What is hard | What makes it correct |
|---|---|---|---|---|
| Delivery core (`floe-bus/src/store.ts`) | `events`, `event_queue`, `delivery_bundles`, `endpoints.status`, leases | emit, trigger, claim, report (5 states), turn end, register, retire, delete, lease expiry, bridge registration, Scope retirement | late and repeated reports, an expiry racing an answer, three tables written by separate statements, an endpoint status that gates delivery | tables agree; settled is final; an injected turn is not replayed; no queued row is forgotten |
| Requests (`store.ts`) | `pending_responses`, turn results | request tool, turn result, incoming resolution | nested requests, results after failures, a requester that has gone | answered at most once, to the requester; every request ends |
| Bridge daemon (`daemon.ts`) | `processingEndpoints`, `cancelledDeliveries`, `endpointRuntime`, `commandNodes`, stream state | start, attach scan, push and claim paths, `handleDelivery`, `handleCommandDelivery` | every `await` is an interleaving point; stream loss; restart; cancellation overtaking its delivery | one handler per endpoint; a work runs at most once; every row settles; cancelled work does not start |
| Adapters (`adapters/`) | sessions, active turn, injection baseline | `handleBundle`, listener, `finalizeTurn`, `cancelDelivery` | the agent's end, a timer and failing posts each end a turn | a turn ends in exactly one outcome; the session is free afterwards |
| Command runner (`command-runner.ts`, `tools/bash.ts`) | process, pipes, timer | run, time out, abort | descendants that hold the pipes; limits | the caller is told once, and what happened |
| Scopes and graphs (`scopes/`, `scope-graphs.ts`) | status, graphs, command endpoints, subscriptions | create, edit, delete, retire, reactivate | an edit during a scan | wiring is the graph; what is composed is served |
| Pulses (`pulse-scheduler.ts`, `firePulse`) | pulses, subscribers, one timer | create, pause, resume, cancel, fire, restart | a firing racing a pause; restart inside a firing | what is ahead is scheduled; stopped pulses reach nobody |
| Contexts (`contexts/`) | contexts, participants, subscriptions | resolve, subscribe, compact, clear, delete | deletion against deliveries in flight | no cycle; no delivery without its event |
| Cursors, watermark | a position per reader | page, mark | inserts and removals while paging | nothing skipped |
| Attachment, bindings | workspace row, endpoints, `runtime_bindings` | scan, saved configuration, snapshot | jobs working on what they read | what is reported is shown and true |
| Migrations (`store.ts`) | schema | rebuild, add column, backfill | statements that commit one by one; two processes | no row lost; a start can be repeated |
| Credentials | `auth.json`, `profiles.yaml` | refresh, sign in, save, delete | four writers, no lock | entries are those last asked for |
| Extensions, folder watcher, project loader, agent tools | files, relays, registry | load, relay, settle, edit, create and remove actors | processes that outlive each other's knowledge | agreement of files, registry and what runs |
| Desktop app | views | loads, streams, saves, sign-in | unnumbered answers arriving late | what is shown is what is stored |
| CLI | `services.json` | start, stop, restart, repair, reset | two terminals | every process is known, one of each |

The bridge calls the bus over HTTP; the bus pushes `delivery_bundle_available`,
`delivery_cancel_requested`, `scope_retired` and other messages over the stream. They share no
memory, but files: the workspace folder and the credential files, which the app and the command
line write too. `PROJECT.json` lists every component with its status, and every hazard with the
line where it bites and the properties about it.

## 2. Modules

Each module begins with its scope and the source files it models, and its VARIABLES say which
table, field or local variable of the code each one is; `map` in `PROJECT.json` gives the lines of
every definition. Variables marked *history* or *observer* record what happened and no guard reads
them.

| Module | Models | One step is |
|---|---|---|
| `BusDelivery` | delivery core and requests | one store method |
| `BridgeDaemon` | daemon and adapter, composed with `BusDelivery` | one call to the bus with the synchronous code around it |
| `DeliveryPromise` | what both together promise: the abstract specification | a work moves between stages |
| `Pulses` | pulses, scheduler, firing | a route; a firing is one step per subscriber |
| `ScopeLifecycle` | Scopes, graphs and the scan that serves them | a route; a call of the scan |
| `Attachment` | attach scan, saved configurations, snapshots | a call of a job |
| `Migrations` | schema migration by several processes | an SQL statement |
| `Credentials` | the credential files and their writers | a read, refresh or write of a file |
| `RuntimeSession` | a session of the pi adapter and its turns | code up to the next await |
| `FolderWatch` | the folder watcher and its firings | a callback; a firing per subscriber |
| `Extensions` | extensions, relays and the registry of the bus | a step of a scan or a forwarded request |
| `FileEdits` | the edit and write tools | a call |
| `CommandRuns` | one run of a shell command | an event of the process |
| `ModelListing` | models offered for choice, probes and cache | code up to the next await |
| `ConversationView`, `ConversationList` | the conversation and the list of conversations | a message, an answer or a click |
| `RuntimeHealth` | services' health as the desktop shows it | a message, timer or answer |
| `ModelBinding` | the choice of profile and model, and what runs | a click or an answer |
| `Contexts` | Contexts, participants, waking, deletion | a route |
| `EventPages` | paged readers of events and Contexts | a page, an insert, a removal |
| `ActorDefinitions` | actors' files between tools, window and scan | a tool call; a removal is two |
| `ServiceControl` | CLI commands over `services.json` | a step of a command |
| `ProviderSignIn` | the sign-in with a model provider | a command, callback or click |

`MCBusDelivery`, `MCBridgeDaemon`, `MCServices` and `MCDesktop` give values and restricted
specifications for TLC. The last two extend eleven and nine modules that share no state: a
behaviour is one of a single part, named by the variable `part`, and the other parts stay as they
began, so that a run visits the sum of their states and not the product.

Eight modules hold the theorems (section 4), each about the components it extends:

| Module | Proves about |
|---|---|
| `BusDeliveryProofs`, `BusQueueProofs` | the delivery core; the queue and the requests |
| `BridgeDaemonProofs`, `BridgePromiseProofs` | the daemon on the bus; the refinement of `DeliveryPromise` |
| `WorkspaceProofs` | `ScopeLifecycle`, `Pulses`, `Attachment` |
| `ServiceProofs` | `Migrations`, `Credentials`, `RuntimeSession`, `CommandRuns`, `FolderWatch`, `Extensions`, `ModelListing`; the composition `MCServices` |
| `DesktopProofs` | `EventPages`, `ActorDefinitions`, `ConversationView`, `RuntimeHealth`, `ConversationList` |
| `OperatorProofs` | `Contexts`, `ProviderSignIn`, `ServiceControl`, `ModelBinding`; the composition `MCDesktop` |

### BusDelivery

The store runs in one Node process over a synchronous database driver, so a public method is one
atomic step. `Next` lets any client, bridge or timer call any method with any bundle that ever
existed, any number of times: the module is both the model of the store and the abstract
specification of what the store promises to arbitrary bridges.

| Variable | Code |
|---|---|
| `last`, `event` | `events`; ids are the numbers 1..`last` in insertion order |
| `queue`, `attempts`, `holder` | `event_queue.state`, `attempt_count`, `delivery_id` of row (event, endpoint) |
| `bundle[r][n]` | `delivery_bundles.state` of the n-th bundle made for row r; (r, n) is the delivery id |
| `status`, `bridgeOf` | `endpoints.status`, `bridge_id`; "absent" without a row |
| `pending`, `result` | `pending_responses.status` by source event; the result stored under `runtime-turn-result:<invocation>` |
| `retired` | Scopes with status retired |
| `settling` | what the loop of a running `registerBridge` has still to settle |

A handler computes the tables its own statements leave and passes them to `TryCreate`
(`tryCreateDeliveryForEndpoint`), because nearly every handler ends there. Abstractions:

* a lease may expire at any moment its bundle is in flight (times and their renewal by telemetry
  are left out);
* payloads, history-only events (a public turn result, `work.stopped`) and idempotency keys of
  clients are left out; the key of a turn result is `result[r]`;
* Contexts are reduced to the Scope that composes them; the destinations of a context or broadcast
  event are any set of routable endpoints; the Context a result returns to is one of the two the
  code chooses between;
* a request's correlation id is its own event number, as the request tool makes it;
* the claim limit, ties in `created_at` and the deprecated `thread_affine` mode are left out;
* the loop of `registerBridge` is a sequence of `SettleAbandoned` steps in any order, during which
  nothing else happens.

### BridgeDaemon

`handleDelivery` is a task with a program counter `task[d]`. An actor's delivery goes

    binding -> preparing -> running -> acking | failing -> (recording) -> ending -> leaving

and a command's `starting -> executing -> reporting -> ending -> leaving`; a cancelled one goes to
`ending` where the code looks at `cancelledDeliveries`. `Busy` is `processingEndpoints`, `known`
the keys of `endpointRuntime` and `commandNodes`, `wire` the messages on the stream, `claims` and
`replies` the calls of `processDeliveries` before and after the bus answered them, `scan` the
attach scan. `runs` counts the turns started for a row, `emitted` holds the rows whose command
result was sent. The bus side of every step is the action of `BusDelivery`; `Broadcast` derives
the pushed messages from the step's effect on `bundle`, and drops them without a stream.

The environment wakes endpoints (`Wakes`), stops Scopes, lets leases run out, and, up to
`MaxFaults`, crashes the daemon, cuts its stream or makes it rescan. Abstractions: a failing HTTP
call while the bus is up is left out; remembering an endpoint's configuration and registering it
are one step; `MaxClaims` merges a third outstanding claim with the second; the lease of a
delivery expires when the daemon neither has it nor is about to fetch it (`Handled`), unless the
disturbance "slow" is enabled; a turn takes longer than a message that carries a stale copy of its
own delivery (`OutlastsMessages`, with the same exception).

### DeliveryPromise

A work is one event for one endpoint, in a stage none, owed, running, done, failed or dropped. It
is owed once its event is stored, run at most once, and then over for good, as done only if it
ran. `BridgeDaemon` maps the stage of a row from its queue state and `runs` (`Promise == INSTANCE
DeliveryPromise WITH ...`); bundles, leases, attempts, processes and messages have no counterpart.

## 3. Runs

Every bound is a CONSTANT of the cfg (and `MaxClaims` of `BridgeDaemon`).

| Run | Instance | Shows |
|---|---|---|
| `BusRows` | 1 endpoint, 1 event, 4 attempts, 2 Scopes (one composes the endpoint), all reports, operator statuses | `TypeOK`, `DeliveryTablesAgree`, `SettledIsFinal`. The attempt limit is 3, so 4 attempts reach the dead letter and every deferral that exceeds it |
| `BusQueue` | 1 endpoint, 2 events, 2 attempts, restarts, retirement, rebinding | `NoForgottenWork`, `NoReplayAfterInjection`: one row waits while another is in every state |
| `BusRequests` | 2 endpoints, 5 events: a trigger, nested requests and their returns | `RequestAnsweredOnce` |
| `Bridge` | 1 actor, 3 events where nothing is disturbed and every turn answers, otherwise 2 (`WakeSpec`), 3 attempts, one crash, disconnection or rescan | `DaemonTypeOK`, `OneHandlerPerEndpoint`, `KeepsPromise` (the refinement of `DeliveryPromise`, and that no failed turn is acknowledged), `EveryRowSettles`, but for a row behind one whose third lease expired before any runtime saw it |
| `BridgeGraph` | an actor and a command in one Scope to which all work belongs (`ScopedSpec`), deferrals, 2 events | `CancelledIsDropped` |
| `BridgeAsk` | 2 actors, 5 events, turns that succeed or fail | `RequestsEndUnlessDropped`: a chain of two requests, also back to its requester |
| `Services` | eleven parts of bus and bridge | the table below |
| `Desktop` | nine parts around the desktop | the table below |

Two events at one endpoint are enough for a queue: every handler treats the rows behind the first
alike, and delivery is one row at a time. (Run `Bridge` has a third where it can, so that a row
waits behind a turn and behind a queued row.) Two actors close every cycle of requests. Three
attempts reach the last one. One disturbance at any point meets every phase of a task; two in a
row only repeat the recovery from the state the first one left.

| Part of `Services` | Bounds | Properties |
|---|---|---|
| pulses | 1 pulse, 1 Context and 1 generated subscriber, 2 ticks, a timer that counts 1 (so that it can overflow), 3 calls, 1 restart | `AgendaIsFaithful`, `FiringIsFaithful`, `EverySlotIsFired` |
| scopes | 1 Scope, 2 command nodes, 3 edits, 1 stream cut | `GraphIsWiredAndServed`, `ComposedIsServed` |
| attachment | 2 agents (one built, one saved), 2 edits of the folder, 2 calls, 1 fault | `AttachmentIsTrue`, `RegisteredIsReported` |
| migrations | 2 processes, 2 rows, 3 starts, 2 writes | `ServedTablesAreWhole`, `StartEndsServing` |
| credentials | 2 providers, 2 profiles, 2 turns, 3 tokens, 2 calls, 1 crash | `CredentialsAreKept` |
| sessions | 1 configuration, 2 overlays, 2 turns, 1 text, 1 fault | `SessionIsSound` |
| watch | 1 file, 2 versions, 2 subscribers, 1 touch, 2 rescans, 1 cut firing | `ArrivalsAreFired` |
| extensions | 2 folders, 2 ports, 1 edit, 1 scan, 1 fault | `ExtensionsAreServed` |
| edits | texts of at most 3 of 6 marks, one edit of at most 3 marks or two of at most 1 | `EditsAreExact`: every call on every text, against a reference definition |
| commands | 3 pieces of output, 2 captured, 1 shown | `CommandRunIsTrue` |
| models | 3 models, 1 to a page, 2 accounts of one prefix, 2 listings, 1 hour, 1 move | `ModelsAreServed` |

| Part of `Desktop` | Bounds | Properties |
|---|---|---|
| view | 2 messages, 1 to a page, 1 turn, 2 loads, 1 fault | `ConversationIsTrue`, `NewestAppears` |
| health | 2 processes, 2 faults | `HealthIsShown` |
| list | 2 workspaces, 2 conversations, 1 to a page, 3 stamps, 3 clicks, 1 fault | `ListIsTrue` |
| binding | 2 actors, 2 profiles, 2 models, 2 choices, 1 fault | `BindingIsTrue` |
| contexts | 2 Contexts, 1 actor, 1 Scope, 3 events, 2 calls | `ContextsAreSound` |
| pages | 3 events in 3 instants, limits 1 to 3, of which the bus returns 2 | `PagedReadersMissNothing` |
| definitions | 2 actors (1 founder, inspected), 2 turns that remove, 2 changes, 1 save, 1 fault | `DefinitionsAreTrue` |
| control | bus and bridge, 2 terminals, 4 pids, 2 commands | `ServicesAreControlled` |
| signin | 2 providers, 2 sign-ins, 2 cards, 1 fault | `SignInIsTrue` |

`ServicesTypeOK` and `DesktopTypeOK` check the types of the part in question. Each part has two of
whatever may interfere with its like, one of what only has to be there, pages of one so that a
page boundary lies between any two items, and one fault, which can strike at any step. A session
whose configuration changed is replaced like one that was forgotten, which the faults do; that
changes of the configuration do no more is proved (`SessionsStaySound`). No run checks deadlock
but `BusRows`, `BusQueue` and `BusRequests`: elsewhere events, calls and faults are bounded, and
when all work is done and the bounds are used up the system rests.

**Fairness.** `DaemonFairness` is one weak fairness condition on everything the two processes do
by themselves (`Proceeds`, `Settles`): the Node event loops keep running while something is
enabled. It does not say which step comes next, and nothing is assumed of those who emit, ask,
stop or disturb. A turn is assumed to end, since `Finalizes` is one of these steps; the runtime
has a timeout of its own. Liveness here therefore rests on finite work (`MaxEvents`) and not on
fair scheduling between endpoints. `ServicesFairness` and `DesktopFairness` are one weak fairness
condition per part, likewise on what event loops and timers do by themselves: what is ready runs,
and a call is answered or fails. Nothing is assumed of operators, clients or faults.
`StartEndsServing` needs no fairness: it says of every step of a migration that it does not end
the process.
What these two suites say of the future is that something holds again and again or from some
point on: a state that waits (a registered workspace, a composed node, a call) lasts until it is
served, so that this says the same as "leads to" and TLC needs no product with an automaton.

### Disagreements found

* **`BridgeSelfAsk`** (`store.ts:3117`): a request an actor makes to itself resolves its own wait
  while it is submitted. Its result is never returned, and since the turn made a child request, an
  outer request that triggered the turn is never concluded either.
* **`BridgeSilent`** (`pi-agent-core-adapter.ts:994`): a requested actor whose turn ends without
  visible output is acknowledged without a result; its requester waits for ever.
* **`BridgeCancel`** (`daemon.ts:862`): between the early check of `cancelledDeliveries` and the
  active turn a cancellation is only noted, and the model turn starts and runs to its end.
* **`BridgeRetired`** (`store.ts:2203`): stopping a Scope retires its command endpoints, and the
  end of the cancelled delivery's turn, reported by the daemon, makes them idle: events are routed
  and queued to them again although no bridge serves them. Registration, which the code intends to
  reactivate an endpoint, is excluded by the property.

Further disagreements are exceptions that the properties name, each with the line it contradicts:
`TurnsKeepTheirDelivery` (`contexts/store.ts:446`), `PagedReadersMissNothing`
(`bus-api.md:160`), `WipesNothingInUse` (`cli.ts:351`), `ChangesAreInjected` (`hook.md:40`) and
`EditsAreExact` (`edit.ts:32`). Section 6 tells what the code does.

`RequestsEndUnlessDropped` excludes one more way a request stays open: its delivery is
dead-lettered after three lost leases before any runtime saw it, and nothing records a failure.

## 4. Proofs

A run shows a property on a small instance; the theorems hold for every value of the constants
that satisfies the named assumption of the module (`ConstantsAssumption` and its like, one per
component: that numbers are numbers, that null values are none of what they stand beside, that
some sets are finite, and in `ListAssumption` that there are stamps enough to tell all
conversations apart) and the hypotheses the theorem itself names. Every inductive invariant was
checked by TLC on the instance of the run before it was proved. Each proof that a step keeps an
invariant has a step per action; the lemmas about the tables an action's helper returns come
before it.

### Delivery core

* **`TypeCorrect`, `TablesAgree`** (`BusDeliveryProofs`). The invariant `IInv` is `TypeOK /\
  DeliveryTablesAgree`. The second part is what makes it inductive: knowing that a held row has
  its bundle's state is not enough, since a late report for an older bundle could then move a row
  a newer bundle holds. `NoSecondOwner` adds that every older bundle is settled as failed or
  deferred, hence not `Reportable`, and `RowsHaveEvents` that rows of future events are blank, so
  that a new event finds its rows unused. Lemmas show that each way a handler moves a row keeps
  the intermediate tables sound, and `TryCreateSound` that creating the next bundle keeps them so.
* **`SettledStaysSettled`**: under `IInv` every step respects settled bundles and rows
  (`SettledIsFinal`).
* **`InjectedIsNeverReplayed`**: `NoReplayAfterInjection`, for bridges that do not report
  "deferred" or "failed". The hypothesis is needed: the daemon reports the injection before the
  adapter resolves credentials, and a deferral after that hands the same event out again.
* **`NothingIsForgotten`** (`BusQueueProofs`): `NoForgottenWork`, which is inductive beside
  `TypeOK`. `TryCreateServes` states what `TryCreate` is for: after it, the endpoint it was called
  for keeps no queued row while it may take one; every handler that frees an endpoint or
  queues a row is then followed to its call of it. Hypotheses: "failed" is not among `Reports` (no
  bridge of the repository reports it; its handler queues the row again and does not try the
  endpoint), and "queued" not among `OperatorStatuses` (the daemon's and the app's functions that
  set a status are never called with it).
* **`RequestsAreAnsweredOnce`**: `RequestAnsweredOnce`, from `AnswerInv`: nobody waits on an event
  that does not exist, a result answers an event that does, and the property itself. Concluding a
  request takes its wait from pending to resolved in the step that stores the result, and only a
  pending wait is concluded.

### Daemon

* **`OneHandler`** (`BridgeDaemonProofs`): the two delivery paths never run two handlers for one
  endpoint, from the invariant `HandlersInv` (types of the daemon's variables the argument needs,
  and `OneHandlerPerEndpoint`).
* **`DaemonImplementsBus`**: `DaemonSpec => Spec`. The refinement mapping is the identity on the
  bus's variables; every step of the daemon is a step of `BusDelivery` or leaves the bus
  unchanged. **`DaemonCannotUnsettle`** carries `SettledIsFinal` over; the same step serves any
  property of `BusDelivery`.
* **`CancelledIsAlwaysDropped`**: `CancelledIsDropped` of every behaviour of the composed system.
  It is about what the daemon takes up, the failures it reports and the results it emits; that a
  delivery taken up before is still injected and run is the disagreement `BridgeCancel`.
* **`DaemonTypeCorrect`** (`BridgePromiseProofs`): `DaemonTypeOK`; messages, claims and answers
  name bundles that were made.
* **`PromiseIsKept`**: `DaemonSpec => KeepsPromise`, the refinement of `DeliveryPromise`. The
  invariant `WorkInv` says that a daemon that is down knows nothing, how often a row has run for
  each state it may be in (`RowsRunOnce`), and, for each phase of a handler (`TaskFits`), which
  state its bundle is in and how often its row has run; and that a copy of a delivery that is
  still on its way belongs to a fresh bundle or to a turn that goes on. From it each row's step is
  a step or a stutter of `DeliveryPromise`. Its hypotheses are exactly the cases in which TLC
  finds the promise broken:
  * "slow" is not among `Disturbances`: a daemon that outlives its lease runs its stale copy
    beside the new one, which a lease cannot exclude;
  * `Scopes = {}`: a Scope stopped after the daemon last looked at `cancelledDeliveries`
    (`BridgeCancel`) cancels a row whose turn then starts;
  * "unconfigured" is not among `Outcomes`: an endpoint that has lost its configuration defers a
    delivery after the injection was reported, and a copy of the deferred delivery that is still
    on its way starts the turn again, since the daemon does not read the answer to its report of
    the injection.

  The fourth, `{"injected_to_runtime", "dead_lettered"} \subseteq Reports`, says that the bus
  admits the reports the daemon makes.

### Workspace

* **`ScopesAreServed`, `ScopesTypeCorrect`** (`WorkspaceProofs`): `GraphIsWiredAndServed`.
  `ScopesInv` adds to the types and the wiring that a node that is served and not composed was
  registered from an outdated list (`LeftBehind`), and `ScanKnows`: unless an announcement is on
  its way, the stream is closed or an announcement was missed, a scan that rests has served every
  composed node, and one under way has served it or has it on its list, also while the count of
  edits is still the one at which it listed. Every edit that changes a graph breaks one of these
  conditions.
* **`AgendaStaysFaithful`, `FiringStaysFaithful`, `PulsesTypeCorrect`**: `AgendaIsFaithful` and
  `FiringIsFaithful`. In `PulsesInv`, `AheadOnAgenda` is the first part's inductive form; the
  count of what a subscriber heard needs `HeardOrAwaited`, which counts a slot that is on the
  agenda or that the firing under way has still to emit as heard already, and `FiringUnderWay`,
  that the subscribers a firing has passed heard it or could not be reached.
* **`AttachmentStaysTrue`, `AttachTypesHold`**: `AttachmentIsTrue`, with the exceptions it names:
  `stale` of the status, `overlap` of the hash, these and `dropped` of the actors.
  `UndisturbedInv` says what a
  job that nobody disturbed still finds as it read it (the row, the folder, the bindings of the
  actors it has passed), `RowInv` that the row has the status last reported or is attached, and
  that one which does not have the reported hash has a job on its
  way that will report, and `BoundInv` the same of an actor that was bound since it was told that
  it is not. The type of the row's hash needs `HashInv`: what the folder's configuration is
  numbered, with the applications asked for and not yet done, stays within the edits and calls
  made. Working this out strengthened the property: a report that failed is no exception to
  `ReportIsShown`.

### Migrations

* **`TablesAreWhole`, `StartsAreRepeatable`** (`ServiceProofs`): `ServedTablesAreWhole` and
  `StartEndsServing`. `MigrationInv` says how far the schema of each table is for every place a
  process may have reached (`SchemaMovesOn`), that no row has the reserved Scope
  (`NoReservedScope`), and, while nothing is torn, that a table is missing or has a copy only
  because one process is in the midst of its rebuild, with every row in one of the two
  (`RebuildIsAlone`).

### Other services

* **`CredentialsStayKept`, `CredentialTypesHold`** (`ServiceProofs`): `CredentialsAreKept`.
  Tokens are numbered as they are issued (`TokensAreIssued`), so that a granted one that is not
  saved yet is in no file and nobody else's (`HeldInv`); `CopiesInv` says of each of the four
  writers that what it has read is as it should be, but for the entries others changed since.
  `ListingInv` keeps the exchanges of the bus apart.
* **`SessionsStaySound`, `SessionTypesHold`**: the safety of `SessionIsSound`. `CallInv` says that
  the turn at hand has the session or lost it for good, `FinalizerInv` that what is being
  finalised is this turn, unrecorded and with the text it will keep, `ReturnedInv` that a turn
  returns only when it was completed so, `OverlayInv` that instructions remembered as injected are
  those last prompted, those in the prompt under way, or those of a turn that failed before it.
  `ChangesAreInjected` says no more than that a changed instruction is not left out: whether the
  agent still has what is left out is another matter (section 6).
* **`CommandAnswersAreTrue`, `CommandTypesHold`**: the safety of `CommandRunIsTrue`. `ToolInv`:
  nothing cuts the pipes of a tool, so that the close of its run is the end of its output;
  `OutputInv`: what is kept is what was read, until the limit.
* **`VersionsWakeOnce`, `WatchTypesHold`**: `WokenOnce`, which is inductive beside the types once
  the files and versions of the firings under way are.
* **`ExtensionsAnswerForThemselves`, `ExtensionTypesHold`**: the safety of `ExtensionsAreServed`.
  `ScanInv`: the port that is going to be reported is that of the workspace's own relay;
  `RequestInv`: a request forwarded by a right entry is on its way to that relay.
* **`ListingsOfferWhatIsServed`, `ListingTypesHold`**: the safety of `ModelsAreServed`.
  `UnderWay` follows a probe page by page: what the account was served all the while, up to the
  place reached, has been read, and nothing was read that it never was. `PagesAreWhole`, a lemma
  on the pages, rests on `NumbersHaveEnds` (a finite set of numbers has a least and a greatest
  one). `IsServed` and `IsKept` say what a listing that is over and an entry of the cache rest on.
* **`ServicesTypesHold`, `ServicesStayTrue`**: the same, of the composition. A behaviour of
  `ServicesSpec`, which the run checks, is a behaviour of each component but for fairness
  (`ServicesIsOfEach`), and no safety proof uses fairness. The first theorem leaves out the part
  "edits".

### Readers and actors' definitions

* **`ReadersMissNothing`** (`DesktopProofs`): `PagedReadersMissNothing`. What a page returns is
  described by its two ends (`PageHasEnds`, which needs that a nonempty finite set of places has a
  first and a last one; it is proved by well-foundedness of the strict subset relation).
  `PagesInv` and `BrowserSees` then follow each reader page by page. The theorem has no hypothesis
  on the limits; the property names the exception: a backward reader that asks for more than the
  bus returns and gets a full page is not offered the pages before it ("capped", section 6).
* **`DefinitionsStayTrue`, `DefinitionsTypeCorrect`**: `DefinitionsAreTrue`. `DefinitionsInv`
  relates the window's copy to the files (`WindowAndRows`), the file contents a removal under way
  keeps for putting them back (`RemovalsKeep`, `RestoredWillBeServed`), the endpoints that are
  active (`WokenAreListed`), and who sees to an actor that is listed and not yet served as defined
  (`ListedWillBeServed`): a scan under way that read its definition, one that is due or owed, or
  its removal.

### The desktop and its operators

* **`ConversationStaysTrue`, `ViewTypesHold`** (`DesktopProofs`): `ConversationIsTrue`.
  `NothingIsOutOfReach`, which needs no exception for loads under way, is inductive beside
  `LoadsInv` (only the first load starts from nothing, and an answer is the newest messages of
  some moment) and `EarlierInv` (the earlier page goes on at the cursor). `StreamInv` says that
  without failures the last message of the feed about a turn is what the bus does, `ComposerInv`
  that a text the view is sure about was taken exactly once or not yet.
* **`PresenceIsShown`, `HealthTypesHold`**: the safety of `HealthIsShown`. It needs
  `FailureStands`: after a failure the native monitor reported, nothing shows the services healthy
  before the window reaches a process again or a restart is begun.
* **`ListStaysTrue`, `ListTypesHold`**: the safety of `ListIsTrue`. `PagesAreWhole` says that the
  answer to the latest load, the list once it is applied, and an older page after it, hold every
  conversation down to their cursor as long as the window has heard of all activity
  (`StampsDiffer` makes the cursor a place); `PagesAreOfHome` and `ShownIsLoaded` which workspace
  they are of; `DraftInv` counts the Contexts made for a draft against the calls that failed, and
  `OwnContextInv` that the reference is the draft's own unless it was left meanwhile. The proof
  showed that an interruption is no excuse for a second Context, and the property says so now. A
  switch of the workspace does not supersede the first page in flight: until the endpoints of the
  new workspace arrive it still counts, and the list it leaves is `astray` until that workspace's
  own first page is there.
* **`ContextsStaySound`, `ContextTypesHold`** (`OperatorProofs`): `ContextsAreSound`. That a
  Context is not among its own ancestors is proved with sets closed under parents: `Ancestors` is
  the least such set, and `ParentsInv` gives, for each Context, one that holds its parent and not
  the Context (`Apart`); an id is never given out twice, so a new Context is nobody's ancestor.
  The walk of the code gives up after 100 parents; chains are taken to be shorter. `EventsInv`
  says that a Context that is gone has no participants, and that events and rows in being are of
  Contexts and events in being. That a turn keeps its delivery has the exception of a client's
  call that clears, compacts or deletes its Context.
* **`SignInStaysTrue`, `SignInTypesHold`**: `SignInIsTrue`. `GuardsInv` says which guards a
  command holds at each stage, `FlagInv` that the flag is up exactly for the one command under
  way, and that the slot holds its helper and no other lives; `WrittenInv` what is stored of a
  provider as far as its helper got.
* **`ServicesStayControlled`, `ControlTypesHold`**: `ServicesAreControlled`. `RecordsInv` relates
  services.json, and every copy of it a command works on, to the processes; `QuietInv` says that a
  command called quiet is the only one; `TruthInv` that what such a command has to start is ahead
  of it or serves. What a quiet reset wipes is in use by no process but one whose record was lost,
  or one it has just told to end, for which nothing waits (section 6). The exception `deceived`
  came out of the proof: a record left by an earlier stale write may name a process of a service
  without a probe that is about to end, and the command then counts the service as started
  (`TellsTheTruth`).
* **`BindingStaysTrue`, `BindingTypesHold`**: `BindingIsTrue`. `ViewsInv` says that one view is
  open and which saves are its own, `StoredInv` that what the control has read or saved is stored,
  `FormInv` that an undisturbed inspector shows the stored binding, or waits for exactly one load
  or save that will. Clicks and new names of the actor while a request is under way disturb it,
  and so do failed requests and late saves of earlier views. What a turn runs on follows from the
  types: every stored binding has a model of its profile's provider.
* **`DesktopTypesHold`, `DesktopStaysTrue`**: the same, of the composition `DesktopSpec`, by
  `DesktopIsOfEach`. Here no part is left out.

### Only model-checked

* All liveness: `EveryRowSettles`, `RequestsEndUnlessDropped`, `EverySlotIsFired`,
  `ComposedIsServed`, `RegisteredIsReported`, `ArrivalsAreFired` and `ExtensionsAreServed` (their
  recurrence), `NewestAppears`, and the liveness conjuncts of `SessionIsSound`,
  `CommandRunIsTrue`, `ModelsAreServed`, `HealthIsShown` and `ListIsTrue`. Fairness and ENABLED
  are out of the prover's reach.
* `EditsAreExact`, and the type of the edited file: both speak of a text after all replacements of
  a call, which a fold over the calls' edits computes, and would need induction over data.

Every other property of a passing run is proved, those with hypotheses under them.

## 5. Plan

1. *Done*: the delivery core, the daemon, `DeliveryPromise` and its refinement, checked and
   proved; the twenty modules around them, checked, and the safety of all but `FileEdits` proved,
   by component and of the two compositions.
2. Next proof: `EditsAreExact`, with the replacements of a call as a recursive function whose
   existence and type are proved first.
3. `BusCrash`: `BusDelivery` with the statements outside a transaction as steps of their own and
   crashes between them. Three hazards have no property yet and wait for it or for a scan with
   claims (`store.ts:3142`, `daemon.ts:932`, `daemon.ts:832`).

## 6. Notes from the modelling

What was met while reading the code beside the models. Where a property excuses it, a history
variable says when; where a part is left out, it says why.

**Delivery.** The webhook receipt hook with its deduplication (`daemon.ts` 277-307) is not
modelled.

**Pulses.** A pulse more than 2^31 ms ahead fires at once (`pulse-scheduler.ts:61`); if nobody is
subscribed it stays active, unfired, until a restart. Every attach scan registers the declared
pulses again, so that paused ones and one-offs that were completed become active again, although
only definitions are meant to live in floe.yaml (docs/adr/0001-pulse-scheduled-event-delivery.md,
docs/architecture/overview.md:143-144), and duplicate entries are appended. `create_pulse` with
workspace persistence writes the text under `event.content` (`pulse-tools.ts` 163-187) while
`loadProject` reads `content` (`project.ts` 201-210): the next scan registers the pulse without
its content. Contents are not modelled.

**Scopes.** `updateScope` only renames. Layout is left out.

**Contexts.** Clearing and compacting are meant to be refused while a delivery is in progress
("Must NOT be called while a delivery is `active`", `contexts/store.ts:446-447`, and the 409 the
routes answer), but the routes look for the bundle state `active` (`server.ts` 1567-1572,
1584-1589), which no bundle ever has: the delivery of a running turn can be taken away, as it can
by deleting its Context (`TurnsKeepTheirDelivery` names it). `context.delete` also refuses while
responses are pending, which is left to `BusDelivery`. A page of `context_history` over 16 000
characters is cut and loses its `next_cursor`.

**Migrations.** `backfillEventScopeId` (`store.ts:725`) rewrites the Scope of every historical
event from its Context at every start;
docs/implementation-reviews/issue-47-context-scope-assignment-architecture-integration.md (lines
73, 155, 170) recommends that historical events keep theirs.

**Attachment and bindings.** A saved configuration that is missing is reported as
`config_apply_failed`; that the bus is asked for the saved configurations after it was asked for
the workspaces is one step. A workspace registered again after a deletion is not reported on if
the outcome is the one `reportOnce` remembers, and a registration or a change of a binding during
a scan starts none; what jobs that overlap leave is put right by the next scan alone. The
inspector loads again whenever the actor gets another name, without a number. The slot `Host`
stands for `global_default` and the default profile of the configuration.

**Credentials.** One write of a file is atomic; keys from the environment are not modelled.

**Sessions.** A failed post of telemetry fails the turn while its agent goes on, also after the
result was recorded. The baseline is updated before the prompt succeeds, and a cleared history is
missed when a new registry has no handlers. docs/guide/concepts/hook.md:40-41 says that injected
content is already in the model's running context, and `injection-baseline.ts:12-13` that clearing
or compacting the history is what calls for another injection, while `session.agent.reset`
precedes every delivery (`pi-agent-core-adapter.ts:280`): instructions that are left out because
they were prompted before are not before the model any more. `ChangesAreInjected` therefore speaks
of what was prompted last and not of what the agent has. The work log and the Copilot protocol are
not modelled.

**Watcher.** A file that arrives while nobody watches is never observed. The idempotency key per
subscriber makes a repeated observation harmless.

**Extensions.** The bus never withdraws a registry entry (`daemon.ts` 638-650), and changed code
is not imported again. docs/followup-extension-self-install.md (lines 28, 36) speaks of a
reconciliation every 30 s that does not exist.

**Edits.** One fuzzy edit rewrites the whole file plainly, and mixed line endings become the first
one's. Occurrences are counted in plain writing, also for a text that was found as it is written:
one with white space at its end can be refused though it is there once. Fuzzy matching trims the
end of a text that ends within a line, so that the white space found after it stays. A text of
white space only is put in front of a file it is not in, if that has at most two characters, and
refused in a longer one. A text that overlaps itself is accepted as unique, although the tool's
description says "must be unique" (`edit.ts` 32, 40). Byte order marks, diffs and path scoping
are not modelled.

**Commands.** `run_command` ignores the abort signal, and its timeout does not bound the call
while a descendant holds the pipes; a node's command that handles its SIGTERM and exits with 0
passes; a node's output is cut at 4000 characters without saying so. Node's `exec`, the operating
system and taskkill of Windows are external; substitution of placeholders and declared outputs are
left out.

**Model listing.** The timeout covers the fetch and not `res.json()`, although "All failure modes
MUST fail-open" (`live-model-probe.ts:4`); the cache key is a prefix of the token, although
results are "cached per provider+credential" (line 214); every page has a timeout of its own. An
answer that says there is more and gives no place to go on from would be asked for again for ever
(not modelled).

**Desktop.** Loads of `App.tsx` are not numbered, and a late answer of a workspace left may be
shown under the next (not modelled: neither are answers of `listEndpoints` that overtake one
another over two switches of the workspace). `GET /v1/events` decides whether there is an earlier
page by comparing the number of events with the limit of the request (`server.ts:1145`), while
`listEvents` cuts this limit to 500: a reader that asks for more gets 500 events and no
`previous_cursor`, against the comment at `server.ts:1137` and
`docs/guide/terminal/bus-api.md:160`. The callers in the repository ask for 50. `NewActorForm`
does not list the actor in floe.yaml, so that it is never registered, though the window says it
takes about 30 s; an inspector's save asks for no scan. `create_actor` and `update_actor` write
`label` where `loadProject` reads `name`. Hand edits of the files are not modelled. A sign-in that
breaks off between credential and profile shows its provider as connected, and a workspace can
then be bound to a profile that is missing; a card stays loading if `initialProviders` arrives
during its own load (`ProviderAccess.tsx` 27-42); a late `onReady` of a closed card closes the one
opened since (`WorkspaceSettings.tsx` 294-297); nothing but the end of the helper or of the app
ends a sign-in. Graph canvas, file browser, layout and rendering are not modelled.

**CLI.** `reset` stops the services "before wiping their databases" but waits for no exit, and with
`--yes` it asks nobody in between (`cli.ts` 351-383): the data is wiped under processes that are
still ending. Two terminals lose each other's record in services.json; starting the bus is skipped
while an ending one still answers `/health`; `setup --repair` and `reset` forget records of
processes that live; the bridge has no probe, so that a start counts one that is just ending as
running. Interrupting a command, reuse of process ids, partial writes of services.json and the app
as a service are not modelled.

## Running

    tlc -workers 2 -config Bridge.cfg MCBridgeDaemon     # likewise for the other runs
    tlapm BusDeliveryProofs.tla                          # likewise for the other proof modules
