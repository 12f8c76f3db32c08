# FrameKit: a TLA+ verification project

FrameKit is a C++ runtime framework: a host kernel that starts and stops modules
on top of a service context, an event bus, an execution service, a supervisor for
child processes, and a frame loop with platform and input hosts. This directory
models its core, checks it with TLC on small instances and proves the central
results with TLAPS for every instance.

Paths below are relative to the repository (`src/kernel_runtime.cpp`,
`docs/lifecycle-semantics.md`); `PROJECT.json` maps every definition to its lines.

## 1. Inventory

| Component | State it keeps | Operations | Hard because |
|---|---|---|---|
| Lifecycle state machine | current state, history | `TransitionTo`, `CanTransitionTo` | refused transitions are easily ignored by callers |
| Module graph | none (a function) | `ValidateModuleGraph` | counters, ties, cycles, missing optional dependencies |
| Service context | phase, entries, sequence counter | `Register`, `Freeze`, `BeginTeardown`, `ResetForNextStartCycle`, `Find` | phases over several start cycles, replacement, ordering of the teardown |
| Kernel runtime | lifecycle, services, started modules, callbacks | `Start`, `Stop`, `ConfigureModules`, setters | long sequences of callbacks, each may fail or call the kernel again |
| Event bus | handler table, three deferred queues, limits | `Subscribe`, `Unsubscribe`, `EnqueueDeferred`, `DrainDeferred`, `DiscardDeferred`, `DispatchImmediate` | handlers run outside the mutex, nest, throw |
| Multiprocess runtime | children, handshakes, heartbeats, budgets, channel | `Start`, `Tick`, `Stop`, `RestartChild`, `GracefulStopChild`, reports | partial launches, refusals of the launcher, crashes, late reports |
| Inline execution service | queue, results, metrics, shutdown flag | `SubmitTask`, `Cancel`, `Drain`, `BeginShutdown` | tasks run outside the mutex, nest, several threads drain |
| Execution service registry | phase, entries, last shutdown order | `Register`, `Freeze`, `BeginShutdown`, `ResetForNextStartCycle`, `Find` | shuts services down after releasing the mutex |
| Loop policy and stage graph | policy, active stages, accumulator, frame counters | `ValidateLoopPolicy`, `Configure`, `ExecuteFrame` | 64-bit accumulator and 32-bit step counts, four overrun modes |
| Fault policy | a counter per fault class | `Configure`, `Evaluate`, `Reset` | escalation over long runs, restarts included |
| Platform host | hosts, flags for platform, window, running, frame | `Configure`, `Start`, `Tick`, `Stop`, setters | partial failure of start and stop, calls back from inside a frame |
| Input routing | raw and normalised queues, handler lists, focus, capture | `EnqueueRawInput`, `NormalizePending`, `DispatchImmediate`, `DiscardPending`, (un)subscribe | live iteration, handlers that throw, an event that cannot be normalised |
| Dynamic loader | none (decision functions) | load and unload decisions, rollback plan, manifest check | must agree with the module graph |

Interactions: the kernel owns a service context and a lifecycle, calls
`ValidateModuleGraph` in `ConfigureModules`, and drains or discards the event bus
in `Stop`. The platform host owns a loop runner, a fault policy and an input
runtime. The multiprocess runtime uses a launcher and a transport factory supplied
by the application. Everything else is callbacks into application code.

What makes each modelled component correct is stated by its properties (section
4); the list of hazards, each at its line, is in `PROJECT.json`.

## 2. Modules

| Module | Models | Notes |
|---|---|---|
| `Lifecycle` | transition table, `KernelRuntime::Fault` | stateless operators |
| `ModuleGraphOps` | the operators of `ValidateModuleGraph` | ids are naturals, ordered as the code orders strings; 0 is the empty string |
| `ModuleGraph` | the function as a computation, one step per loop iteration | |
| `ModuleGraphProofs` | theorems about `ModuleGraph` and the decisions of `DynamicLoader` | over `MCModuleGraph`, which states the properties of both |
| `ServiceContext` | the service context | operations are atomic: they hold the mutex |
| `Kernel` | `KernelRuntime`, composing `Lifecycle`, `ModuleGraphOps` and `ServiceContext` | holds the refinement mapping to `HostContract` |
| `HostContract` | the abstract promise of the host to its modules | |
| `KernelProofs` | theorems about `Kernel` | |
| `Subsequences` | the members of a sequence at some positions, or with some values, in order | what erasing from a vector leaves |
| `OperatorLemmas` | lemmas about the operators: sequences and `Subsequences`, and what `ValidateModuleGraph` returns | used by all the proofs |
| `EventBus` | the event bus on several threads | |
| `EventBusProofs` | theorems about `EventBus` | |
| `Multiprocess` | the supervisor, an external launcher and the child processes | |
| `MultiprocessProofs` | theorems about `Multiprocess` | |
| `ExecutionService` | `InlineExecutionService` on several threads | |
| `ExecutionRegistry` | the registry, composing `ServiceContext` and `ExecutionService` | the registry repeats the service context's phases, entries and order |
| `ExecutionProofs` | theorems about both | over `MCExecution`, which states their joint properties |
| `DynamicLoader` | the decision functions of the dynamic loader | over the module records of `ModuleGraphOps` |
| `Loop` | `ValidateLoopPolicy`, `LoopStageGraphRunner` | words are 0..`Max32` and 0..`Max64` |
| `FaultPolicy` | `FaultPolicyRuntime`, with the policy of `Loop` | |
| `PlatformHost` | `PlatformHostRuntime`, composing `Loop` and `FaultPolicy` with external hosts | |
| `PlatformHostProofs` | theorems about `Loop`, `FaultPolicy` and `PlatformHost` | over `MCPlatformHost`, with its history variables |
| `InputRouting` | `InputRouter`, `InputRoutingRuntime` | |
| `InputRoutingProofs` | theorems about `InputRouting` | over `MCInputRouting`, with its history variables |
| `MC*` | instances for TLC, with the history variables and properties that need them | |

Definitions called *wrong version of X* next to a definition X describe a
plausible mistake in the code behind X. No specification uses them: each shows, by
taking X's place, that some property really depends on X.

### How state and actions correspond to the code

**ModuleGraph.** `Reject`/`Prepare` are the two declaration passes, `Emit` one
iteration of the `while (!ready.empty())` loop, `Finish` the check after it.
`ConfigureModules` runs the same operators in one step through
`ValidateModuleGraph`; `FunctionAgrees` says that both compute the same.

**ServiceContext.** A key stands for the pair (contract type, key string), an entry
for its ownership and sequence number. `BeginTeardown` chooses the order that the
sort by descending sequence number leaves.

**Kernel.** The class is single threaded. `start` and `stop` are the program
counters of a `Start` and of a `Stop` call; a step is the return of one callback
with all the code up to the next callback. While a callback is pending, client code
may register services, enqueue events and, where the constant `ReentrantStop` says
so, call `Stop`. `active` is a history variable: the modules told to start and not
told to stop since. `hooks` is the installed set of callbacks, `deferred` the
number of events in the bus (the bus itself is `EventBus`).

Assumptions about the client: it uses `ConfigureModules` or `RecordStartedModules`,
not both, and configures between calls; it does not call `Start` from a callback,
nor `Stop` twice inside the callbacks of `Stop` (the second one would be accepted
from `Faulted` and clear the vector the outer loop walks: undefined behaviour).
Callbacks return; they do not throw. A diagnostics flush step is installed. The
`last_*` vectors and the lifecycle history are reports and are left out.

**EventBus.** A thread is the stack of its `DispatchImmediate` and `DrainDeferred`
calls. Operations under the mutex are one step; the dispatch of one event is
`BeginDispatch` (the handlers are copied), `NextHandler`, what the handler does,
`HandlerReturns` or `HandlerThrows`, `EndDispatch`. The `while` loop of `DrainDeferred`
visits the classes in turn; `Visits` numbers the visits that find an event, `EventAt` is
what such a visit pops, and the first `max_events` of them are the batch (`Popped`). Handler ids and handler sequence
numbers advance together, so one counter stands for both. A refused enqueue under
the fail-fast and backpressure policies changes no state and is a stuttering step.

**Multiprocess.** `Start`, `Tick` and `Stop` are sequences of steps, one per child;
`op` is the operation in progress. The launcher may refuse every call and never
hands out a process id twice. Children crash and send heartbeats at any time;
reports may arrive late. The liveness policy is the default one. Hook, supervisor
and launcher callbacks do not call the runtime. Error texts are left out. Launcher
and factory may be set at any time and are not removed.

**ExecutionService.** A thread is the stack of its `Drain` calls. A drain takes the
queue in one step; each task has a step in which it is recorded as running and
called, and one in which its outcome is recorded.

**ExecutionRegistry.** `BeginRegistryShutdown` is the part of `BeginShutdown` under the
mutex; `shutdown[t]` is the rest of that call on thread t, one step `ShutdownNext` per
service (`BeginShutdown` and `AwaitShutdown`) with any outcome for external services and
the real operation for the inline one. Other threads use registry and services in
between. A service is registered once. `released` (history) are services whose entry was
replaced or cleared: the code drops them without a shutdown.

**Loop, FaultPolicy, PlatformHost.** `Tick` is the timing decision of `ExecuteFrame`,
`BeginStage` the stages up to the next one with a handler and that handler's call,
`Return` the callee's answer. Between the two the callee may set hosts, stop and start
the runtime; it does not call `Configure`, `Tick` or `SetInputRuntime` (the first two
replace or restart what is executing) and does not throw. `live` is what the external
hosts themselves hold. `elapsed` is any clock difference, zero included (which the code
takes for one delta). `policy_` of the three classes is one variable because a
successful `Configure` sets all three and nothing else does. Error texts are left out,
and so are the reasons of fault decisions.

**InputRouting.** An event is its device and window id, the attributes routing reads;
the other fields are copied by the passthrough normaliser. A text event is a keyboard
event. `current` and `walk` are the iterators of `DispatchImmediate` and
`RouteHandlers`. While a handler runs it may do everything except normalise, dispatch or
discard, or change the list that is being walked: the code iterates over those vectors
in place. The host calls its own normaliser: `strict` stands for any that refuses some
events.

**DynamicLoader.** Pure functions; a decision is its refusal reason.

## 3. Order of the work

Done: module graph, service context, lifecycle, kernel with its contract, event bus,
multiprocess runtime, execution service and registry, loop, fault policy, platform host,
input routing, dynamic loader decisions; proofs of the safety invariants of all of them, of
the action properties of the kernel and of the registry, and of the refinement of
`HostContract`. What is left to TLC is in section 6.

Left open: a `Stop` called from a callback of `Start`. The theorems about `Kernel`, types aside,
exclude it, and the run `kernel_stop_during_start` shows what it does.

## 4. What the runs check

Bounds are constants of the cfg files and are named in the modules.

| Run | Instance | Shows |
|---|---|---|
| `module_graph` | all graphs of required and optional edges on three modules in two declaration orders, all graphs of required edges on four, all malformed lists of up to two modules with up to two dependency entries | declaration verdict, cycle verdict and orders are exact; the base order is the smallest; every load in startup order can be rolled back from any module; manifest check and graph validation agree |
| `kernel` | three modules in three configurations, four set-ups of callbacks, two start cycles, `Stop` inside the callbacks of `Stop` | no module is forgotten, modules run on frozen services, Stopped is clean, Running is ready, a restart after Stop works |
| `kernel_contract` | the same for configured modules only, with fairness | `Kernel` implements `HostContract`; `Start` and `Stop` return |
| `event_bus` | two threads; with one handler: calls nested up to two deep, two deferred events, capacities 1 and 2; with up to three handlers: immediate dispatch, not nested (`Focus`) | every event is in exactly one place; FIFO per class as long as drains do not overlap; monitors only observe; handlers run in registration order |
| `multiprocess` | a single-process application, and one with a primary, a restarted and a not restarted child and a transport; three process ids; with fairness | children tracked, no process forgotten, budget respected, no channel leaks, a silent child does not stay silent with budget left |
| `execution` | two threads, two keys, the inline service and two external ones, one freeze; tasks, counted rejections and registrations at most three together; drains nested up to three deep; with fairness | metrics are exact, tasks run at most once, no service is forgotten or shut down twice, shutdown order reverses registration, shutdown settles every task |
| `platform_host` | words of 2 and 4 bits, eight policies (one refused), elapsed 0, 1, 5 and the largest word, one platform and one window host, Cocoa hosts created on demand; with fairness | time is conserved, frames are well formed, a refused frame is never followed by a slip, degrading is bounded, no host leaks, cleanups complete |
| `input_routing` | two windows, three kinds of input, two events, two subscriptions, one throw; with fairness | events pass in order and none is lost, routing follows target and consumption, every event is settled unless the normaliser refuses |

Why the bounds are enough: three modules give chains, forks, two-cycles and
three-cycles, ties and missing optional dependencies, and four a diamond; two start
cycles let a later cycle meet everything an earlier one left; two threads and nesting
depth two give every pairwise interleaving of batches; three process ids give a child,
its replacement and a late report about the first. Of a registration and two others,
each can be a task, a rejection or a second and third service, so that tasks meet a
shutdown and replaced or failing services meet a reset. Words of two and four bits
make the catch-up limit, the step count, the fault counters and the accumulator reach and
pass their largest value within a few frames; after a counter has wrapped or a live host
was swapped, no new frame begins, because nothing more is claimed of it (`TicksBounded`).
Two events and two handlers give one event settled before and one after any other step.

Deadlock checking is off where the system may stop: `ValidateModuleGraph` returns.

### Runs that end in a violation

Each checks one sentence of a document or of a test against the code.

| Run | Statement | What the code does |
|---|---|---|
| `kernel_stop_during_start` | docs/lifecycle-semantics.md:25, :55: a stop during init leads through Stopping; Stopped means complete | a `Stop` in a callback of `Start` reaches Stopped, then `Start` continues, freezes the services and starts modules |
| `kernel_restart` | docs/lifecycle-semantics.md:29: Bootstrapping is a recovery path from Faulted | the services of the failed cycle are not reset, so bootstrap or freeze fails again |
| `event_bus_priority` | docs/event-input-semantics.md:40: higher classes drain first | one event of each class per round |
| `multiprocess_restart` | tests/test_contracts.cpp:290: one handshake per child | the old entry survives a restart, because `old_identity` refers to the overwritten element |

Further disagreements and surprises were met while modelling and have no run of their own:

- docs/lifecycle-semantics.md:44 says that Stopping ends registrations. After a start
  that failed before the freeze, the context stays open until the teardown of the
  services, so callbacks of `Stop` can still register.
- docs/service-context-contract-freeze.md:89 promises release in reverse registration
  order. The order is recorded; the instances are released in the order of the hash
  table.
- docs/event-input-semantics.md:42 and :53 ask for FIFO also under re-entrancy. A drain
  inside a handler overtakes the batch its caller holds; hence `DeliveryIsFifo` speaks of
  behaviours in which no two drains overlapped.
- docs/overview.md:8 speaks of state retention after a failed rollback. The next `Start`
  clears the retained children (`LaunchChildren`, src/multiprocess_runtime.cpp:215).
- docs/loop-stage-graph-profiles.md guarantees the update stages of a frame. With the
  largest `max_catch_up_steps` the sum `1 + max_catch_up_steps` wraps to 0 and an overrun
  frame runs none (src/loop_stage_graph.cpp:189). `FrameIsWellFormed` names the case. A step
  count above 32 bits is cut and its time lost; `TimeIsConserved` stops there.
- A frame with less than one delta accumulated still runs one update
  (src/loop_stage_graph.cpp:173), so updates outrun the clock at high frame rates.
- A fail-fast overrun keeps its time in the accumulator: every later frame is refused too,
  after `Stop` and `Start` as well, until `Configure` (`FailFastNeverSlips`). It does not pass
  through the fault policy, and `LastExecutedStages` keeps the frame before.
- docs/error-policy-matrix.md lets a fail-fast fault begin a controlled shutdown. `Tick`
  returns false and the runtime stays running.
- The fault counters are 32-bit words that wrap: after that many faults a class degrades
  again. Faults that failed at once spend the budget of those that may degrade.
- A host replaced while it is up is not torn down by the runtime: `Stop` clears the platform
  flag without a call when no host is set, and keeps the window flag. `NoHostLeaks` is
  stated for clients that do not swap live hosts.
- docs/event-input-semantics.md:53 asks that re-entrant dispatch does not corrupt the queue.
  The event bus copies; `InputRoutingRuntime` and `InputRouter` iterate in place. A handler
  that throws leaves its events queued and those routed before it are routed again.
- `ExecutionServiceRegistry::BeginShutdown` returns true to a second caller while the first
  is still shutting services down; a replaced or reset service is dropped without a shutdown.
- A manifest with an empty optional dependency id is refused, the module graph ignores it.

### Fairness

- `ModuleGraph`: weak fairness of the next step, the function runs to its end.
- `Kernel`: weak fairness of the steps of a `Start` and of a `Stop` in progress:
  every callback returns. Nothing makes the client call `Start` or `Stop`.
- `Multiprocess`: the host calls `Tick` again and again (that is how the runtime is
  meant to be driven) and the launcher answers. No luck is assumed: it may refuse. The
  supervisor of that run is the default one, which allows every restart.
- `MCExecution`: the loops of `Drain` and of the registry's shutdown go on (weak); a task
  ends (strong, because drains it calls suspend it repeatedly).
- `MCPlatformHost`: a frame in progress goes on. A client with a cleanup pending keeps
  calling `Stop`, as the code asks of it (`cleanup is required before restart`), and each
  teardown succeeds now and then, not necessarily in the same call.
- `MCInputRouting`: the frames keep normalising and dispatching, which is what the platform
  host's stages do, and handlers return (one call may throw).

## 5. What is proved

Each theorem holds for every value of the constants allowed by the named assumptions of
the modules, which TLC evaluates for the instances it checks. Where a proof needs more, the
theorem has a hypothesis, and it is given below.

`ModuleGraphProofs`, for every set of module lists:

- `IndegreeIsAlwaysExact`, `BaseOrderIsConsumersFirst`, `CycleVerdictIsAlwaysExact`.
  `KahnInvariant` says that the counters are the numbers of consumers not emitted yet,
  that `ready` is exactly the unemitted modules with count 0, and that an emitted
  module's consumers were emitted before it. With it, a loop that ends with modules left
  over has a nonempty set of modules each of which has a consumer in the set, that is, a
  cycle; conversely the first emitted member of such a set would have an unemitted consumer.
- `BaseOrderIsAlwaysSmallest`. `GreedyOrder` says that each emitted module was the smallest
  of those whose consumers had all been emitted. If some other order came first, the place
  where it first differs would hold a smaller module that was free as well.
- `DeclarationVerdictIsAlwaysExact`, `StartupOrderIsAlwaysDependencyFirst` and
  `GraphTypeCorrect`. `PhaseInvariant` carries over what the declaration passes established:
  the verdict, and that the edges are those of the list.
- `FunctionAlwaysAgrees`: for every module list the function that `Kernel` calls in one step,
  `ValidateModuleGraph`, returns what the step-by-step computation returns. `KahnInvariant`
  holds `IsReached` for it: the state of the loop after n modules is the n-th state of the
  recursive function. The proof is an induction over data. It is written over sets of numbers
  (`InductionUpTo`: a set that holds 0 and is closed under successor below n holds 0..n, for
  otherwise there is a least number outside), and begins by showing that the recursive
  definition defines a function (`RunExists`: the runs of length n, extended by one round).
- `ManifestsAlwaysAgreeWithGraph`, `RollbackAlwaysUndoesLoad`: consequences for the dynamic
  loader. A suffix of the startup order, reversed, never unloads a module before its
  dependents.

`KernelProofs`, for every set of modules, configurations, set-ups, keys and bounds:

- `KernelTypeCorrect`, nested `Stop` calls of any kind included; it contains the
  bounds of the indices of the module loops.
- `NoModuleIsForgotten`, `ModulesAlwaysRunOnFrozenServices`, `StoppedIsAlwaysClean`,
  under the hypothesis that no callback of `Start` calls `Stop`. The run
  `kernel_stop_during_start` shows that the hypothesis is needed.
  None of the three is inductive. The invariant is `TypeOK` with `ControlInvariant`
  (which lifecycle states and service phases each control point can meet) and
  `ModuleInvariant` (the active modules are among those the shutdown loop has still
  to visit). `ControlInvariant` gives the phase at each step of the module loops,
  `ModuleInvariant` the emptiness of `active` when services are torn down, and
  `Freeze`, which demands an open context, is what keeps a restart from `Faulted`
  from clearing the list of modules that are still active.
- `RunningIsAlwaysReady`, under the same hypothesis. `DefaultsInvariant` adds that the default
  services, once `Start` has registered them, stay registered while its callbacks run.
- `StartAlwaysSucceedsUnlessClientFails`, under the same hypothesis and the one that the
  client does not register the default services itself (registering one of them twice is an
  error of the client). `CycleInvariant` adds what `Stop` leaves for the next cycle: in
  `Stopped` no default service is registered, and the context is open until it is frozen.
- `KernelImplementsContract`, for configured modules (`RecordedOrders = {}`) and under the
  hypothesis that no callback of `Start` calls `Stop`. The refinement keeps the active
  modules and maps the lifecycle state to the host's, except that the host counts as Stopping
  until a `Stop` in progress returns: a callback of `Stop` that calls `Stop` is refused and moves
  `lifecycle_` to Faulted, while the shutdown around it goes on. `ContractInvariant` says that
  the active modules are exactly the part of the list of started modules that the shutdown
  loop has still to stop, and that the list has each module once, after the modules it
  requires. `DependenciesAreAlwaysActive` follows.

Nothing is assumed of `ValidateModuleGraph`. The lemma `ConfigurationFacts` derives what the
kernel relies on (a startup order holds configured ids; a valid one has no duplicates and
lists modules after their required dependencies) from the lemmas `ResultType` and
`StartupOrder` of `OperatorLemmas`, which hold for every module list. What the assumptions of
`Kernel` say is the type of its parameters.

`MultiprocessProofs`, for every topology, every answer of launcher and supervisor and every
budget:

- `MultiprocessTypeCorrect`, `ChildrenAreAlwaysTracked`, `ChannelsNeverLeak` follow from
  `TrackingInvariant`. It adds to the properties what an operation in progress relies on:
  the process ids of the lists it walks are distinct and older than the next one, and a
  rollback or a stop owns the children that it has taken from the record.
- `RestartBudgetAlwaysRespected` is inductive given the types.
- `NoProcessIsForgotten`, under the hypothesis `RestartWhenStopped = FALSE`: the host calls
  `RestartChild` only while the runtime runs. After a failed start the children that could
  not be stopped stay recorded, and a restart of one of them would launch a process for a
  runtime that is not running, which the next start forgets. `StoppingInvariant` says that what a rollback or a stop
  has still to visit, with what the launcher refused, is all that is alive.

`PlatformHostProofs`, for every word size, policy, clock and set of hosts (the sets of
platform and of window hosts are disjoint: `HostsAssumption`):

- `HostTypeCorrect`, `EveryFrameIsWellFormed`. `FrameInvariant` describes a frame in the
  middle: the stages executed and still to run are together the plan of the frame, which
  the policy, the active stages and the step count fix when the frame begins. The words
  never exceed `Max32` and `Max64`.
- `TimeIsAlwaysConserved`, `RefusedFramesStayRefused`. `TimeInvariant` adds `OverrunState`:
  a refused frame leaves at least two deltas in the accumulator, and the policy that refused
  it. The arithmetic of one frame (quotient, remainder, catch-up limit, wrap) is in lemmas
  of its own.
- `DegradeIsAlwaysBounded`. Until a counter wraps, the faults of a class that degraded are
  at most its counter.
- `HostsNeverLeak`. While no live host was swapped, the hosts that are up are those the
  flags name, and a running runtime has those that its stages need.

`ExecutionProofs`, for any number of threads, tasks, nested drains, keys and services:

- `ServiceTypeCorrect`, `MetricsAlwaysAddUp`, `NoTaskRunsTwice`. `ServiceInvariant` says that a
  task id occurs once, in the queue or in the batch of one drain on one thread's stack, and
  that its recorded state says which; only the first task of a batch may be running. What is
  in neither place is final. The counts of the metrics follow the sets of ids with each state.
- `NoServiceIsForgotten`. `RegistryInvariant` adds the same for services: an entry, one
  shutdown call that has still to come to it, or `stopped` or `released`.
- `TeardownAlwaysReversesRegistration`, about `MCSpec` with any bound on the work, because the
  log of first registrations belongs to `MCExecution`. `LogInvariant`: until a shutdown begins, the
  log lists the registered keys and their sequence numbers grow along it. So no two entries
  share a number, and sorting by number has one result.
- `CheckedSpecIsRegistry`: the specification of the run `execution` implies `RegistrySpec`,
  which the theorems are about and which has neither the run's joint bound nor fairness.

`EventBusProofs`, for any number of threads, handlers, events, limits and nested calls. The
theorems are about `Spec`; the run `event_bus` checks the part of it that `Focus` selects.

- `BusTypeCorrect`, `MonitorsAlwaysOnlyObserve`, `HandlersAlwaysInOrder`. `CallState` describes
  the locals of every `DispatchImmediate` in progress, further down the stack too: which
  flag holds the consume state while a monitor runs, and that the copied handlers left come
  in order of registration after the one running.
- `EveryEventAlwaysAccountedFor`. `Account` says that each number below `next_sequence` has a
  place and that no two places hold the same one, for each pair of kinds of places. The
  lemmas on `Popped` and `Remaining` show that a drain moves events and neither copies nor
  drops one, whatever the limit cuts.
- `DeliveryIsAlwaysFifo`. `FifoState`: before drains overlapped, one call at most holds deferred
  events, and within a class those dispatched precede those held, which precede those queued.

`InputRoutingProofs`, for any inputs, windows, handlers and number of events (no window is
the global list or the missing one: `WindowsAssumption`):

- `InputAlwaysPassesInOrder`, `RoutingAlwaysFollowsTarget`. Of `InputInvariant`, `QueueState`
  describes settled, normalised and raw events as one line ordered by arrival, and what a
  throw leaves to be repeated; `TrailState` relates the calls made for the event being routed
  to the list and index of the iterator. As in the run, at most one handler call throws and
  the router's settings stay as they are afterwards.

Every invariant and every action property that a passing run checks is proved, and so is the
refinement.

## 6. Model-checked only, and not modelled

Checked by TLC on the instances above and not proved:

- liveness under fairness, which is out of the prover's reach.

What the theorems exclude by a hypothesis is listed with them in section 5.

Not modelled:

- callbacks, hosts and normalisers that throw (handlers of the event bus and of input
  routing, and tasks, do throw in the model);
- calls the code leaves undefined: a second `Stop` nested in `Stop` of the kernel,
  `Configure` or `Tick` inside a frame, a handler that changes the input list being walked;
- stage handlers other than the platform host's, and the split of update and render over
  threads (`ThreadingMode` is stored and never read);
- liveness policies other than the default, reuse of process ids;
- the Cocoa backend (calls into the window system), the IPC and specification headers
  beyond the channel life cycle (interfaces and plain data) and the examples;
- texts, reports and logs: `last_error_`, reasons, the lifecycle history, the `last_*`
  vectors of the kernel.
