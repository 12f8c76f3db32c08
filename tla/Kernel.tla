------------------------------- MODULE Kernel -------------------------------
(***************************************************************************)
(* framekit::runtime::KernelRuntime: Start, Stop and Fault over the host   *)
(* lifecycle, the service context, the module graph and the client's       *)
(* callbacks.  The class has no lock and is used from one thread; what     *)
(* makes it hard is that Start and Stop are long sequences of client       *)
(* callbacks, each of which may fail or call the kernel again.             *)
(*                                                                         *)
(* start and stop are the program counters of a Start and of a Stop call.  *)
(* A step is the return of one client callback together with all the code  *)
(* up to the next one.                                                     *)
(***************************************************************************)
EXTENDS Lifecycle, ModuleGraphOps, ServiceContext

CONSTANTS
  Configurations,  \* module lists the client passes to ConfigureModules
  RecordedOrders,  \* lists the client passes to RecordStartedModules
  Hooks,           \* the callback set-ups the client installs, see HookSpace
  ClientKeys,      \* services the client registers by itself
  ReentrantStop,   \* the calls, "start" or "stop", whose callbacks may call Stop
  MaxFreezes,      \* bound: start cycles that reach the freeze point
  MaxDeferred      \* bound: deferred events waiting in the event bus

DefaultServices == <<"Diagnostics", "Configuration", "Timing">>

ModuleIds ==
  (UNION {KnownIds(c) : c \in Configurations}) \cup (UNION {ToSet(r) : r \in RecordedOrders})

\* bootstrap/initialize: bootstrap_step_ and initialize_step_ set or not;
\* module: which of the two module handlers is set (lifecycle wins over stop);
\* bus: the shutdown policy, or none without an event bus;
\* limit: deferred_event_bounded_limit_; platform: number of teardown steps.
HookSpace ==
  [bootstrap : {"default", "custom"}, initialize : BOOLEAN,
   module : {"none", "stop", "lifecycle"},
   bus : {"none", "drain_all", "drain_bounded", "discard"}, limit : Nat, platform : Nat]

ASSUME KeysAssumption == ToSet(DefaultServices) \cup ClientKeys \subseteq Keys
ASSUME HooksAssumption == Hooks \subseteq HookSpace
ASSUME ConfigurationsAssumption == Configurations \subseteq Seq(ModuleSpecs)
ASSUME OrdersAssumption == RecordedOrders \subseteq Seq(ModuleIds)
ASSUME BoundsAssumption ==
  /\ ReentrantStop \subseteq {"start", "stop"}
  /\ MaxFreezes \in Nat
  /\ MaxDeferred \in Nat

VARIABLES
  state,               \* lifecycle_
  fault_reason,        \* whether last_fault_reason_ is non-empty
  hooks,               \* the installed callbacks
  modules_configured,  \* modules_configured_
  graph_valid,         \* module_graph_validation_.valid
  configured_order,    \* configured_module_startup_order_
  started_modules,     \* started_modules_
  deferred,            \* number of events in the bus's deferred queues
  start,               \* progress of a Start call
  stop,                \* progress of a Stop call
  active               \* history: modules started and not stopped since

\* The variables of the kernel's own ServiceContext, services_.
services == contextVars

setup == <<hooks, modules_configured, graph_valid, configured_order>>
vars == <<state, fault_reason, setup, started_modules, deferred, start, stop, active, services>>

\* from: the state Start was called in.  blame: a client callback failed or the
\* module graph was invalid.  Both are history and keep their value on return.
StartFrames ==
  [pc : {"idle", "bootstrap", "initialize", "module_init", "module_start"},
   idx : Nat, from : {"Stopped", "Faulted"}, blame : BOOLEAN]

\* idx: modules still to stop, then platform teardown steps done; batch: events
\* popped from the bus and not yet dispatched.
StopFrames ==
  [pc : {"idle", "modules", "module_teardown", "drain", "platform", "flush"},
   idx : Nat, had_failure : BOOLEAN, batch : Nat]

IdleStart == [pc |-> "idle", idx |-> 0, from |-> "Stopped", blame |-> FALSE]
IdleStop == [pc |-> "idle", idx |-> 0, had_failure |-> FALSE, batch |-> 0]

Init ==
  /\ state = "Stopped"
  /\ fault_reason = FALSE
  /\ hooks \in Hooks
  /\ modules_configured = FALSE
  /\ graph_valid = FALSE
  /\ configured_order = <<>>
  /\ started_modules = <<>>
  /\ deferred = 0
  /\ start = IdleStart
  /\ stop = IdleStop
  /\ active = {}
  /\ ContextInit

-----------------------------------------------------------------------------
(***************************************************************************)
(* Where client code runs: between calls, and inside the callbacks.        *)
(***************************************************************************)
Idle == start.pc = "idle" /\ stop.pc = "idle"

InStartCallback ==
  /\ stop.pc = "idle"
  /\ \/ start.pc = "bootstrap" /\ hooks.bootstrap = "custom"
     \/ start.pc = "initialize" /\ hooks.initialize
     \/ start.pc \in {"module_init", "module_start"}

InStopCallback ==
  \/ stop.pc = "modules" /\ stop.idx > 0 /\ hooks.module # "none"
  \/ stop.pc = "module_teardown"
  \/ stop.pc = "drain" /\ stop.batch > 0
  \/ stop.pc = "platform" /\ stop.idx < hooks.platform
  \/ stop.pc = "flush"

ClientRuns == Idle \/ InStartCallback \/ InStopCallback

(***************************************************************************)
(* Set-up by the client, between calls.                                    *)
(***************************************************************************)

\* SetBootstrapStep ... AddPlatformTeardownStep: steps are only ever added.
SetHooks(h) ==
  /\ Idle
  /\ h.platform >= hooks.platform
  /\ hooks' = h
  /\ UNCHANGED <<state, fault_reason, modules_configured, graph_valid, configured_order,
                 started_modules, deferred, start, stop, active, services>>

\* A client describes its modules with ConfigureModules or keeps a list of its
\* own with RecordStartedModules; it does not use both.
ConfigureModules(modules) ==
  /\ Idle
  /\ modules_configured \/ started_modules = <<>>
  /\ LET validation == ValidateModuleGraph(modules)
     IN /\ modules_configured' = TRUE
        /\ graph_valid' = validation.valid
        /\ configured_order' = validation.startup_order
  /\ UNCHANGED <<state, fault_reason, hooks, started_modules, deferred, start, stop,
                 active, services>>

RecordStartedModules(startup_order) ==
  /\ Idle
  /\ ~modules_configured
  /\ active = {}
  /\ started_modules' = startup_order
  /\ active' = ToSet(startup_order)
  /\ UNCHANGED <<state, fault_reason, setup, deferred, start, stop, services>>

\* Services() hands out the context, so the client registers whenever it runs.
ClientRegister(k) ==
  /\ ClientRuns
  /\ Register(k, "ContextOwned", FALSE)
  /\ UNCHANGED <<state, fault_reason, setup, started_modules, deferred, start, stop, active>>

EnqueueDeferred ==
  /\ ClientRuns
  /\ hooks.bus # "none"
  /\ deferred < MaxDeferred
  /\ deferred' = deferred + 1
  /\ UNCHANGED <<state, fault_reason, setup, started_modules, start, stop, active, services>>

(***************************************************************************)
(* Start.                                                                  *)
(***************************************************************************)

\* Every failure path of Start: record the reason, enter Faulted if the
\* lifecycle allows it, return false.
FaultStart(client_failed) ==
  /\ state' = AfterFault(state)
  /\ fault_reason' = TRUE
  /\ start' = [start EXCEPT !.pc = "idle", !.blame = @ \/ client_failed]

\* The last transition of Start, which may be refused like any other.
EnterRunning ==
  IF CanTransitionTo(state, "Running")
  THEN /\ state' = "Running"
       /\ fault_reason' = FALSE
       /\ start' = [start EXCEPT !.pc = "idle"]
  ELSE FaultStart(FALSE)

\* A Start refused by the lifecycle returns false and changes nothing.
StartCall ==
  /\ Idle
  /\ CanTransitionTo(state, "Bootstrapping")
  /\ freeze_count < MaxFreezes
  /\ state' = "Bootstrapping"
  /\ start' = [pc |-> "bootstrap", idx |-> 0, from |-> state, blame |-> FALSE]
  /\ UNCHANGED <<fault_reason, setup, started_modules, deferred, stop, active, services>>

\* RegisterDefaultBootstrapServices: three registrations, the first refusal
\* skips the rest.
RegisteredDefaults ==
  CHOOSE n \in 0..Len(DefaultServices) :
    /\ \A i \in 1..n : phase = "Open" /\ DefaultServices[i] \notin Registered
    /\ n < Len(DefaultServices) =>
         phase # "Open" \/ DefaultServices[n+1] \in Registered

RegisterDefaultBootstrapServices ==
  LET new == SubSeq(DefaultServices, 1, RegisteredDefaults)
  IN /\ entries' = [k \in Registered \cup ToSet(new) |->
                      IF k \in Registered THEN entries[k]
                      ELSE [ownership |-> "ContextOwned",
                            sequence |-> registration_sequence
                                         + (CHOOSE i \in DOMAIN new : new[i] = k) - 1]]
     /\ registration_sequence' = registration_sequence + Len(new)
     /\ UNCHANGED <<phase, freeze_count, last_teardown_order>>

AfterBootstrap(bootstrap_ok, client_failed) ==
  IF bootstrap_ok /\ CanTransitionTo(state, "Initializing")
  THEN /\ state' = "Initializing"
       /\ start' = [start EXCEPT !.pc = "initialize"]
       /\ UNCHANGED fault_reason
  ELSE FaultStart(client_failed)

DefaultBootstrap ==
  /\ start.pc = "bootstrap"
  /\ hooks.bootstrap = "default"
  /\ RegisterDefaultBootstrapServices
  /\ AfterBootstrap(RegisteredDefaults = Len(DefaultServices), FALSE)
  /\ UNCHANGED <<setup, started_modules, deferred, stop, active>>

BootstrapStepReturns(ok) ==
  /\ start.pc = "bootstrap"
  /\ stop.pc = "idle"
  /\ hooks.bootstrap = "custom"
  /\ AfterBootstrap(ok, ~ok)
  /\ UNCHANGED <<setup, started_modules, deferred, stop, active, services>>

InitializeFails ==
  /\ start.pc = "initialize"
  /\ stop.pc = "idle"
  /\ hooks.initialize
  /\ FaultStart(TRUE)
  /\ UNCHANGED <<setup, started_modules, deferred, stop, active, services>>

\* Freeze refuses a context that is not Open.
FreezeFails ==
  /\ start.pc = "initialize"
  /\ stop.pc = "idle"
  /\ phase # "Open"
  /\ FaultStart(FALSE)
  /\ UNCHANGED <<setup, started_modules, deferred, stop, active, services>>

\* The three ways on from a successful freeze (ExecuteModuleStartupSequence).
GraphIsInvalid ==
  /\ start.pc = "initialize"
  /\ stop.pc = "idle"
  /\ modules_configured /\ ~graph_valid
  /\ Freeze
  /\ FaultStart(TRUE)
  /\ UNCHANGED <<setup, started_modules, deferred, stop, active>>

\* No module callback to make: configured modules count as started.
StartWithoutHandler ==
  /\ start.pc = "initialize"
  /\ stop.pc = "idle"
  /\ modules_configured => graph_valid /\ (hooks.module # "lifecycle" \/ configured_order = <<>>)
  /\ Freeze
  /\ IF modules_configured
     THEN /\ started_modules' = configured_order
          /\ active' = active \cup ToSet(configured_order)
     ELSE UNCHANGED <<started_modules, active>>
  /\ EnterRunning
  /\ UNCHANGED <<setup, deferred, stop>>

BeginModuleStartup ==
  /\ start.pc = "initialize"
  /\ stop.pc = "idle"
  /\ modules_configured /\ graph_valid
  /\ hooks.module = "lifecycle" /\ configured_order # <<>>
  /\ Freeze
  /\ started_modules' = <<>>
  /\ start' = [start EXCEPT !.pc = "module_init", !.idx = 1]
  /\ UNCHANGED <<state, fault_reason, setup, deferred, stop, active>>

\* module_lifecycle_handler_(id, kInitialize) returns.
ModuleInitializeReturns(ok) ==
  /\ start.pc = "module_init"
  /\ stop.pc = "idle"
  /\ IF ok THEN /\ start' = [start EXCEPT !.pc = "module_start"]
                /\ UNCHANGED <<state, fault_reason>>
           ELSE FaultStart(TRUE)
  /\ UNCHANGED <<setup, started_modules, deferred, stop, active, services>>

\* Wrong version of IsLastModule: the loop ends one module early.
IsLastModuleEarly == start.idx + 1 >= Len(configured_order)

IsLastModule == start.idx = Len(configured_order)

\* module_lifecycle_handler_(id, kStart) returns.
ModuleStartReturns(ok) ==
  /\ start.pc = "module_start"
  /\ stop.pc = "idle"
  /\ IF ok
     THEN LET id == configured_order[start.idx]
          IN /\ started_modules' = Append(started_modules, id)
             /\ active' = active \cup {id}
             /\ IF IsLastModule
                THEN EnterRunning
                ELSE /\ start' = [start EXCEPT !.pc = "module_init", !.idx = @ + 1]
                     /\ UNCHANGED <<state, fault_reason>>
     ELSE FaultStart(TRUE) /\ UNCHANGED <<started_modules, active>>
  /\ UNCHANGED <<setup, deferred, stop, services>>

(***************************************************************************)
(* Stop.  A Stop in state Stopped returns true and changes nothing.  Stop  *)
(* called by a callback of Stop is refused by the lifecycle the first time *)
(* (StopRefused); a second such call would shut down inside the shutdown   *)
(* loop, which walks the vector it clears, and is left out.                *)
(***************************************************************************)
MayCallStop ==
  \/ Idle
  \/ InStartCallback /\ "start" \in ReentrantStop
  \/ InStopCallback /\ "stop" \in ReentrantStop

StopRefused ==
  /\ MayCallStop
  /\ state # "Stopped"
  /\ ~CanTransitionTo(state, "Stopping")
  /\ state' = AfterFault(state)
  /\ fault_reason' = TRUE
  /\ UNCHANGED <<setup, started_modules, deferred, start, stop, active, services>>

\* Wrong version of StopCall: the module started last is skipped.
StopCallSkipsLast ==
  /\ MayCallStop
  /\ stop.pc = "idle"
  /\ CanTransitionTo(state, "Stopping")
  /\ state' = "Stopping"
  /\ stop' = [IdleStop EXCEPT !.pc = "modules",
                             !.idx = IF started_modules = <<>> THEN 0 ELSE Len(started_modules) - 1]
  /\ UNCHANGED <<fault_reason, setup, started_modules, deferred, start, active, services>>

StopCall ==
  /\ MayCallStop
  /\ stop.pc = "idle"
  /\ CanTransitionTo(state, "Stopping")
  /\ state' = "Stopping"
  /\ stop' = [IdleStop EXCEPT !.pc = "modules", !.idx = Len(started_modules)]
  /\ UNCHANGED <<fault_reason, setup, started_modules, deferred, start, active, services>>

\* The handler of the module whose turn it is returns from kStop (or from the
\* plain stop handler); a failure is remembered and the loop goes on.  A module
\* counts as stopped once it was told to stop, whatever it answers.
ModuleStopReturns(ok) ==
  /\ stop.pc = "modules"
  /\ stop.idx > 0
  /\ hooks.module = "none" => ok
  /\ active' = active \ {started_modules[stop.idx]}
  /\ stop' = IF hooks.module = "lifecycle"
             THEN [stop EXCEPT !.pc = "module_teardown", !.had_failure = @ \/ ~ok]
             ELSE [stop EXCEPT !.idx = @ - 1, !.had_failure = @ \/ ~ok]
  /\ UNCHANGED <<state, fault_reason, setup, started_modules, deferred, start, services>>

ModuleTeardownReturns(ok) ==
  /\ stop.pc = "module_teardown"
  /\ stop' = [stop EXCEPT !.pc = "modules", !.idx = @ - 1, !.had_failure = @ \/ ~ok]
  /\ UNCHANGED <<state, fault_reason, setup, started_modules, deferred, start, active, services>>

\* Wrong version of PoppedEvents: the limit is taken for the number of events.
PoppedEventsUncapped ==
  CASE hooks.bus = "drain_all" -> deferred
    [] hooks.bus = "drain_bounded" -> hooks.limit
    [] OTHER -> 0

\* The number of events the policy pops from the bus; DiscardDeferred empties it.
PoppedEvents ==
  CASE hooks.bus = "drain_all" -> deferred
    [] hooks.bus = "drain_bounded" -> IF hooks.limit < deferred THEN hooks.limit ELSE deferred
    [] OTHER -> 0

EndModules ==
  /\ stop.pc = "modules"
  /\ stop.idx = 0
  /\ started_modules' = <<>>
  /\ stop' = [stop EXCEPT !.pc = "drain", !.batch = PoppedEvents]
  /\ deferred' = IF hooks.bus = "discard" THEN 0 ELSE deferred - PoppedEvents
  /\ UNCHANGED <<state, fault_reason, setup, start, active, services>>

\* A handler of the drained batch returns.
DispatchReturns ==
  /\ stop.pc = "drain"
  /\ stop.batch > 0
  /\ stop' = [stop EXCEPT !.batch = @ - 1]
  /\ UNCHANGED <<state, fault_reason, setup, started_modules, deferred, start, active, services>>

\* Wrong version of EndDrain: the shutdown waits for an empty queue.
EndDrainWhenEmpty ==
  /\ stop.pc = "drain"
  /\ stop.batch = 0 /\ deferred = 0
  /\ stop' = [stop EXCEPT !.pc = "platform"]
  /\ UNCHANGED <<state, fault_reason, setup, started_modules, deferred, start, active, services>>

EndDrain ==
  /\ stop.pc = "drain"
  /\ stop.batch = 0
  /\ stop' = [stop EXCEPT !.pc = "platform"]
  /\ UNCHANGED <<state, fault_reason, setup, started_modules, deferred, start, active, services>>

PlatformStepReturns(ok) ==
  /\ stop.pc = "platform"
  /\ stop.idx < hooks.platform
  /\ stop' = [stop EXCEPT !.idx = @ + 1, !.had_failure = @ \/ ~ok]
  /\ UNCHANGED <<state, fault_reason, setup, started_modules, deferred, start, active, services>>

\* BeginTeardown returns true without effect when it already ran, which it did
\* if an earlier shutdown failed.  The diagnostics flush is called next.
TeardownServices ==
  /\ stop.pc = "platform"
  /\ stop.idx = hooks.platform
  /\ IF phase = "Teardown" THEN UNCHANGED services ELSE BeginTeardown
  /\ stop' = [stop EXCEPT !.pc = "flush"]
  /\ UNCHANGED <<state, fault_reason, setup, started_modules, deferred, start, active>>

StopFails ==
  /\ stop.pc = "flush"
  /\ stop.had_failure
  /\ state' = AfterFault(state)
  /\ fault_reason' = TRUE
  /\ stop' = IdleStop
  /\ UNCHANGED <<setup, started_modules, deferred, start, active, services>>

\* Wrong version of StopSucceeds: the services are not reset.
StopSucceedsUnreset ==
  /\ stop.pc = "flush"
  /\ ~stop.had_failure
  /\ CanTransitionTo(state, "Stopped")
  /\ state' = "Stopped"
  /\ stop' = IdleStop
  /\ UNCHANGED <<fault_reason, setup, started_modules, deferred, start, active, services>>

\* From Stopping, or from Faulted after a refused nested Stop.
StopSucceeds ==
  /\ stop.pc = "flush"
  /\ ~stop.had_failure
  /\ CanTransitionTo(state, "Stopped")
  /\ state' = "Stopped"
  /\ ResetForNextStartCycle
  /\ stop' = IdleStop
  /\ UNCHANGED <<fault_reason, setup, started_modules, deferred, start, active>>

-----------------------------------------------------------------------------
ClientStep ==
  \/ \E h \in Hooks : SetHooks(h)
  \/ \E c \in Configurations : ConfigureModules(c)
  \/ \E r \in RecordedOrders : RecordStartedModules(r)
  \/ \E k \in ClientKeys : ClientRegister(k)
  \/ EnqueueDeferred
  \/ StartCall
  \/ StopCall
  \/ StopRefused

StartStep ==
  \/ DefaultBootstrap
  \/ \E ok \in BOOLEAN : BootstrapStepReturns(ok)
  \/ InitializeFails
  \/ FreezeFails
  \/ GraphIsInvalid
  \/ StartWithoutHandler
  \/ BeginModuleStartup
  \/ \E ok \in BOOLEAN : ModuleInitializeReturns(ok)
  \/ \E ok \in BOOLEAN : ModuleStartReturns(ok)

StopStep ==
  \/ \E ok \in BOOLEAN : ModuleStopReturns(ok)
  \/ \E ok \in BOOLEAN : ModuleTeardownReturns(ok)
  \/ EndModules
  \/ DispatchReturns
  \/ EndDrain
  \/ \E ok \in BOOLEAN : PlatformStepReturns(ok)
  \/ TeardownServices
  \/ StopFails
  \/ StopSucceeds

Next == ClientStep \/ StartStep \/ StopStep

\* Fairness: a call in progress goes on, that is, every client callback returns.
\* Nothing forces the client to call Start or Stop.
Spec == Init /\ [][Next]_vars
FairSpec == Spec /\ WF_vars(StartStep) /\ WF_vars(StopStep)

-----------------------------------------------------------------------------
(***************************************************************************)
(* Properties.                                                             *)
(***************************************************************************)
\* The types of the members, and the indices of the module loops of Start and Stop:
\* neither ever reads outside the vector it walks.
TypeOK ==
  /\ state \in LifecycleStates
  /\ fault_reason \in BOOLEAN
  /\ hooks \in Hooks
  /\ modules_configured \in BOOLEAN
  /\ graph_valid \in BOOLEAN
  /\ configured_order \in Seq(ModuleIds)
  /\ started_modules \in Seq(ModuleIds)
  /\ deferred \in Nat
  /\ start \in StartFrames
  /\ stop \in StopFrames
  /\ start.pc \in {"module_init", "module_start"} => start.idx \in 1..Len(configured_order)
  /\ stop.pc = "module_teardown" => stop.idx > 0
  /\ active \subseteq ModuleIds
  /\ ContextTypeOK

\* Why the properties below hold, when no callback of Start calls Stop: which
\* lifecycle states and service phases each control point of Start and Stop can
\* meet, and what the shutdown loop still has to stop.  This is the invariant the
\* proofs use.
ControlInvariant ==
  /\ start.pc # "idle" => stop.pc = "idle"
  /\ start.pc = "bootstrap" => state = "Bootstrapping"
  /\ start.pc \in {"initialize", "module_init", "module_start"} => state = "Initializing"
  /\ start.pc \in {"module_init", "module_start"} =>
       /\ phase = "Frozen"
       /\ modules_configured /\ graph_valid
       /\ started_modules = SubSeq(configured_order, 1, start.idx - 1)
       /\ active = ToSet(started_modules)
  /\ stop.pc # "idle" => state \in {"Stopping", "Faulted"}
  /\ Idle => state \in {"Stopped", "Running", "Faulted"}
  /\ state = "Running" => phase = "Frozen"
  /\ state = "Stopped" => phase = "Open"
  /\ stop.pc = "flush" => phase = "Teardown"

\* The module half of the same invariant: the active modules are among those that
\* Stop has still to visit, at every point of its loop.
ModuleInvariant ==
  /\ stop.pc = "idle" => active \subseteq ToSet(started_modules)
  /\ stop.pc = "modules" =>
       /\ stop.idx \in 0..Len(started_modules)
       /\ active \subseteq {started_modules[i] : i \in 1..stop.idx}
  /\ stop.pc = "module_teardown" =>
       /\ stop.idx \in 1..Len(started_modules)
       /\ active \subseteq {started_modules[i] : i \in 1..(stop.idx - 1)}
  /\ stop.pc \in {"drain", "platform", "flush"} => active = {}
  /\ modules_configured /\ active # {} => phase = "Frozen"

\* Whatever fails and however often the host is restarted, a module that was
\* started and not told to stop is still on the list that the next Stop walks:
\* Start clears started_modules_ only when no listed module is active.
NoModuleForgotten == active \subseteq ToSet(started_modules)

\* Modules of the graph live strictly inside the frozen phase of the services:
\* none is active before the freeze, after the teardown of the services, or in a
\* context that was reopened for the next cycle.
ModulesRunOnFrozenServices == modules_configured /\ active # {} => phase = "Frozen"

\* Reaching Stopped means the shutdown is complete: no module of the graph is
\* active and the services are open for the next start cycle.
StoppedIsClean ==
  state = "Stopped" => phase = "Open" /\ (modules_configured => active = {})

\* Start enters Running only with frozen services, the default services present
\* when the default bootstrap ran, and every module of the graph active.
RunningIsReady ==
  [][state # "Running" /\ state' = "Running" =>
       /\ phase' = "Frozen"
       /\ hooks.bootstrap = "default" => ToSet(DefaultServices) \subseteq DOMAIN entries'
       /\ modules_configured => /\ graph_valid
                                /\ started_modules' = configured_order
                                /\ active' = ToSet(configured_order)]_vars

\* A Start from Stopped ends in Running unless a client callback failed or the
\* module graph is invalid: whatever happened in earlier cycles, Stop left the
\* kernel in a state from which it can be started again.
StartSucceedsUnlessClientFails ==
  [][start.pc # "idle" /\ start'.pc = "idle" =>
       state' = "Running" \/ start'.blame \/ start.from = "Faulted"]_vars

\* Start and Stop return, even when the handlers of the events drained at
\* shutdown keep enqueueing new events.
CallsReturn ==
  /\ start.pc # "idle" ~> start.pc = "idle"
  /\ stop.pc # "idle" ~> stop.pc = "idle"

\* What a module cannot run without: its required dependencies, in every valid configuration.
Required ==
  [m \in ModuleIds |-> {d \in ModuleIds : \A c \in Configurations : \A i \in DOMAIN c :
     ValidateModuleGraph(c).valid /\ c[i].id = m => d \in ToSet(c[i].required_dependencies)}]

\* The refinement mapping: the lifecycle state and the history of module
\* callbacks; everything else is hidden.  A shutdown goes on after a callback's
\* call of Stop was refused, which leaves lifecycle_ in Faulted: for the contract
\* the host is Stopping until the shutdown returns.
Contract == INSTANCE HostContract
  WITH host <- IF stop.pc # "idle" THEN "Stopping" ELSE state, Modules <- ModuleIds

\* Start, Stop and Fault implement the host contract: modules start and stop in
\* dependency order, in the right lifecycle states, and never twice.
ImplementsContract == Contract!Spec

\* docs/lifecycle-semantics.md lists Bootstrapping as a recovery path out of
\* Faulted: a restart from Faulted in which nothing of the client's fails should
\* reach Running.
RestartFromFaultedRecovers ==
  [][start.pc # "idle" /\ start'.pc = "idle" => state' = "Running" \/ start'.blame]_vars
=============================================================================
