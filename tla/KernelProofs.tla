---------------------------- MODULE KernelProofs ----------------------------
(***************************************************************************)
(* Proofs about Kernel: type correctness for every set-up, and, when no    *)
(* callback of Start calls Stop, the invariant behind the safety           *)
(* properties; what Start reaches and when it succeeds; and, without any   *)
(* nested Stop, that the kernel implements HostContract.                   *)
(***************************************************************************)
EXTENDS Kernel, OperatorLemmas

\* The verdict on a configuration: its startup order holds module ids, and if it is valid
\* each of them once and after what it requires.
LEMMA ConfigurationFacts ==
  ASSUME NEW c \in Configurations
  PROVE  LET r == ValidateModuleGraph(c)
             order == r.startup_order
         IN /\ r.valid \in BOOLEAN /\ order \in Seq(ModuleIds)
            /\ r.valid =>
                 /\ \A j, k \in 1..Len(order) : order[j] = order[k] => j = k
                 /\ \A k \in 1..Len(order) : \E i \in DOMAIN c :
                      /\ c[i].id = order[k]
                      /\ \A d \in ToSet(c[i].required_dependencies) : \E j \in 1..(k - 1) : order[j] = d
<1> DEFINE r == ValidateModuleGraph(c)  order == r.startup_order  ids == KnownIds(c)
<1>1. c \in Seq(ModuleSpecs) /\ ids \subseteq ModuleIds
  BY ConfigurationsAssumption DEF ModuleIds
<1>2. r.valid \in BOOLEAN /\ order \in Seq(ids)
  BY <1>1, ResultType
<1>3. order \in Seq(ModuleIds)
  BY <1>1, <1>2
<1>4. ASSUME r.valid
      PROVE  /\ \A j, k \in 1..Len(order) : order[j] = order[k] => j = k
             /\ \A k \in 1..Len(order) : \E i \in DOMAIN c :
                  /\ c[i].id = order[k]
                  /\ \A d \in ToSet(c[i].required_dependencies) : \E j \in 1..(k - 1) : order[j] = d
  <2>1. /\ Len(order) \in Nat
        /\ \A i, j \in 1..Len(order) : order[i] = order[j] => i = j
        /\ \A d \in ids : \E i \in 1..Len(order) : order[i] = d
        /\ \A i, j \in 1..Len(order) : order[j] \in Adjacency(c)[order[i]] => j < i
    BY <1>1, <1>4, StartupOrder
  <2>2. \A i \in DOMAIN c : ToSet(c[i].required_dependencies) \subseteq ToSet(EntriesOf(c[i])) \cap ids
    BY <1>1, <1>4, ValidVerdict, AcceptedList
  <2> HIDE DEF r, order
  <2>3. ASSUME NEW k \in 1..Len(order)
        PROVE  \E i \in DOMAIN c :
                 /\ c[i].id = order[k]
                 /\ \A d \in ToSet(c[i].required_dependencies) : \E j \in 1..(k - 1) : order[j] = d
    <3>1. order[k] \in ids
      BY <1>2, <2>1 DEF order
    <3>2. PICK i \in DOMAIN c : c[i].id = order[k]
      BY <3>1 DEF KnownIds
    <3>3. ASSUME NEW d \in ToSet(c[i].required_dependencies) PROVE \E j \in 1..(k - 1) : order[j] = d
      <4>1. d \in ids /\ d \in ToSet(EntriesOf(c[i]))
        BY <2>2, <3>3
      <4>2. d \in Adjacency(c)[order[k]]
        BY <3>1, <3>2, <4>1 DEF Adjacency
      <4>3. PICK j \in 1..Len(order) : order[j] = d
        BY <2>1, <4>1
      <4>4. j < k
        BY <2>1, <4>2, <4>3
      <4>5. j \in 1..(k - 1)
        BY <2>1, <4>4
      <4> QED BY <4>3, <4>5
    <3> QED BY <3>2, <3>3
  <2> QED BY <2>1, <2>3
<1> QED BY <1>2, <1>3, <1>4

-----------------------------------------------------------------------------
(***************************************************************************)
(* The service context keeps its type.                                     *)
(***************************************************************************)

\* Register adds or replaces one entry of the right shape.
LEMMA RegisterType ==
  ASSUME ContextTypeOK, NEW k \in Keys, NEW o \in Ownerships, NEW r \in BOOLEAN,
         Register(k, o, r)
  PROVE  ContextTypeOK'
<1>1. IsFiniteSet(Registered \cup {k})
  BY FS_AddElement DEF ContextTypeOK
<1>2. entries' = WithEntry(entries, k, o, registration_sequence)
  BY DEF Register
<1>3. DOMAIN entries' = Registered \cup {k}
  BY <1>2 DEF WithEntry, Registered
<1>4. entries' \in [Registered \cup {k} -> [ownership : Ownerships, sequence : Nat]]
  BY <1>2 DEF WithEntry, Registered, ContextTypeOK
<1>5. registration_sequence' \in Nat
  BY DEF Register, ContextTypeOK
<1> QED
  BY <1>1, <1>3, <1>4, <1>5 DEF Register, ContextTypeOK, Registered

\* Freeze changes the phase and the counter only.
LEMMA FreezeType ==
  ASSUME ContextTypeOK, Freeze
  PROVE  ContextTypeOK'
BY DEF Freeze, ContextTypeOK, Phases, Registered

\* BeginTeardown keeps a part of the entries and records a sequence of keys.
LEMMA TeardownType ==
  ASSUME ContextTypeOK, BeginTeardown
  PROVE  ContextTypeOK'
<1>1. Owned \subseteq Registered /\ IsFiniteSet(Owned)
  BY FS_Subset DEF Owned, ContextTypeOK
<1>2. Cardinality(Owned) \in Nat
  BY <1>1, FS_CardinalityType
<1>3. last_teardown_order' \in Seq(Keys)
  <2>1. last_teardown_order' \in [1..Cardinality(Owned) -> Keys]
    BY <1>1 DEF BeginTeardown, ContextTypeOK
  <2> QED
    BY <1>2, <2>1, SeqDef
<1>4. entries' \in [Registered \ Owned -> [ownership : Ownerships, sequence : Nat]]
  BY DEF BeginTeardown, ContextTypeOK
<1>5. IsFiniteSet(Registered \ Owned)
  BY FS_Subset DEF ContextTypeOK
<1> QED
  BY <1>3, <1>4, <1>5 DEF BeginTeardown, ContextTypeOK, Phases, Registered

\* Reset empties the registry.
LEMMA ResetType ==
  ASSUME ContextTypeOK, ResetForNextStartCycle
  PROVE  ContextTypeOK'
<1>1. entries' = NoEntries /\ DOMAIN entries' = {}
  BY DEF ResetForNextStartCycle, NoEntries
<1>2. IsFiniteSet({})
  BY FS_EmptySet
<1> QED
  BY <1>1, <1>2 DEF ResetForNextStartCycle, ContextTypeOK, Phases, Registered, NoEntries

\* The default bootstrap registers a prefix of the default services.
LEMMA DefaultsType ==
  ASSUME ContextTypeOK, RegisterDefaultBootstrapServices
  PROVE  ContextTypeOK'
<1> DEFINE new == SubSeq(DefaultServices, 1, RegisteredDefaults)
<1>1. DefaultServices \in Seq({"Diagnostics", "Configuration", "Timing"}) /\ Len(DefaultServices) = 3
  BY DEF DefaultServices
<1>2. RegisteredDefaults \in 0..3
  <2>1. \E n \in 0..3 :
          /\ \A i \in 1..n : phase = "Open" /\ DefaultServices[i] \notin Registered
          /\ n < 3 => phase # "Open" \/ DefaultServices[n+1] \in Registered
    <3> DEFINE Free(i) == phase = "Open" /\ DefaultServices[i] \notin Registered
    <3>1. CASE ~Free(1) BY <3>1
    <3>2. CASE Free(1) /\ ~Free(2) BY <3>2
    <3>3. CASE Free(1) /\ Free(2) /\ ~Free(3) BY <3>3
    <3>4. CASE Free(1) /\ Free(2) /\ Free(3) BY <3>4
    <3> QED BY <3>1, <3>2, <3>3, <3>4
  <2> QED BY <1>1, <2>1 DEF RegisteredDefaults
<1>3. /\ new \in Seq({"Diagnostics", "Configuration", "Timing"})
      /\ Len(new) = RegisteredDefaults
  <2>1. \A i \in 1..RegisteredDefaults : DefaultServices[i] \in {"Diagnostics", "Configuration", "Timing"}
    BY <1>1, <1>2
  <2>2. 1 \in Int /\ RegisteredDefaults \in Int
    BY <1>2
  <2> QED BY <1>2, <2>1, <2>2, SubSeqProperties
<1>4. /\ ToSet(new) \subseteq {"Diagnostics", "Configuration", "Timing"}
      /\ ToSet(new) \subseteq Keys
      /\ IsFiniteSet(ToSet(new))
  <2>1. ToSet(new) \subseteq {"Diagnostics", "Configuration", "Timing"}
    BY <1>3 DEF ToSet
  <2>2. {"Diagnostics", "Configuration", "Timing"} \subseteq Keys
    BY KeysAssumption DEF ToSet, DefaultServices
  <2>3. IsFiniteSet({"Diagnostics"})
    BY FS_Singleton
  <2>4. IsFiniteSet({"Diagnostics"} \cup {"Configuration"})
    BY <2>3, FS_AddElement
  <2>5. IsFiniteSet(({"Diagnostics"} \cup {"Configuration"}) \cup {"Timing"})
    BY <2>4, FS_AddElement
  <2>6. ({"Diagnostics"} \cup {"Configuration"}) \cup {"Timing"} = {"Diagnostics", "Configuration", "Timing"}
    OBVIOUS
  <2> QED BY <2>1, <2>2, <2>5, <2>6, FS_Subset
<1>5. IsFiniteSet(Registered \cup ToSet(new))
  BY <1>4, FS_Union DEF ContextTypeOK
<1>6. \A k \in ToSet(new) : (CHOOSE i \in DOMAIN new : new[i] = k) \in Nat \ {0}
  <2> SUFFICES ASSUME NEW k \in ToSet(new)
               PROVE  (CHOOSE i \in DOMAIN new : new[i] = k) \in Nat \ {0}
    OBVIOUS
  <2>1. \E i \in DOMAIN new : new[i] = k
    BY DEF ToSet
  <2>2. DOMAIN new = 1..RegisteredDefaults
    BY <1>3
  <2> QED BY <1>2, <2>1, <2>2
<1>7. entries' \in [Registered \cup ToSet(new) -> [ownership : Ownerships, sequence : Nat]]
  <2> DEFINE entry(k) == IF k \in Registered THEN entries[k]
                         ELSE [ownership |-> "ContextOwned",
                               sequence |-> registration_sequence
                                            + (CHOOSE i \in DOMAIN new : new[i] = k) - 1]
  <2>1. entries' = [k \in Registered \cup ToSet(new) |-> entry(k)]
    BY DEF RegisterDefaultBootstrapServices
  <2>2. \A k \in Registered : entry(k) \in [ownership : Ownerships, sequence : Nat]
    BY DEF ContextTypeOK
  <2>3. ASSUME NEW k \in ToSet(new), k \notin Registered
        PROVE  entry(k) \in [ownership : Ownerships, sequence : Nat]
    <3> DEFINE place == CHOOSE i \in DOMAIN new : new[i] = k
    <3>1. place \in Nat \ {0}
      BY <1>6
    <3> HIDE DEF place
    <3>2. registration_sequence + place - 1 \in Nat
      BY <3>1 DEF ContextTypeOK
    <3>3. entry(k) = [ownership |-> "ContextOwned", sequence |-> registration_sequence + place - 1]
      BY <2>3 DEF place
    <3> HIDE DEF entry
    <3> QED BY <3>2, <3>3 DEF Ownerships
  <2> HIDE DEF entry
  <2> QED BY <2>1, <2>2, <2>3
<1>8. registration_sequence' \in Nat
  BY <1>2, <1>3 DEF RegisterDefaultBootstrapServices, ContextTypeOK
<1>9. DOMAIN entries' = Registered \cup ToSet(new)
  BY <1>7
<1> HIDE DEF new
<1> QED
  BY <1>4, <1>5, <1>7, <1>8, <1>9
     DEF RegisterDefaultBootstrapServices, ContextTypeOK, Registered

\* Nothing happens to the context in most steps.
LEMMA ContextStutters ==
  ASSUME ContextTypeOK, UNCHANGED services
  PROVE  ContextTypeOK'
BY DEF ContextTypeOK, services, contextVars, Registered

-----------------------------------------------------------------------------
(***************************************************************************)
(* Type correctness.                                                       *)
(***************************************************************************)
\* A new KernelRuntime is well typed.
LEMMA TypeInit == Init => TypeOK
<1> SUFFICES ASSUME Init PROVE TypeOK
  OBVIOUS
<1>1. ContextTypeOK
  <2>1. DOMAIN entries = {} /\ entries \in [{} -> [ownership : Ownerships, sequence : Nat]]
    BY DEF Init, ContextInit, NoEntries
  <2>2. IsFiniteSet({})
    BY FS_EmptySet
  <2> QED BY <2>1, <2>2 DEF Init, ContextInit, ContextTypeOK, Phases, Registered
<1>2. start \in StartFrames /\ stop \in StopFrames
  BY DEF Init, IdleStart, IdleStop, StartFrames, StopFrames
<1>3. start.pc = "idle" /\ stop.pc = "idle"
  BY DEF Init, IdleStart, IdleStop
<1> QED
  BY <1>1, <1>2, <1>3, EmptySeq DEF Init, TypeOK, LifecycleStates

\* AfterFault stays inside the lifecycle.
LEMMA AfterFaultType ==
  ASSUME NEW s \in LifecycleStates
  PROVE  AfterFault(s) \in LifecycleStates
BY DEF AfterFault, LifecycleStates

\* What the last assignments of a step of Start leave behind.
StartResultOK ==
  /\ state \in LifecycleStates
  /\ fault_reason \in BOOLEAN
  /\ start \in StartFrames
  /\ start.pc \notin {"module_init", "module_start"}

\* A failing Start leaves a well-typed frame that points at no module.
LEMMA FaultStartType ==
  ASSUME TypeOK, NEW b \in BOOLEAN, FaultStart(b)
  PROVE  StartResultOK'
BY AfterFaultType DEF FaultStart, TypeOK, StartFrames, StartResultOK

\* So does the last transition of Start, granted or refused.
LEMMA EnterRunningType ==
  ASSUME TypeOK, EnterRunning
  PROVE  StartResultOK'
<1>1. CASE CanTransitionTo(state, "Running")
  BY <1>1 DEF EnterRunning, TypeOK, StartFrames, LifecycleStates, StartResultOK
<1>2. CASE ~CanTransitionTo(state, "Running")
  BY <1>2, FaultStartType DEF EnterRunning
<1> QED BY <1>1, <1>2

\* So does the end of the bootstrap step.
LEMMA AfterBootstrapType ==
  ASSUME TypeOK, NEW a \in BOOLEAN, NEW b \in BOOLEAN, AfterBootstrap(a, b)
  PROVE  StartResultOK'
<1>1. CASE a /\ CanTransitionTo(state, "Initializing")
  BY <1>1 DEF AfterBootstrap, TypeOK, StartFrames, LifecycleStates, StartResultOK
<1>2. CASE ~(a /\ CanTransitionTo(state, "Initializing"))
  BY <1>2, FaultStartType DEF AfterBootstrap
<1> QED BY <1>1, <1>2

\* The elements of a list of module ids are module ids.
LEMMA ToSetType ==
  ASSUME NEW T, NEW s \in Seq(T)
  PROVE  ToSet(s) \subseteq T
BY DEF ToSet

\* A shutdown drain never pops more events than the queue holds.
LEMMA PoppedEventsType ==
  ASSUME TypeOK
  PROVE  PoppedEvents \in 0..deferred
BY HooksAssumption DEF PoppedEvents, TypeOK, HookSpace

\* Every callback return and every client call keeps the state well typed.
LEMMA TypeStep == TypeOK /\ [Next]_vars => TypeOK'
<1> SUFFICES ASSUME TypeOK, [Next]_vars PROVE TypeOK'
  OBVIOUS
<1>c. ContextTypeOK
  BY DEF TypeOK
<1> USE DEF setup
<1>1. ASSUME NEW h \in Hooks, SetHooks(h) PROVE TypeOK'
  BY <1>1, <1>c, ContextStutters DEF SetHooks, TypeOK
<1>2. ASSUME NEW c \in Configurations, ConfigureModules(c) PROVE TypeOK'
  BY <1>2, <1>c, ContextStutters, ConfigurationFacts DEF ConfigureModules, TypeOK, Idle
<1>3. ASSUME NEW r \in RecordedOrders, RecordStartedModules(r) PROVE TypeOK'
  BY <1>3, <1>c, ContextStutters, OrdersAssumption, ToSetType DEF RecordStartedModules, TypeOK
<1>4. ASSUME NEW k \in ClientKeys, ClientRegister(k) PROVE TypeOK'
  BY <1>4, <1>c, RegisterType, KeysAssumption DEF ClientRegister, TypeOK, Ownerships
<1>5. CASE EnqueueDeferred
  BY <1>5, <1>c, ContextStutters DEF EnqueueDeferred, TypeOK
<1>6. CASE StartCall
  <2>1. state \in {"Stopped", "Faulted"}
    BY <1>6 DEF StartCall, TypeOK, CanTransitionTo, LegalTransitions, LifecycleStates
  <2> QED
    BY <1>6, <1>c, <2>1, ContextStutters DEF StartCall, TypeOK, StartFrames, LifecycleStates
<1>7. CASE StopCall
  <2>0. Len(started_modules) \in Nat
    BY DEF TypeOK
  <2>1. stop' \in StopFrames /\ stop'.pc = "modules"
    BY <1>7, <2>0 DEF StopCall, IdleStop, StopFrames
  <2> QED
    BY <1>7, <1>c, <2>1, ContextStutters DEF StopCall, TypeOK, LifecycleStates
<1>8. CASE StopRefused
  BY <1>8, <1>c, ContextStutters, AfterFaultType DEF StopRefused, TypeOK
<1>9. CASE DefaultBootstrap
  <2>1. StartResultOK'
    BY <1>9, AfterBootstrapType DEF DefaultBootstrap
  <2>2. ContextTypeOK'
    BY <1>9, <1>c, DefaultsType DEF DefaultBootstrap
  <2> QED BY <1>9, <2>1, <2>2 DEF DefaultBootstrap, TypeOK, StartResultOK
<1>10. ASSUME NEW ok \in BOOLEAN, BootstrapStepReturns(ok) PROVE TypeOK'
  <2>1. StartResultOK'
    BY <1>10, AfterBootstrapType DEF BootstrapStepReturns
  <2> QED BY <1>10, <1>c, <2>1, ContextStutters DEF BootstrapStepReturns, TypeOK, StartResultOK
<1>11. CASE InitializeFails
  <2>1. StartResultOK'
    BY <1>11, FaultStartType DEF InitializeFails
  <2> QED BY <1>11, <1>c, <2>1, ContextStutters DEF InitializeFails, TypeOK, StartResultOK
<1>12. CASE FreezeFails
  <2>1. StartResultOK'
    BY <1>12, FaultStartType DEF FreezeFails
  <2> QED BY <1>12, <1>c, <2>1, ContextStutters DEF FreezeFails, TypeOK, StartResultOK
<1>13. CASE GraphIsInvalid
  <2>1. StartResultOK'
    BY <1>13, FaultStartType DEF GraphIsInvalid
  <2> QED BY <1>13, <1>c, <2>1, FreezeType DEF GraphIsInvalid, TypeOK, StartResultOK
<1>14. CASE StartWithoutHandler
  <2>1. StartResultOK'
    BY <1>14, EnterRunningType DEF StartWithoutHandler
  <2>2. ContextTypeOK'
    BY <1>14, <1>c, FreezeType DEF StartWithoutHandler
  <2>3. started_modules' \in Seq(ModuleIds) /\ active' \subseteq ModuleIds
    BY <1>14, ToSetType DEF StartWithoutHandler, TypeOK
  <2> QED BY <1>14, <2>1, <2>2, <2>3 DEF StartWithoutHandler, TypeOK, StartResultOK
<1>15. CASE BeginModuleStartup
  <2>1. ContextTypeOK'
    BY <1>15, <1>c, FreezeType DEF BeginModuleStartup
  <2>2. start' \in StartFrames /\ start'.idx = 1
    BY <1>15 DEF BeginModuleStartup, TypeOK, StartFrames
  <2>3. 1 \in 1..Len(configured_order)
    BY <1>15, EmptySeq DEF BeginModuleStartup, TypeOK
  <2> QED BY <1>15, <2>1, <2>2, <2>3 DEF BeginModuleStartup, TypeOK
<1>16. ASSUME NEW ok \in BOOLEAN, ModuleInitializeReturns(ok) PROVE TypeOK'
  <2>1. CASE ok
    BY <1>16, <1>c, <2>1, ContextStutters DEF ModuleInitializeReturns, TypeOK, StartFrames
  <2>2. CASE ~ok
    <3>1. StartResultOK'
      BY <1>16, <2>2, FaultStartType DEF ModuleInitializeReturns
    <3> QED
      BY <1>16, <1>c, <2>2, <3>1, ContextStutters DEF ModuleInitializeReturns, TypeOK, StartResultOK
  <2> QED BY <2>1, <2>2
<1>17. ASSUME NEW ok \in BOOLEAN, ModuleStartReturns(ok) PROVE TypeOK'
  <2>1. ContextTypeOK'
    BY <1>17, <1>c, ContextStutters DEF ModuleStartReturns, IsLastModule
  <2>2. CASE ~ok
    <3>1. StartResultOK'
      BY <1>17, <2>2, FaultStartType DEF ModuleStartReturns, IsLastModule
    <3> QED BY <1>17, <2>1, <2>2, <3>1 DEF ModuleStartReturns, IsLastModule, TypeOK, StartResultOK
  <2>3. CASE ok
    <3>1. start.idx \in 1..Len(configured_order)
      BY <1>17 DEF ModuleStartReturns, IsLastModule, TypeOK
    <3>2. configured_order[start.idx] \in ModuleIds
      BY <3>1 DEF TypeOK
    <3>3. started_modules' \in Seq(ModuleIds) /\ active' \subseteq ModuleIds
      BY <1>17, <2>3, <3>2, SMTT(30) DEF ModuleStartReturns, IsLastModule, TypeOK
    <3>4. CASE start.idx = Len(configured_order)
      <4>1. StartResultOK'
        BY <1>17, <2>3, <3>4, EnterRunningType DEF ModuleStartReturns, IsLastModule
      <4> QED BY <1>17, <2>1, <2>3, <3>3, <4>1 DEF ModuleStartReturns, IsLastModule, TypeOK, StartResultOK
    <3>5. CASE start.idx # Len(configured_order)
      <4>1. start.idx + 1 \in 1..Len(configured_order)
        BY <3>1, <3>5 DEF TypeOK
      <4>2. start' = [start EXCEPT !.pc = "module_init", !.idx = start.idx + 1]
        BY <1>17, <2>3, <3>5 DEF ModuleStartReturns, IsLastModule
      <4>3. start' \in StartFrames /\ start'.idx = start.idx + 1
        <5>1. start.idx + 1 \in Nat /\ start \in StartFrames
          BY <4>1 DEF TypeOK
        <5> QED BY <4>2, <5>1 DEF StartFrames
      <4> QED
        BY <1>17, <2>1, <2>3, <3>3, <3>5, <4>1, <4>3 DEF ModuleStartReturns, IsLastModule, TypeOK
    <3> QED BY <3>4, <3>5
  <2> QED BY <2>2, <2>3
<1>18. ASSUME NEW ok \in BOOLEAN, ModuleStopReturns(ok) PROVE TypeOK'
  <2>2. stop.idx - 1 \in Nat
    BY <1>18 DEF ModuleStopReturns, TypeOK, StopFrames
  <2>3. stop' \in StopFrames /\ (stop'.pc = "module_teardown" => stop'.idx > 0)
    <3>1. CASE hooks.module = "lifecycle"
      BY <1>18, <3>1 DEF ModuleStopReturns, TypeOK, StopFrames
    <3>2. CASE hooks.module # "lifecycle"
      BY <1>18, <2>2, <3>2 DEF ModuleStopReturns, TypeOK, StopFrames
    <3> QED BY <3>1, <3>2
  <2> QED
    BY <1>18, <1>c, <2>3, ContextStutters DEF ModuleStopReturns, TypeOK
<1>19. ASSUME NEW ok \in BOOLEAN, ModuleTeardownReturns(ok) PROVE TypeOK'
  <2>1. stop.idx - 1 \in Nat
    BY <1>19 DEF ModuleTeardownReturns, TypeOK, StopFrames
  <2>2. stop' \in StopFrames /\ stop'.pc = "modules"
    BY <1>19, <2>1 DEF ModuleTeardownReturns, TypeOK, StopFrames
  <2> QED
    BY <1>19, <1>c, <2>2, ContextStutters DEF ModuleTeardownReturns, TypeOK
<1>20. CASE EndModules
  <2>1. PoppedEvents \in 0..deferred /\ deferred \in Nat
    BY PoppedEventsType DEF TypeOK
  <2>2. stop' \in StopFrames /\ stop'.pc = "drain"
    <3>1. PoppedEvents \in Nat /\ stop \in StopFrames
      BY <2>1 DEF TypeOK
    <3>2. stop' = [stop EXCEPT !.pc = "drain", !.batch = PoppedEvents]
      BY <1>20 DEF EndModules
    <3> QED BY <3>1, <3>2 DEF StopFrames
  <2>3. deferred' \in Nat
    BY <1>20, <2>1 DEF EndModules
  <2> QED
    BY <1>20, <1>c, <2>2, <2>3, ContextStutters DEF EndModules, TypeOK
<1>21. CASE DispatchReturns
  BY <1>21, <1>c, ContextStutters DEF DispatchReturns, TypeOK, StopFrames
<1>22. CASE EndDrain
  BY <1>22, <1>c, ContextStutters DEF EndDrain, TypeOK, StopFrames
<1>23. ASSUME NEW ok \in BOOLEAN, PlatformStepReturns(ok) PROVE TypeOK'
  <2>1. stop' \in StopFrames /\ stop'.pc = "platform"
    <3>1. stop.idx + 1 \in Nat /\ stop \in StopFrames
      BY DEF TypeOK, StopFrames
    <3>2. /\ stop.pc = "platform"
          /\ stop' = [stop EXCEPT !.idx = stop.idx + 1, !.had_failure = stop.had_failure \/ ~ok]
      BY <1>23 DEF PlatformStepReturns
    <3> QED BY <3>1, <3>2 DEF StopFrames
  <2> QED
    BY <1>23, <1>c, <2>1, ContextStutters DEF PlatformStepReturns, TypeOK
<1>24. CASE TeardownServices
  <2>1. ContextTypeOK'
    BY <1>24, <1>c, ContextStutters, TeardownType DEF TeardownServices
  <2> QED BY <1>24, <2>1 DEF TeardownServices, TypeOK, StopFrames
<1>25. CASE StopFails
  BY <1>25, <1>c, ContextStutters, AfterFaultType DEF StopFails, TypeOK, IdleStop, StopFrames
<1>26. CASE StopSucceeds
  <2>1. ContextTypeOK'
    BY <1>26, <1>c, ResetType DEF StopSucceeds
  <2> QED BY <1>26, <2>1 DEF StopSucceeds, TypeOK, IdleStop, StopFrames, LifecycleStates
<1>27. CASE UNCHANGED vars
  BY <1>27, <1>c, ContextStutters DEF vars, TypeOK
<1> QED
  BY <1>1, <1>2, <1>3, <1>4, <1>5, <1>6, <1>7, <1>8, <1>9, <1>10, <1>11, <1>12, <1>13,
     <1>14, <1>15, <1>16, <1>17, <1>18, <1>19, <1>20, <1>21, <1>22, <1>23, <1>24, <1>25,
     <1>26, <1>27 DEF Next, ClientStep, StartStep, StopStep

\* Every reachable state of the kernel is well typed, for every set-up of
\* callbacks, module lists and re-entrant calls.
THEOREM KernelTypeCorrect == Spec => []TypeOK
<1> QED BY TypeInit, TypeStep, PTL DEF Spec

-----------------------------------------------------------------------------
(***************************************************************************)
(* Safety, when no callback of Start calls Stop.  SafetyInvariant is       *)
(* inductive; the properties of the runs follow from it.                   *)
(***************************************************************************)
SafetyInvariant == TypeOK /\ ControlInvariant /\ ModuleInvariant

\* The rows of the lifecycle table that Start, Stop and Fault depend on.
LEMMA LifecycleFacts ==
  /\ \A s \in LifecycleStates \ {"Stopped"} : AfterFault(s) = "Faulted"
  /\ CanTransitionTo("Initializing", "Running")
  /\ \A s \in LifecycleStates : CanTransitionTo(s, "Stopping") <=> s \in {"Initializing", "Running", "Faulted"}
BY DEF AfterFault, CanTransitionTo, LegalTransitions, LifecycleStates

\* A fault in a call of Start that left Stopped ends in Faulted, between calls.
LEMMA FaultStartFacts ==
  ASSUME TypeOK, state # "Stopped", NEW b \in BOOLEAN, FaultStart(b)
  PROVE  state' = "Faulted" /\ start'.pc = "idle"
BY LifecycleFacts DEF FaultStart, TypeOK, StartFrames

\* With the lifecycle in Initializing the last transition of Start is granted.
LEMMA EnterRunningFacts ==
  ASSUME TypeOK, state = "Initializing", EnterRunning
  PROVE  state' = "Running" /\ start'.pc = "idle"
BY LifecycleFacts DEF EnterRunning, TypeOK, StartFrames

\* A new KernelRuntime satisfies the control and module invariants.
LEMMA SafetyInit == Init => SafetyInvariant
BY TypeInit
   DEF Init, SafetyInvariant, ControlInvariant, ModuleInvariant, IdleStart, IdleStop, Idle,
       ContextInit, ToSet

\* Every step keeps them, provided no callback of Start calls Stop.
LEMMA SafetyStep ==
  ASSUME "start" \notin ReentrantStop, SafetyInvariant, [Next]_vars
  PROVE  SafetyInvariant'
<1>t. TypeOK /\ TypeOK' /\ ControlInvariant /\ ModuleInvariant
  BY TypeStep DEF SafetyInvariant
<1> SUFFICES ControlInvariant' /\ ModuleInvariant'
  BY <1>t DEF SafetyInvariant
<1> USE DEF setup, services, contextVars
<1>1. ASSUME NEW h \in Hooks, SetHooks(h) PROVE ControlInvariant' /\ ModuleInvariant'
  <2>1. ControlInvariant'
    BY <1>1, <1>t DEF SetHooks, ControlInvariant, ModuleInvariant, Idle, TypeOK
  <2>2. ModuleInvariant'
    BY <1>1, <1>t DEF SetHooks, ControlInvariant, ModuleInvariant, Idle, TypeOK
  <2> QED BY <2>1, <2>2
<1>2. ASSUME NEW c \in Configurations, ConfigureModules(c) PROVE ControlInvariant' /\ ModuleInvariant'
  <2>1. ControlInvariant'
    BY <1>2, <1>t DEF ConfigureModules, ControlInvariant, ModuleInvariant, Idle, TypeOK
  <2>2. ModuleInvariant'
    BY <1>2, <1>t DEF ConfigureModules, ToSet, ControlInvariant, ModuleInvariant, Idle, TypeOK
  <2> QED BY <2>1, <2>2
<1>3. ASSUME NEW r \in RecordedOrders, RecordStartedModules(r) PROVE ControlInvariant' /\ ModuleInvariant'
  <2>1. ControlInvariant'
    BY <1>3, <1>t DEF RecordStartedModules, ControlInvariant, ModuleInvariant, Idle, TypeOK
  <2>2. ModuleInvariant'
    BY <1>3, <1>t DEF RecordStartedModules, ControlInvariant, ModuleInvariant, Idle, TypeOK
  <2> QED BY <2>1, <2>2
<1>4. ASSUME NEW k \in ClientKeys, ClientRegister(k) PROVE ControlInvariant' /\ ModuleInvariant'
  <2>1. ControlInvariant'
    BY <1>4, <1>t DEF ClientRegister, Register, ControlInvariant, ModuleInvariant, Idle, TypeOK
  <2>2. ModuleInvariant'
    BY <1>4, <1>t DEF ClientRegister, Register, ControlInvariant, ModuleInvariant, Idle, TypeOK
  <2> QED BY <2>1, <2>2
<1>5. CASE EnqueueDeferred
  <2>1. ControlInvariant'
    BY <1>5, <1>t DEF EnqueueDeferred, ControlInvariant, ModuleInvariant, Idle, TypeOK
  <2>2. ModuleInvariant'
    BY <1>5, <1>t DEF EnqueueDeferred, ControlInvariant, ModuleInvariant, Idle, TypeOK
  <2> QED BY <2>1, <2>2
<1>6. CASE StartCall
  <2>1. ControlInvariant'
    BY <1>6, <1>t DEF StartCall, ControlInvariant, ModuleInvariant, Idle, TypeOK
  <2>2. ModuleInvariant'
    BY <1>6, <1>t DEF StartCall, ControlInvariant, ModuleInvariant, Idle, TypeOK
  <2> QED BY <2>1, <2>2
<1>7. CASE StopCall
  <2>1. ControlInvariant'
    <3>1. Idle
      BY <1>7 DEF StopCall, MayCallStop, InStartCallback, InStopCallback, Idle
    <3>2. stop'.pc = "modules"
      BY <1>7 DEF StopCall, IdleStop
    <3> QED BY <1>7, <1>t, <3>1, <3>2 DEF StopCall, ControlInvariant, ModuleInvariant, Idle, TypeOK
  <2>2. ModuleInvariant'
    <3>1. stop'.pc = "modules" /\ stop'.idx = Len(started_modules)
      BY <1>7 DEF StopCall, IdleStop
    <3>2. active \subseteq ToSet(started_modules)
      BY <1>7, <1>t DEF StopCall, ModuleInvariant
    <3>3. ToSet(started_modules) = {started_modules[i] : i \in 1..Len(started_modules)}
      BY <1>t DEF ToSet, TypeOK
    <3> QED BY <1>7, <1>t, <3>1, <3>2, <3>3 DEF StopCall, ModuleInvariant, TypeOK
  <2> QED BY <2>1, <2>2
<1>8. CASE StopRefused
  <2>1. ControlInvariant'
    <3>1. ~Idle /\ stop.pc # "idle"
      BY <1>8, <1>t, LifecycleFacts
         DEF StopRefused, MayCallStop, InStartCallback, InStopCallback, ControlInvariant, ModuleInvariant, Idle, TypeOK
    <3>2. state' = "Faulted"
      BY <1>8, <1>t, LifecycleFacts DEF StopRefused, TypeOK
    <3> QED BY <1>8, <1>t, <3>1, <3>2 DEF StopRefused, ControlInvariant, ModuleInvariant, Idle, TypeOK
  <2>2. ModuleInvariant'
    BY <1>8, <1>t DEF StopRefused, ControlInvariant, ModuleInvariant, Idle, TypeOK
  <2> QED BY <2>1, <2>2
<1>9. CASE DefaultBootstrap
  <2>1. ControlInvariant'
    <3>1. CASE state' = "Initializing" /\ start' = [start EXCEPT !.pc = "initialize"]
      BY <1>9, <1>t, <3>1 DEF DefaultBootstrap, RegisterDefaultBootstrapServices, StartFrames, ControlInvariant, ModuleInvariant, Idle, TypeOK
    <3>2. CASE FaultStart(FALSE)
      BY <1>9, <1>t, <3>2, FaultStartFacts DEF DefaultBootstrap, RegisterDefaultBootstrapServices, ControlInvariant, ModuleInvariant, Idle, TypeOK
    <3> QED BY <1>9, <3>1, <3>2 DEF DefaultBootstrap, AfterBootstrap
  <2>2. ModuleInvariant'
    BY <1>9, <1>t DEF DefaultBootstrap, AfterBootstrap, FaultStart, RegisterDefaultBootstrapServices, ControlInvariant, ModuleInvariant, Idle, TypeOK
  <2> QED BY <2>1, <2>2
<1>10. ASSUME NEW ok \in BOOLEAN, BootstrapStepReturns(ok) PROVE ControlInvariant' /\ ModuleInvariant'
  <2>1. ControlInvariant'
    <3>1. CASE state' = "Initializing" /\ start' = [start EXCEPT !.pc = "initialize"]
      BY <1>10, <1>t, <3>1 DEF BootstrapStepReturns, StartFrames, ControlInvariant, ModuleInvariant, Idle, TypeOK
    <3>2. CASE FaultStart(~ok)
      BY <1>10, <1>t, <3>2, FaultStartFacts DEF BootstrapStepReturns, ControlInvariant, ModuleInvariant, Idle, TypeOK
    <3> QED BY <1>10, <3>1, <3>2 DEF BootstrapStepReturns, AfterBootstrap
  <2>2. ModuleInvariant'
    BY <1>10, <1>t DEF BootstrapStepReturns, AfterBootstrap, FaultStart, ControlInvariant, ModuleInvariant, Idle, TypeOK
  <2> QED BY <2>1, <2>2
<1>11. CASE InitializeFails
  <2>1. ControlInvariant'
    BY <1>11, <1>t, FaultStartFacts DEF InitializeFails, ControlInvariant, ModuleInvariant, Idle, TypeOK
  <2>2. ModuleInvariant'
    BY <1>11, <1>t DEF InitializeFails, FaultStart, ControlInvariant, ModuleInvariant, Idle, TypeOK
  <2> QED BY <2>1, <2>2
<1>12. CASE FreezeFails
  <2>1. ControlInvariant'
    BY <1>12, <1>t, FaultStartFacts DEF FreezeFails, ControlInvariant, ModuleInvariant, Idle, TypeOK
  <2>2. ModuleInvariant'
    BY <1>12, <1>t DEF FreezeFails, FaultStart, ControlInvariant, ModuleInvariant, Idle, TypeOK
  <2> QED BY <2>1, <2>2
<1>13. CASE GraphIsInvalid
  <2>1. ControlInvariant'
    BY <1>13, <1>t, FaultStartFacts DEF GraphIsInvalid, Freeze, ControlInvariant, ModuleInvariant, Idle, TypeOK
  <2>2. ModuleInvariant'
    BY <1>13, <1>t DEF GraphIsInvalid, FaultStart, Freeze, ControlInvariant, ModuleInvariant, Idle, TypeOK
  <2> QED BY <2>1, <2>2
<1>14. CASE StartWithoutHandler
  <2>1. ControlInvariant'
    BY <1>14, <1>t, EnterRunningFacts DEF StartWithoutHandler, Freeze, ControlInvariant, ModuleInvariant, Idle, TypeOK
  <2>2. ModuleInvariant'
    BY <1>14, <1>t DEF StartWithoutHandler, EnterRunning, FaultStart, Freeze, ControlInvariant, ModuleInvariant, Idle, TypeOK
  <2> QED BY <2>1, <2>2
<1>15. CASE BeginModuleStartup
  <2>1. ControlInvariant'
    <3>1. start'.pc = "module_init" /\ start'.idx = 1 /\ started_modules' = <<>>
      BY <1>15, <1>t DEF BeginModuleStartup, TypeOK, StartFrames
    <3>2. active = {}
      BY <1>15, <1>t DEF BeginModuleStartup, Freeze, ModuleInvariant
    <3>3. <<>> = SubSeq(configured_order, 1, 0) /\ ToSet(<<>>) = {}
      BY SubSeqEmpty DEF ToSet
    <3> QED BY <1>15, <1>t, <3>1, <3>2, <3>3 DEF BeginModuleStartup, Freeze, ControlInvariant, ModuleInvariant, Idle, TypeOK
  <2>2. ModuleInvariant'
    BY <1>15, <1>t DEF BeginModuleStartup, Freeze, ControlInvariant, ModuleInvariant, Idle, TypeOK
  <2> QED BY <2>1, <2>2
<1>16. ASSUME NEW ok \in BOOLEAN, ModuleInitializeReturns(ok) PROVE ControlInvariant' /\ ModuleInvariant'
  <2>1. ControlInvariant'
    <3>1. CASE ok
      BY <1>16, <1>t, <3>1 DEF ModuleInitializeReturns, StartFrames, ControlInvariant, ModuleInvariant, Idle, TypeOK
    <3>2. CASE ~ok
      BY <1>16, <1>t, <3>2, FaultStartFacts DEF ModuleInitializeReturns, ControlInvariant, ModuleInvariant, Idle, TypeOK
    <3> QED BY <3>1, <3>2
  <2>2. ModuleInvariant'
    BY <1>16, <1>t DEF ModuleInitializeReturns, FaultStart, ControlInvariant, ModuleInvariant, Idle, TypeOK
  <2> QED BY <2>1, <2>2
<1>17. ASSUME NEW ok \in BOOLEAN, ModuleStartReturns(ok) PROVE ControlInvariant' /\ ModuleInvariant'
  <2>0. ok => /\ started_modules' = SubSeq(configured_order, 1, start.idx)
              /\ active' = ToSet(started_modules')
    <3> SUFFICES ASSUME ok PROVE /\ started_modules' = SubSeq(configured_order, 1, start.idx)
                                 /\ active' = ToSet(started_modules')
      OBVIOUS
    <3>1. /\ start.idx \in 1..Len(configured_order)
          /\ started_modules = SubSeq(configured_order, 1, start.idx - 1)
          /\ active = ToSet(started_modules)
      BY <1>17, <1>t DEF ModuleStartReturns, IsLastModule, ControlInvariant, TypeOK
    <3>2. /\ started_modules' = Append(started_modules, configured_order[start.idx])
          /\ active' = active \cup {configured_order[start.idx]}
      BY <1>17 DEF ModuleStartReturns, IsLastModule
    <3>3. started_modules' = SubSeq(configured_order, 1, start.idx)
      <4>1. /\ configured_order \in Seq(ModuleIds) /\ started_modules \in Seq(ModuleIds)
            /\ 1 \in 1..Len(configured_order) /\ start.idx \in 1..Len(configured_order)
            /\ configured_order[start.idx] \in ModuleIds
        BY <1>t, <3>1 DEF TypeOK
      <4>2. SubSeq(configured_order, 1, start.idx) = started_modules \o <<configured_order[start.idx]>>
        BY <3>1, <4>1, SubSeqRecursiveSecond
      <4> QED BY <3>2, <4>1, <4>2, AppendIsConcat
    <3>4. active' = ToSet(started_modules')
      BY <1>t, <3>1, <3>2, AppendProperties DEF TypeOK, ToSet
    <3> QED BY <3>3, <3>4
  <2>1. ControlInvariant'
    <3>1. CASE ~ok
      BY <1>17, <1>t, <3>1, FaultStartFacts DEF ModuleStartReturns, IsLastModule, ControlInvariant, ModuleInvariant, Idle, TypeOK
    <3>2. CASE ok /\ start.idx = Len(configured_order)
      BY <1>17, <1>t, <3>2, EnterRunningFacts DEF ModuleStartReturns, IsLastModule, ControlInvariant, ModuleInvariant, Idle, TypeOK
    <3>3. CASE ok /\ start.idx # Len(configured_order)
      <4>1. start' = [start EXCEPT !.pc = "module_init", !.idx = start.idx + 1]
        BY <1>17, <3>3 DEF ModuleStartReturns, IsLastModule
      <4>2. start'.pc = "module_init" /\ start'.idx = start.idx + 1
        BY <4>1, <1>t DEF TypeOK, StartFrames
      <4>3. started_modules' = SubSeq(configured_order, 1, start'.idx - 1)
        BY <1>17, <1>t, <2>0, <3>3, <4>2 DEF TypeOK, StartFrames
      <4> QED BY <1>17, <1>t, <2>0, <3>3, <4>2, <4>3 DEF ModuleStartReturns, IsLastModule, ControlInvariant, ModuleInvariant, Idle, TypeOK
    <3> QED BY <3>1, <3>2, <3>3
  <2>2. ModuleInvariant'
    BY <1>17, <1>t, <2>0 DEF ModuleStartReturns, IsLastModule, ControlInvariant, ModuleInvariant, Idle, TypeOK
  <2> QED BY <2>1, <2>2
<1>18. ASSUME NEW ok \in BOOLEAN, ModuleStopReturns(ok) PROVE ControlInvariant' /\ ModuleInvariant'
  <2>1. ControlInvariant'
    BY <1>18, <1>t DEF ModuleStopReturns, ControlInvariant, ModuleInvariant, Idle, TypeOK
  <2>2. ModuleInvariant'
    BY <1>18, <1>t DEF ModuleStopReturns, ControlInvariant, ModuleInvariant, Idle, TypeOK
  <2> QED BY <2>1, <2>2
<1>19. ASSUME NEW ok \in BOOLEAN, ModuleTeardownReturns(ok) PROVE ControlInvariant' /\ ModuleInvariant'
  <2>1. ControlInvariant'
    BY <1>19, <1>t DEF ModuleTeardownReturns, ControlInvariant, ModuleInvariant, Idle, TypeOK
  <2>2. ModuleInvariant'
    BY <1>19, <1>t DEF ModuleTeardownReturns, ControlInvariant, ModuleInvariant, Idle, TypeOK
  <2> QED BY <2>1, <2>2
<1>20. CASE EndModules
  <2>1. ControlInvariant'
    BY <1>20, <1>t DEF EndModules, ControlInvariant, ModuleInvariant, Idle, TypeOK
  <2>2. ModuleInvariant'
    BY <1>20, <1>t DEF EndModules, ControlInvariant, ModuleInvariant, Idle, TypeOK
  <2> QED BY <2>1, <2>2
<1>21. CASE DispatchReturns
  <2>1. ControlInvariant'
    BY <1>21, <1>t DEF DispatchReturns, ControlInvariant, ModuleInvariant, Idle, TypeOK
  <2>2. ModuleInvariant'
    BY <1>21, <1>t DEF DispatchReturns, ControlInvariant, ModuleInvariant, Idle, TypeOK
  <2> QED BY <2>1, <2>2
<1>22. CASE EndDrain
  <2>1. ControlInvariant'
    BY <1>22, <1>t DEF EndDrain, ControlInvariant, ModuleInvariant, Idle, TypeOK
  <2>2. ModuleInvariant'
    BY <1>22, <1>t DEF EndDrain, ControlInvariant, ModuleInvariant, Idle, TypeOK
  <2> QED BY <2>1, <2>2
<1>23. ASSUME NEW ok \in BOOLEAN, PlatformStepReturns(ok) PROVE ControlInvariant' /\ ModuleInvariant'
  <2>1. ControlInvariant'
    BY <1>23, <1>t DEF PlatformStepReturns, ControlInvariant, ModuleInvariant, Idle, TypeOK
  <2>2. ModuleInvariant'
    BY <1>23, <1>t DEF PlatformStepReturns, ControlInvariant, ModuleInvariant, Idle, TypeOK
  <2> QED BY <2>1, <2>2
<1>24. CASE TeardownServices
  <2>1. ControlInvariant'
    BY <1>24, <1>t DEF TeardownServices, BeginTeardown, ControlInvariant, ModuleInvariant, Idle, TypeOK
  <2>2. ModuleInvariant'
    BY <1>24, <1>t DEF TeardownServices, BeginTeardown, ControlInvariant, ModuleInvariant, Idle, TypeOK
  <2> QED BY <2>1, <2>2
<1>25. CASE StopFails
  <2>1. ControlInvariant'
    BY <1>25, <1>t, LifecycleFacts DEF StopFails, IdleStop, ControlInvariant, ModuleInvariant, Idle, TypeOK
  <2>2. ModuleInvariant'
    BY <1>25, <1>t DEF StopFails, IdleStop, ControlInvariant, ModuleInvariant, Idle, TypeOK
  <2> QED BY <2>1, <2>2
<1>26. CASE StopSucceeds
  <2>1. ControlInvariant'
    BY <1>26, <1>t DEF StopSucceeds, IdleStop, ResetForNextStartCycle, ControlInvariant, ModuleInvariant, Idle, TypeOK
  <2>2. ModuleInvariant'
    BY <1>26, <1>t DEF StopSucceeds, IdleStop, ResetForNextStartCycle, ControlInvariant, ModuleInvariant, Idle, TypeOK
  <2> QED BY <2>1, <2>2
<1>27. CASE UNCHANGED vars
  <2>1. ControlInvariant'
    BY <1>27, <1>t DEF vars, ControlInvariant, ModuleInvariant, Idle, TypeOK
  <2>2. ModuleInvariant'
    BY <1>27, <1>t DEF vars, ControlInvariant, ModuleInvariant, Idle, TypeOK
  <2> QED BY <2>1, <2>2
<1> QED
  BY <1>1, <1>2, <1>3, <1>4, <1>5, <1>6, <1>7, <1>8, <1>9, <1>10, <1>11, <1>12, <1>13, <1>14, <1>15, <1>16, <1>17, <1>18, <1>19, <1>20, <1>21, <1>22, <1>23, <1>24, <1>25, <1>26, <1>27
     DEF Next, ClientStep, StartStep, StopStep

\* SafetyInvariant holds in every reachable state.
LEMMA SafetyHolds ==
  ASSUME "start" \notin ReentrantStop
  PROVE  Spec => []SafetyInvariant
<1>1. Init => SafetyInvariant
  BY SafetyInit
<1>2. SafetyInvariant /\ [Next]_vars => SafetyInvariant'
  BY SafetyStep
<1> QED BY <1>1, <1>2, PTL DEF Spec

\* KernelRuntime never loses track of a started module: whatever callbacks fail
\* and however Start and Stop alternate, each module that was started and not yet
\* told to stop is on the list the next Stop walks.
THEOREM NoModuleIsForgotten ==
  ASSUME "start" \notin ReentrantStop
  PROVE  Spec => []NoModuleForgotten
<1>1. SafetyInvariant => NoModuleForgotten
  BY DEF SafetyInvariant, TypeOK, ModuleInvariant, NoModuleForgotten, ToSet, StopFrames
<1> QED BY <1>1, SafetyHolds, PTL

\* Modules of the graph are active only while the services are frozen.
THEOREM ModulesAlwaysRunOnFrozenServices ==
  ASSUME "start" \notin ReentrantStop
  PROVE  Spec => []ModulesRunOnFrozenServices
<1>1. SafetyInvariant => ModulesRunOnFrozenServices
  BY DEF SafetyInvariant, ModuleInvariant, ModulesRunOnFrozenServices
<1> QED BY <1>1, SafetyHolds, PTL

\* In state Stopped the shutdown is complete and the services are open again.
THEOREM StoppedIsAlwaysClean ==
  ASSUME "start" \notin ReentrantStop
  PROVE  Spec => []StoppedIsClean
<1>1. SafetyInvariant => StoppedIsClean
  BY DEF SafetyInvariant, ControlInvariant, ModuleInvariant, StoppedIsClean
<1> QED BY <1>1, SafetyHolds, PTL

-----------------------------------------------------------------------------
(***************************************************************************)
(* What a Start that reaches Running leaves behind.                        *)
(***************************************************************************)
Defaults == ToSet(DefaultServices)

\* After the default bootstrap the default services stay registered for the rest of Start.
DefaultsInvariant ==
  hooks.bootstrap = "default" /\ start.pc \in {"initialize", "module_init", "module_start"} =>
    Defaults \subseteq Registered

\* While Start is in progress, other steps than its own are calls of a client callback: they
\* register services and leave the rest of what Start relies on alone.
LEMMA InsideStart ==
  ASSUME "start" \notin ReentrantStop, SafetyInvariant, start.pc # "idle", ClientStep \/ StopStep
  PROVE  /\ UNCHANGED <<start, state, hooks, phase>>
         /\ Registered \subseteq Registered' /\ Registered' \subseteq Registered \cup ClientKeys
<1>1. TypeOK /\ stop.pc = "idle" /\ ~Idle
  BY DEF SafetyInvariant, ControlInvariant, Idle
<1>2. ~MayCallStop
  BY <1>1 DEF MayCallStop, InStopCallback
<1>3. ~StopStep
  BY <1>1 DEF StopStep, ModuleStopReturns, ModuleTeardownReturns, EndModules, DispatchReturns, EndDrain,
              PlatformStepReturns, TeardownServices, StopFails, StopSucceeds
<1>4. (\E k \in ClientKeys : ClientRegister(k)) \/ EnqueueDeferred
  BY <1>1, <1>2, <1>3 DEF ClientStep, SetHooks, ConfigureModules, RecordStartedModules, StartCall, StopCall, StopRefused
<1>5. ASSUME NEW k \in ClientKeys, ClientRegister(k)
      PROVE  UNCHANGED <<start, state, hooks, phase>> /\ Registered' = Registered \cup {k}
  BY <1>5 DEF ClientRegister, Register, WithEntry, Registered, setup
<1>6. CASE EnqueueDeferred
  BY <1>6 DEF EnqueueDeferred, setup, services, contextVars, Registered
<1> QED BY <1>4, <1>5, <1>6

\* A step outside Start enters Start at its beginning, if at all.
LEMMA OutsideStart ==
  ASSUME TypeOK, start.pc = "idle", Next
  PROVE  UNCHANGED start \/ StartCall
<1>1. ~StartStep
  BY DEF StartStep, DefaultBootstrap, BootstrapStepReturns, InitializeFails, FreezeFails, GraphIsInvalid,
         StartWithoutHandler, BeginModuleStartup, ModuleInitializeReturns, ModuleStartReturns
<1>2. CASE ClientStep
  BY <1>2 DEF ClientStep, SetHooks, ConfigureModules, RecordStartedModules, ClientRegister, EnqueueDeferred,
              StopCall, StopRefused
<1>3. CASE StopStep
  BY <1>3 DEF StopStep, ModuleStopReturns, ModuleTeardownReturns, EndModules, DispatchReturns, EndDrain,
              PlatformStepReturns, TeardownServices, StopFails, StopSucceeds
<1> QED BY <1>1, <1>2, <1>3 DEF Next

\* A default bootstrap that succeeds has registered all three services.
LEMMA DefaultsRegistered ==
  ASSUME RegisterDefaultBootstrapServices, RegisteredDefaults = Len(DefaultServices)
  PROVE  Defaults \subseteq Registered'
<1>1. Len(DefaultServices) = 3 /\ DefaultServices \in Seq({"Diagnostics", "Configuration", "Timing"})
  BY DEF DefaultServices
<1>2. SubSeq(DefaultServices, 1, 3) = DefaultServices
  BY <1>1, SubSeqFull
<1>3. entries' = [k \in Registered \cup Defaults |->
                    IF k \in Registered THEN entries[k]
                    ELSE [ownership |-> "ContextOwned",
                          sequence |-> registration_sequence
                                       + (CHOOSE i \in DOMAIN DefaultServices : DefaultServices[i] = k) - 1]]
  BY <1>1, <1>2 DEF RegisterDefaultBootstrapServices, Defaults
<1> QED BY <1>3 DEF Registered

\* A default bootstrap in an open context without any of them succeeds.
LEMMA DefaultsAreFree ==
  ASSUME phase = "Open", Defaults \cap Registered = {}
  PROVE  RegisteredDefaults = Len(DefaultServices)
<1>1. Len(DefaultServices) = 3 /\ \A i \in 1..3 : DefaultServices[i] \in Defaults
  BY DEF DefaultServices, Defaults, ToSet
<1> DEFINE Fits(n) == /\ \A i \in 1..n : phase = "Open" /\ DefaultServices[i] \notin Registered
                      /\ n < 3 => phase # "Open" \/ DefaultServices[n + 1] \in Registered
<1>2. \A n \in 0..3 : Fits(n) <=> n = 3
  <2> SUFFICES ASSUME NEW n \in 0..3 PROVE Fits(n) <=> n = 3
    OBVIOUS
  <2>1. \A i \in 1..3 : DefaultServices[i] \notin Registered
    BY <1>1
  <2>2. CASE n = 3
    BY <2>1, <2>2
  <2>3. CASE n # 3
    <3>1. n < 3 /\ n + 1 \in 1..3
      BY <2>3
    <3> QED BY <2>1, <2>3, <3>1
  <2> QED BY <2>2, <2>3
<1>3. RegisteredDefaults = CHOOSE n \in 0..3 : Fits(n)
  BY <1>1 DEF RegisteredDefaults
<1> HIDE DEF Fits
<1>4. 3 \in 0..3
  OBVIOUS
<1> QED BY <1>1, <1>2, <1>3, <1>4

\* Every step keeps the default services of a Start that registered them.
LEMMA DefaultsStep ==
  ASSUME "start" \notin ReentrantStop, SafetyInvariant, DefaultsInvariant, [Next]_vars
  PROVE  DefaultsInvariant'
<1>t. TypeOK
  BY DEF SafetyInvariant
<1> SUFFICES ASSUME Next PROVE DefaultsInvariant'
  BY DEF DefaultsInvariant, vars, setup, services, contextVars, Registered, Defaults
<1>1. CASE start.pc = "idle"
  <2>1. start'.pc \in {"idle", "bootstrap"}
    BY <1>t, <1>1, OutsideStart DEF StartCall
  <2> QED BY <2>1 DEF DefaultsInvariant
<1>2. CASE start.pc # "idle" /\ (ClientStep \/ StopStep)
  BY <1>2, InsideStart DEF DefaultsInvariant, Defaults
<1>3. CASE DefaultBootstrap
  <2>1. CASE RegisteredDefaults = Len(DefaultServices)
    BY <1>3, <2>1, DefaultsRegistered DEF DefaultBootstrap, DefaultsInvariant, Defaults
  <2>2. CASE RegisteredDefaults # Len(DefaultServices)
    <3>1. FaultStart(FALSE)
      BY <1>3, <2>2 DEF DefaultBootstrap, AfterBootstrap
    <3> QED BY <1>t, <3>1 DEF FaultStart, DefaultsInvariant, TypeOK, StartFrames
  <2> QED BY <2>1, <2>2
<1>4. ASSUME NEW ok \in BOOLEAN, BootstrapStepReturns(ok) PROVE DefaultsInvariant'
  BY <1>4 DEF BootstrapStepReturns, DefaultsInvariant, setup
<1>5. CASE InitializeFails \/ FreezeFails \/ GraphIsInvalid \/ StartWithoutHandler
  <2>1. start'.pc = "idle"
    BY <1>t, <1>5 DEF InitializeFails, FreezeFails, GraphIsInvalid, StartWithoutHandler, EnterRunning, FaultStart,
                      TypeOK, StartFrames
  <2> QED BY <2>1 DEF DefaultsInvariant
<1>6. CASE BeginModuleStartup
  BY <1>6 DEF BeginModuleStartup, Freeze, DefaultsInvariant, Defaults, Registered, setup
<1>7. ASSUME NEW ok \in BOOLEAN, ModuleInitializeReturns(ok) \/ ModuleStartReturns(ok) PROVE DefaultsInvariant'
  BY <1>7 DEF ModuleInitializeReturns, ModuleStartReturns, DefaultsInvariant, Defaults, Registered, setup,
              services, contextVars
<1>8. CASE StartStep
  BY <1>3, <1>4, <1>5, <1>6, <1>7, <1>8 DEF StartStep
<1> QED BY <1>1, <1>2, <1>8 DEF Next

\* Running is entered by the last step of Start only.
LEMMA EntersRunning ==
  ASSUME SafetyInvariant, Next, state # "Running", state' = "Running"
  PROVE  StartWithoutHandler \/ ModuleStartReturns(TRUE)
<1>t. TypeOK
  BY DEF SafetyInvariant
<1>1. AfterFault(state) # "Running"
  BY <1>t, LifecycleFacts DEF AfterFault
<1>2. ~ClientStep
  BY <1>1 DEF ClientStep, SetHooks, ConfigureModules, RecordStartedModules, ClientRegister, EnqueueDeferred,
              StartCall, StopCall, StopRefused
<1>3. ~StopStep
  BY <1>1 DEF StopStep, ModuleStopReturns, ModuleTeardownReturns, EndModules, DispatchReturns, EndDrain,
              PlatformStepReturns, TeardownServices, StopFails, StopSucceeds
<1>4. ~FaultStart(TRUE) /\ ~FaultStart(FALSE)
  BY <1>1 DEF FaultStart
<1>5. ~DefaultBootstrap /\ \A ok \in BOOLEAN : ~BootstrapStepReturns(ok)
  BY <1>4 DEF DefaultBootstrap, BootstrapStepReturns, AfterBootstrap, FaultStart
<1>6. ~InitializeFails /\ ~FreezeFails /\ ~GraphIsInvalid /\ ~BeginModuleStartup
  BY <1>4 DEF InitializeFails, FreezeFails, GraphIsInvalid, BeginModuleStartup
<1>7. /\ \A ok \in BOOLEAN : ~ModuleInitializeReturns(ok)
      /\ ~ModuleStartReturns(FALSE)
  BY <1>4 DEF ModuleInitializeReturns, ModuleStartReturns
<1> QED BY <1>2, <1>3, <1>5, <1>6, <1>7 DEF Next, StartStep

\* Start reaches Running only with frozen services, the default services registered if it
\* registered them, and all modules of the graph started, whatever callbacks did meanwhile.
THEOREM RunningIsAlwaysReady ==
  ASSUME "start" \notin ReentrantStop
  PROVE  Spec => RunningIsReady
<1> DEFINE Ready == /\ phase' = "Frozen"
                    /\ hooks.bootstrap = "default" => ToSet(DefaultServices) \subseteq DOMAIN entries'
                    /\ modules_configured => /\ graph_valid
                                             /\ started_modules' = configured_order
                                             /\ active' = ToSet(configured_order)
<1>1. ASSUME SafetyInvariant, DefaultsInvariant, Next, state # "Running", state' = "Running"
      PROVE  Ready
  <2>t. TypeOK /\ ControlInvariant /\ ModuleInvariant
    BY <1>1 DEF SafetyInvariant
  <2>1. CASE StartWithoutHandler
    <3>1. phase = "Open" /\ phase' = "Frozen" /\ entries' = entries /\ start.pc = "initialize"
      BY <2>1 DEF StartWithoutHandler, Freeze
    <3>2. hooks.bootstrap = "default" => ToSet(DefaultServices) \subseteq DOMAIN entries'
      BY <1>1, <3>1 DEF DefaultsInvariant, Defaults, Registered
    <3>3. ASSUME modules_configured
          PROVE  graph_valid /\ started_modules' = configured_order /\ active' = ToSet(configured_order)
      BY <2>1, <2>t, <3>1, <3>3 DEF StartWithoutHandler, ModuleInvariant
    <3> QED BY <3>1, <3>2, <3>3
  <2>2. CASE ModuleStartReturns(TRUE)
    <3>1. /\ start.pc = "module_start" /\ UNCHANGED <<phase, entries>>
          /\ phase = "Frozen" /\ modules_configured /\ graph_valid /\ state = "Initializing"
          /\ started_modules = SubSeq(configured_order, 1, start.idx - 1)
          /\ active = ToSet(started_modules) /\ start.idx \in 1..Len(configured_order)
      BY <2>2, <2>t DEF ModuleStartReturns, ControlInvariant, TypeOK, services, contextVars
    <3>2. hooks.bootstrap = "default" => ToSet(DefaultServices) \subseteq DOMAIN entries'
      BY <1>1, <3>1 DEF DefaultsInvariant, Defaults, Registered
    <3>3. /\ start.idx = Len(configured_order)
          /\ started_modules' = Append(started_modules, configured_order[start.idx])
          /\ active' = active \cup {configured_order[start.idx]}
      BY <1>1, <2>2, <3>1 DEF ModuleStartReturns, IsLastModule
    <3>4. started_modules' = configured_order
      <4>1. /\ configured_order \in Seq(ModuleIds) /\ started_modules \in Seq(ModuleIds)
            /\ 1 \in 1..Len(configured_order) /\ configured_order[start.idx] \in ModuleIds
        BY <2>t, <3>1 DEF TypeOK
      <4>2. SubSeq(configured_order, 1, start.idx) = started_modules \o <<configured_order[start.idx]>>
        BY <3>1, <4>1, SubSeqRecursiveSecond
      <4>3. SubSeq(configured_order, 1, start.idx) = configured_order
        BY <3>3, <4>1, SubSeqFull
      <4> QED BY <3>3, <4>1, <4>2, <4>3, AppendIsConcat
    <3>5. active' = ToSet(started_modules')
      <4> DEFINE id == configured_order[start.idx]
      <4>1. started_modules \in Seq(ModuleIds) /\ id \in ModuleIds
        BY <2>t, <3>1 DEF TypeOK
      <4>2. active' = ToSet(started_modules) \cup {id} /\ started_modules' = Append(started_modules, id)
        BY <3>1, <3>3
      <4> HIDE DEF id
      <4>3. ToSet(Append(started_modules, id)) = ToSet(started_modules) \cup {id}
        BY <4>1, AppendProperties DEF ToSet
      <4> QED BY <4>2, <4>3
    <3> QED BY <3>1, <3>2, <3>4, <3>5
  <2> QED BY <1>1, <2>1, <2>2, EntersRunning
<1>2. SafetyInvariant /\ DefaultsInvariant /\ [Next]_vars =>
        [state # "Running" /\ state' = "Running" => Ready]_vars
  BY <1>1
<1>3. Init => DefaultsInvariant
  BY DEF Init, IdleStart, DefaultsInvariant
<1>4. SafetyInvariant /\ DefaultsInvariant /\ [Next]_vars => DefaultsInvariant'
  BY DefaultsStep
<1> QED BY <1>2, <1>3, <1>4, SafetyHolds, PTL DEF Spec, RunningIsReady

-----------------------------------------------------------------------------
(***************************************************************************)
(* What Stop leaves for the next Start.                                    *)
(***************************************************************************)
\* In Stopped, and in a Start that came from Stopped, no default service is registered
\* before the bootstrap, and the context is open until Start freezes it.
CycleInvariant ==
  /\ state = "Stopped" => Defaults \cap Registered = {}
  /\ start.pc = "bootstrap" /\ start.from = "Stopped" => phase = "Open" /\ Defaults \cap Registered = {}
  /\ start.pc = "initialize" /\ start.from = "Stopped" => phase = "Open"

\* A step that leaves the kernel in Stopped registers at most a service of the client, or
\* resets the context.
LEMMA StaysClean ==
  ASSUME ClientKeys \cap Defaults = {}, SafetyInvariant, CycleInvariant, Next, state' = "Stopped"
  PROVE  Defaults \cap Registered' = {}
<1>t. TypeOK /\ ControlInvariant
  BY DEF SafetyInvariant
<1>1. CASE StopSucceeds
  BY <1>1 DEF StopSucceeds, ResetForNextStartCycle, NoEntries, Registered
<1>2. ASSUME state # "Stopped" PROVE StopSucceeds
  <2>1. AfterFault(state) # "Stopped"
    BY <1>t, <1>2, LifecycleFacts DEF TypeOK
  <2>2. ~ClientStep
    BY <1>2, <2>1 DEF ClientStep, SetHooks, ConfigureModules, RecordStartedModules, ClientRegister, EnqueueDeferred,
                      StartCall, StopCall, StopRefused
  <2>3. ~FaultStart(TRUE) /\ ~FaultStart(FALSE)
    BY <2>1 DEF FaultStart
  <2>4. ~EnterRunning
    BY <2>3 DEF EnterRunning
  <2>5. ~DefaultBootstrap /\ \A ok \in BOOLEAN : ~BootstrapStepReturns(ok)
    BY <2>3 DEF DefaultBootstrap, BootstrapStepReturns, AfterBootstrap, FaultStart
  <2>6. ~InitializeFails /\ ~FreezeFails /\ ~GraphIsInvalid /\ ~StartWithoutHandler /\ ~BeginModuleStartup
    BY <1>2, <2>3, <2>4
       DEF InitializeFails, FreezeFails, GraphIsInvalid, StartWithoutHandler, BeginModuleStartup
  <2>7. \A ok \in BOOLEAN : ~ModuleInitializeReturns(ok) /\ ~ModuleStartReturns(ok)
    BY <1>2, <2>3, <2>4 DEF ModuleInitializeReturns, ModuleStartReturns
  <2>8. StopStep
    BY <2>2, <2>5, <2>6, <2>7 DEF Next, StartStep
  <2> QED BY <1>2, <2>1, <2>8
          DEF StopStep, ModuleStopReturns, ModuleTeardownReturns, EndModules, DispatchReturns, EndDrain,
              PlatformStepReturns, TeardownServices, StopFails
<1>3. CASE state = "Stopped"
  <2>1. start.pc = "idle" /\ stop.pc = "idle" /\ Defaults \cap Registered = {}
    BY <1>t, <1>3 DEF ControlInvariant, CycleInvariant, TypeOK, StartFrames
  <2>2. ~StartStep
    BY <2>1 DEF StartStep, DefaultBootstrap, BootstrapStepReturns, InitializeFails, FreezeFails, GraphIsInvalid,
                StartWithoutHandler, BeginModuleStartup, ModuleInitializeReturns, ModuleStartReturns
  <2>3. ~StopStep
    BY <2>1 DEF StopStep, ModuleStopReturns, ModuleTeardownReturns, EndModules, DispatchReturns, EndDrain,
                PlatformStepReturns, TeardownServices, StopFails, StopSucceeds
  <2>4. ASSUME NEW k \in ClientKeys, ClientRegister(k) PROVE Registered' = Registered \cup {k}
    BY <2>4 DEF ClientRegister, Register, WithEntry, Registered
  <2>5. (\E k \in ClientKeys : ClientRegister(k)) \/ entries' = entries
    BY <2>2, <2>3 DEF Next, ClientStep, SetHooks, ConfigureModules, RecordStartedModules, EnqueueDeferred,
                      StartCall, StopCall, StopRefused, services, contextVars
  <2> QED BY <2>1, <2>4, <2>5 DEF Registered
<1> QED BY <1>1, <1>2, <1>3

\* Every step keeps the context ready for a Start from Stopped.
LEMMA CycleStep ==
  ASSUME "start" \notin ReentrantStop, ClientKeys \cap Defaults = {}, SafetyInvariant, CycleInvariant, [Next]_vars
  PROVE  CycleInvariant'
<1>t. TypeOK /\ ControlInvariant
  BY DEF SafetyInvariant
<1> SUFFICES ASSUME Next PROVE CycleInvariant'
  BY DEF CycleInvariant, vars, setup, services, contextVars, Registered, Defaults
<1> DEFINE Progress == /\ start.pc = "bootstrap" /\ start.from = "Stopped" =>
                            phase = "Open" /\ Defaults \cap Registered = {}
                       /\ start.pc = "initialize" /\ start.from = "Stopped" => phase = "Open"
<1>0. SUFFICES Progress'
  BY StaysClean DEF CycleInvariant, Defaults
<1>1. CASE start.pc = "idle"
  <2>1. CASE UNCHANGED start
    BY <1>1, <2>1
  <2>2. CASE StartCall
    BY <1>t, <2>2 DEF StartCall, ControlInvariant, CycleInvariant, Registered, Defaults, services, contextVars
  <2> QED BY <1>t, <1>1, <2>1, <2>2, OutsideStart
<1>2. CASE start.pc # "idle" /\ (ClientStep \/ StopStep)
  BY <1>2, InsideStart DEF CycleInvariant, Defaults
<1>3. CASE DefaultBootstrap \/ \E ok \in BOOLEAN : BootstrapStepReturns(ok)
  <2>1. start.pc = "bootstrap" /\ phase' = phase
    BY <1>3 DEF DefaultBootstrap, BootstrapStepReturns, RegisterDefaultBootstrapServices, services, contextVars
  <2>2. start'.pc \in {"initialize", "idle"} /\ start'.from = start.from
    BY <1>t, <1>3 DEF DefaultBootstrap, BootstrapStepReturns, AfterBootstrap, FaultStart, TypeOK, StartFrames
  <2> QED BY <2>1, <2>2 DEF CycleInvariant
<1>4. CASE InitializeFails \/ FreezeFails \/ GraphIsInvalid \/ StartWithoutHandler
  <2>1. start'.pc = "idle"
    BY <1>t, <1>4 DEF InitializeFails, FreezeFails, GraphIsInvalid, StartWithoutHandler, EnterRunning, FaultStart,
                      TypeOK, StartFrames
  <2> QED BY <2>1
<1>5. CASE BeginModuleStartup \/ \E ok \in BOOLEAN : ModuleInitializeReturns(ok) \/ ModuleStartReturns(ok)
  <2>1. start'.pc \notin {"bootstrap", "initialize"}
    BY <1>t, <1>5 DEF BeginModuleStartup, ModuleInitializeReturns, ModuleStartReturns, EnterRunning, FaultStart,
                      TypeOK, StartFrames
  <2> QED BY <2>1
<1>6. CASE StartStep
  BY <1>3, <1>4, <1>5, <1>6 DEF StartStep
<1> QED BY <1>1, <1>2, <1>6 DEF Next

\* A Start from Stopped reaches Running unless a callback of the client fails or the graph
\* is invalid: Stop, in whatever way earlier cycles failed, has reset what Start needs.
\* The client leaves the default services to the default bootstrap.
THEOREM StartAlwaysSucceedsUnlessClientFails ==
  ASSUME "start" \notin ReentrantStop, ClientKeys \cap ToSet(DefaultServices) = {}
  PROVE  Spec => StartSucceedsUnlessClientFails
<1>0. ClientKeys \cap Defaults = {}
  BY DEF Defaults
<1>1. ASSUME SafetyInvariant, CycleInvariant, Next, start.pc # "idle", start'.pc = "idle"
      PROVE  state' = "Running" \/ start'.blame \/ start.from = "Faulted"
  <2> SUFFICES ASSUME start.from = "Stopped" PROVE state' = "Running" \/ start'.blame
    BY <1>1 DEF SafetyInvariant, TypeOK, StartFrames
  <2>t. TypeOK /\ ControlInvariant
    BY <1>1 DEF SafetyInvariant
  <2>1. ASSUME FaultStart(TRUE) PROVE start'.blame
    BY <2>t, <2>1 DEF FaultStart, TypeOK, StartFrames
  <2>2. StartStep
    BY <1>1, InsideStart DEF Next
  <2>3. CASE DefaultBootstrap
    <3>1. start.pc = "bootstrap" /\ state = "Bootstrapping"
      BY <2>3, <2>t DEF DefaultBootstrap, ControlInvariant
    <3>2. RegisteredDefaults = Len(DefaultServices)
      BY <1>1, <3>1, DefaultsAreFree DEF CycleInvariant
    <3>3. CanTransitionTo(state, "Initializing")
      BY <3>1 DEF CanTransitionTo, LegalTransitions
    <3>4. start' = [start EXCEPT !.pc = "initialize"]
      BY <2>3, <3>2, <3>3 DEF DefaultBootstrap, AfterBootstrap
    <3> QED BY <1>1, <2>t, <3>4 DEF TypeOK, StartFrames
  <2>4. ASSUME NEW ok \in BOOLEAN, BootstrapStepReturns(ok) PROVE start'.blame
    <3>1. start.pc = "bootstrap" /\ state = "Bootstrapping"
      BY <2>4, <2>t DEF BootstrapStepReturns, ControlInvariant
    <3>2. CanTransitionTo(state, "Initializing")
      BY <3>1 DEF CanTransitionTo, LegalTransitions
    <3>3. ok => start' = [start EXCEPT !.pc = "initialize"]
      BY <2>4, <3>2 DEF BootstrapStepReturns, AfterBootstrap
    <3>4. ~ok
      BY <1>1, <2>t, <3>3 DEF TypeOK, StartFrames
    <3>5. FaultStart(~ok)
      BY <2>4, <3>4 DEF BootstrapStepReturns, AfterBootstrap
    <3> QED BY <2>t, <3>4, <3>5 DEF FaultStart, TypeOK, StartFrames
  <2>5. CASE InitializeFails \/ GraphIsInvalid
    BY <2>1, <2>5 DEF InitializeFails, GraphIsInvalid
  <2>6. ~FreezeFails
    BY <1>1 DEF FreezeFails, CycleInvariant
  <2>7. CASE StartWithoutHandler
    BY <2>t, <2>7, EnterRunningFacts DEF StartWithoutHandler, ControlInvariant
  <2>8. ~BeginModuleStartup
    BY <1>1, <2>t DEF BeginModuleStartup, TypeOK, StartFrames
  <2>9. ASSUME NEW ok \in BOOLEAN, ModuleInitializeReturns(ok) PROVE start'.blame
    <3>1. ok => start'.pc = "module_start"
      BY <2>9, <2>t DEF ModuleInitializeReturns, TypeOK, StartFrames
    <3> QED BY <1>1, <2>1, <2>9, <3>1 DEF ModuleInitializeReturns
  <2>10. ASSUME NEW ok \in BOOLEAN, ModuleStartReturns(ok) PROVE state' = "Running" \/ start'.blame
    <3>1. state = "Initializing"
      BY <2>10, <2>t DEF ModuleStartReturns, ControlInvariant
    <3>2. CASE ~ok
      BY <2>1, <2>10, <3>2 DEF ModuleStartReturns
    <3>3. CASE ok /\ IsLastModule
      BY <2>t, <2>10, <3>1, <3>3, EnterRunningFacts DEF ModuleStartReturns
    <3>4. CASE ok /\ ~IsLastModule
      <4>1. start'.pc = "module_init"
        BY <2>t, <2>10, <3>4 DEF ModuleStartReturns, TypeOK, StartFrames
      <4> QED BY <1>1, <4>1
    <3> QED BY <3>2, <3>3, <3>4
  <2> QED BY <2>2, <2>3, <2>4, <2>5, <2>6, <2>7, <2>8, <2>9, <2>10 DEF StartStep
<1>2. SafetyInvariant /\ CycleInvariant /\ [Next]_vars =>
        [start.pc # "idle" /\ start'.pc = "idle" => state' = "Running" \/ start'.blame \/ start.from = "Faulted"]_vars
  BY <1>1
<1>3. Init => CycleInvariant
  BY DEF Init, ContextInit, NoEntries, IdleStart, CycleInvariant, Registered
<1>4. SafetyInvariant /\ CycleInvariant /\ [Next]_vars => CycleInvariant'
  BY <1>0, CycleStep
<1> QED BY <1>2, <1>3, <1>4, SafetyHolds, PTL DEF Spec, StartSucceedsUnlessClientFails

-----------------------------------------------------------------------------
(***************************************************************************)
(* Kernel implements HostContract, for clients that configure modules and  *)
(* do not call Stop from callbacks.                                        *)
(***************************************************************************)
\* A list that starts modules once and after what they require.
Sound(s) ==
  /\ \A j, k \in 1..Len(s) : s[j] = s[k] => j = k
  /\ \A k \in 1..Len(s) : \A d \in Required[s[k]] : \E j \in 1..(k - 1) : s[j] = d

First(s, n) == {s[i] : i \in 1..n}

\* The active modules are exactly a beginning of a sound list: the one that Start has
\* walked, or the one that Stop has still to walk.
ContractInvariant ==
  /\ graph_valid => Sound(configured_order)
  /\ Sound(started_modules)
  /\ ~modules_configured => started_modules = <<>>
  /\ stop.pc = "idle" => active = First(started_modules, Len(started_modules))
  /\ stop.pc = "modules" => active = First(started_modules, stop.idx)
  /\ stop.pc = "module_teardown" => active = First(started_modules, stop.idx - 1)
  /\ stop.pc \in {"drain", "platform", "flush"} => active = {} /\ started_modules = <<>>

\* The startup order of a valid configuration is sound.
LEMMA ConfiguredIsSound ==
  ASSUME NEW c \in Configurations, ValidateModuleGraph(c).valid
  PROVE  Sound(ValidateModuleGraph(c).startup_order)
<1> DEFINE order == ValidateModuleGraph(c).startup_order
<1>1. order \in Seq(ModuleIds)
  BY ConfigurationFacts
<1>2. /\ \A j, k \in 1..Len(order) : order[j] = order[k] => j = k
      /\ \A k \in 1..Len(order) : \E i \in DOMAIN c :
           /\ c[i].id = order[k]
           /\ \A d \in ToSet(c[i].required_dependencies) : \E j \in 1..(k - 1) : order[j] = d
  BY ConfigurationFacts
<1> HIDE DEF order
<1>3. ASSUME NEW k \in 1..Len(order), NEW d \in Required[order[k]] PROVE \E j \in 1..(k - 1) : order[j] = d
  <2>1. PICK i \in DOMAIN c : /\ c[i].id = order[k]
                              /\ \A x \in ToSet(c[i].required_dependencies) : \E j \in 1..(k - 1) : order[j] = x
    BY <1>1, <1>2
  <2>2. order[k] \in ModuleIds
    BY <1>1
  <2>3. d \in ToSet(c[i].required_dependencies)
    BY <2>1, <2>2 DEF Required
  <2> QED BY <2>1, <2>3
<1>4. Sound(order)
  BY <1>1, <1>2, <1>3 DEF Sound
<1> QED BY <1>4 DEF order

\* The module that Start comes to next can be added to the active ones.
LEMMA NextModule ==
  ASSUME SafetyInvariant, ContractInvariant, start.pc = "module_start"
  PROVE  LET id == configured_order[start.idx]
         IN /\ id \in ModuleIds /\ id \notin active /\ Required[id] \subseteq active
            /\ Sound(Append(started_modules, id))
            /\ First(Append(started_modules, id), Len(Append(started_modules, id))) = active \cup {id}
<1> DEFINE id == configured_order[start.idx]
           n == start.idx - 1
           s == started_modules
<1>1. /\ start.idx \in 1..Len(configured_order) /\ configured_order \in Seq(ModuleIds) /\ s \in Seq(ModuleIds)
      /\ s = SubSeq(configured_order, 1, n) /\ stop.pc = "idle" /\ graph_valid
  BY DEF SafetyInvariant, TypeOK, ControlInvariant
<1>2. Sound(configured_order) /\ Sound(s) /\ active = First(s, Len(s))
  BY <1>1 DEF ContractInvariant
<1>3. n \in Nat /\ Len(s) = n /\ \A i \in 1..n : s[i] = configured_order[i]
  <2>1. n \in Nat /\ n <= Len(configured_order) /\ Len(configured_order) \in Nat
    BY <1>1
  <2> HIDE DEF n
  <2>2. \A i \in 1..n : configured_order[i] \in ModuleIds
    BY <1>1, <2>1
  <2> QED BY <1>1, <2>1, <2>2, SubSeqProperties
<1>4. id \in ModuleIds
  BY <1>1
<1>5. \A i \in 1..n : s[i] # id
  BY <1>1, <1>2, <1>3 DEF Sound
<1>6. ASSUME NEW d \in Required[id] PROVE \E i \in 1..n : s[i] = d
  <2>1. PICK j \in 1..n : configured_order[j] = d
    BY <1>1, <1>2, <1>6 DEF Sound
  <2>2. s[j] = d
    BY <1>3, <2>1
  <2> QED BY <2>2
<1> DEFINE t == Append(s, id)
<1>7. Len(t) = n + 1 /\ t[n + 1] = id /\ \A i \in 1..n : t[i] = s[i]
  <2> HIDE DEF id, n
  <2> QED BY <1>1, <1>3, <1>4, AppendProperties
<1>8. active = First(s, n)
  BY <1>2, <1>3
<1> HIDE DEF id, n, s, t
<1>9. Sound(t)
  <2>1. ASSUME NEW j \in 1..(n + 1), NEW k \in 1..(n + 1), t[j] = t[k] PROVE j = k
    <3>1. CASE j \in 1..n /\ k \in 1..n
      BY <1>2, <1>3, <1>7, <2>1, <3>1 DEF Sound
    <3>2. CASE j = n + 1 /\ k \in 1..n
      BY <1>5, <1>7, <2>1, <3>2
    <3>3. CASE j \in 1..n /\ k = n + 1
      BY <1>5, <1>7, <2>1, <3>3
    <3> QED BY <1>3, <3>1, <3>2, <3>3
  <2>2. ASSUME NEW k \in 1..(n + 1), NEW d \in Required[t[k]] PROVE \E j \in 1..(k - 1) : t[j] = d
    <3>1. CASE k \in 1..n
      <4>1. PICK j \in 1..(k - 1) : s[j] = d
        BY <1>2, <1>3, <1>7, <2>2, <3>1 DEF Sound
      <4>2. j \in 1..n
        BY <1>3, <3>1
      <4> QED BY <1>7, <4>1, <4>2
    <3>2. CASE k = n + 1
      <4>1. PICK j \in 1..n : s[j] = d
        BY <1>6, <1>7, <2>2, <3>2
      <4>2. j \in 1..(k - 1)
        BY <1>3, <3>2
      <4> QED BY <1>7, <4>1, <4>2
    <3> QED BY <1>3, <3>1, <3>2
  <2> QED BY <1>7, <2>1, <2>2 DEF Sound
<1>10. First(t, Len(t)) = active \cup {id}
  <2>1. 1..(n + 1) = (1..n) \cup {n + 1}
    BY <1>3
  <2> QED BY <1>7, <1>8, <2>1 DEF First
<1>11. id \notin active /\ Required[id] \subseteq active
  BY <1>5, <1>6, <1>8 DEF First
<1> QED BY <1>4, <1>9, <1>10, <1>11 DEF id, s, t

\* The module that Stop comes to next is active and none that is active requires it.
LEMMA NextStop ==
  ASSUME SafetyInvariant, ContractInvariant, stop.pc = "modules", stop.idx > 0
  PROVE  LET id == started_modules[stop.idx]
         IN /\ id \in ModuleIds /\ id \in active /\ \A n \in active : id \notin Required[n]
            /\ active \ {id} = First(started_modules, stop.idx - 1)
<1> DEFINE s == started_modules
           k == stop.idx
<1>1. s \in Seq(ModuleIds) /\ k \in 1..Len(s)
  BY DEF SafetyInvariant, TypeOK, ModuleInvariant, StopFrames
<1>2. Sound(s) /\ active = First(s, k)
  BY DEF ContractInvariant
<1> HIDE DEF s, k
<1>3. s[k] \in ModuleIds /\ s[k] \in active
  BY <1>1, <1>2 DEF First
<1>4. ASSUME NEW n \in active, s[k] \in Required[n] PROVE FALSE
  <2>1. PICK i \in 1..k : s[i] = n
    BY <1>2 DEF First
  <2>2. i \in 1..Len(s)
    BY <1>1
  <2>3. PICK j \in 1..(i - 1) : s[j] = s[k]
    BY <1>2, <1>4, <2>1, <2>2 DEF Sound
  <2>4. j \in 1..Len(s) /\ j # k
    BY <1>1, <2>2
  <2> QED BY <1>1, <1>2, <2>3, <2>4 DEF Sound
<1>5. active \ {s[k]} = First(s, k - 1)
  <2>1. 1..k = (1..(k - 1)) \cup {k}
    BY <1>1
  <2>2. \A i \in 1..(k - 1) : i \in 1..Len(s) /\ i # k
    BY <1>1
  <2>3. \A i \in 1..(k - 1) : s[i] # s[k]
    BY <1>1, <1>2, <2>2 DEF Sound
  <2> QED BY <1>2, <2>1, <2>3 DEF First
<1> QED BY <1>3, <1>4, <1>5 DEF s, k

\* Every step keeps ContractInvariant.
LEMMA ContractStep ==
  ASSUME "start" \notin ReentrantStop, RecordedOrders = {}, SafetyInvariant, SafetyInvariant', ContractInvariant, [Next]_vars
  PROVE  ContractInvariant'
<1>t. /\ TypeOK /\ TypeOK' /\ ControlInvariant /\ ControlInvariant' /\ ModuleInvariant
      /\ stop \in StopFrames /\ stop' \in StopFrames
  BY DEF SafetyInvariant, TypeOK
<1>e. Sound(<<>>) /\ First(<<>>, Len(<<>>)) = {}
  BY DEF Sound, First
<1> USE DEF setup, services, contextVars
\* Steps that leave the lists and the control of Stop as they are.
<1> DEFINE Kept == UNCHANGED <<modules_configured, graph_valid, configured_order, started_modules, stop, active>>
<1>k. ASSUME Kept PROVE ContractInvariant'
  BY <1>k DEF ContractInvariant, Sound, First
<1>1. ASSUME NEW h \in Hooks, SetHooks(h) PROVE ContractInvariant'
  BY <1>1, <1>k DEF SetHooks
<1>2. ASSUME NEW c \in Configurations, ConfigureModules(c) PROVE ContractInvariant'
  <2>1. graph_valid' => Sound(configured_order')
    BY <1>2, ConfiguredIsSound DEF ConfigureModules
  <2>2. modules_configured' /\ UNCHANGED <<started_modules, stop, state, active>> /\ stop.pc = "idle"
    BY <1>2 DEF ConfigureModules, Idle
  <2>3. Sound(started_modules') /\ active' = First(started_modules', Len(started_modules'))
    BY <2>2 DEF ContractInvariant
  <2> QED BY <2>1, <2>2, <2>3 DEF ContractInvariant
<1>4. ASSUME NEW k \in ClientKeys, ClientRegister(k) PROVE ContractInvariant'
  BY <1>4, <1>k DEF ClientRegister
<1>5. CASE EnqueueDeferred
  BY <1>5, <1>k DEF EnqueueDeferred
<1>6. CASE StartCall
  BY <1>6, <1>k DEF StartCall, Idle
<1>7. CASE StopCall
  <2>1. stop'.pc = "modules" /\ stop'.idx = Len(started_modules) /\ state' = "Stopping" /\ stop.pc = "idle"
    BY <1>7 DEF StopCall, IdleStop
  <2> QED BY <1>7, <2>1 DEF StopCall, ContractInvariant, Sound, First
<1>8. CASE StopRefused
  BY <1>8, <1>k DEF StopRefused
<1>9. CASE DefaultBootstrap
  <2>1. stop.pc = "idle"
    BY <1>t, <1>9 DEF DefaultBootstrap, ControlInvariant
  <2> QED BY <1>9, <1>k, <2>1 DEF DefaultBootstrap
<1>10. ASSUME NEW ok \in BOOLEAN, BootstrapStepReturns(ok) \/ ModuleInitializeReturns(ok) PROVE ContractInvariant'
  BY <1>10, <1>k DEF BootstrapStepReturns, ModuleInitializeReturns
<1>11. CASE InitializeFails \/ FreezeFails \/ GraphIsInvalid
  BY <1>11, <1>k DEF InitializeFails, FreezeFails, GraphIsInvalid
<1>12. CASE StartWithoutHandler
  <2>1. CASE ~modules_configured
    BY <1>12, <1>k, <2>1 DEF StartWithoutHandler
  <2>2. CASE modules_configured
    <3>1. active = {}
      BY <1>12, <1>t, <2>2 DEF StartWithoutHandler, Freeze, ModuleInvariant
    <3>2. /\ started_modules' = configured_order /\ active' = ToSet(configured_order) /\ stop' = stop
          /\ UNCHANGED <<modules_configured, graph_valid, configured_order>> /\ graph_valid /\ stop.pc = "idle"
      BY <1>12, <2>2, <3>1 DEF StartWithoutHandler
    <3>3. ToSet(configured_order) = First(configured_order, Len(configured_order))
      BY <1>t DEF TypeOK, ToSet, First
    <3> QED BY <2>2, <3>2, <3>3 DEF ContractInvariant, Sound, First
  <2> QED BY <2>1, <2>2
<1>13. CASE BeginModuleStartup
  <2>1. active = {}
    BY <1>13, <1>t DEF BeginModuleStartup, Freeze, ModuleInvariant
  <2>2. /\ started_modules' = <<>> /\ active' = {} /\ stop' = stop /\ stop.pc = "idle"
        /\ UNCHANGED <<modules_configured, graph_valid, configured_order>>
    BY <1>13, <2>1 DEF BeginModuleStartup
  <2> QED BY <1>e, <2>2 DEF ContractInvariant, Sound, First
<1>14. ASSUME NEW ok \in BOOLEAN, ModuleStartReturns(ok) PROVE ContractInvariant'
  <2>1. CASE ~ok
    BY <1>14, <1>k, <2>1 DEF ModuleStartReturns
  <2>2. CASE ok
    <3> DEFINE id == configured_order[start.idx]
    <3>1. /\ started_modules' = Append(started_modules, id) /\ active' = active \cup {id}
          /\ stop' = stop /\ stop.pc = "idle" /\ start.pc = "module_start"
          /\ UNCHANGED <<modules_configured, graph_valid, configured_order>> /\ modules_configured
      BY <1>14, <1>t, <2>2 DEF ModuleStartReturns, ControlInvariant
    <3>2. /\ Sound(Append(started_modules, id))
          /\ First(Append(started_modules, id), Len(Append(started_modules, id))) = active \cup {id}
      BY <3>1, NextModule
    <3> HIDE DEF id
    <3>3. Sound(started_modules') /\ active' = First(started_modules', Len(started_modules'))
      BY <3>1, <3>2
    <3>4. graph_valid' => Sound(configured_order')
      BY <3>1 DEF ContractInvariant
    <3> QED BY <3>1, <3>3, <3>4 DEF ContractInvariant, Sound, First
  <2> QED BY <2>1, <2>2
<1>15. ASSUME NEW ok \in BOOLEAN, ModuleStopReturns(ok) PROVE ContractInvariant'
  <2>1. /\ active' = First(started_modules, stop.idx - 1)
        /\ UNCHANGED <<state, modules_configured, graph_valid, configured_order, started_modules>>
        /\ stop.pc = "modules"
    BY <1>15, NextStop DEF ModuleStopReturns, ContractInvariant
  <2>2. \/ stop'.pc = "module_teardown" /\ stop'.idx = stop.idx
        \/ stop'.pc = "modules" /\ stop'.idx = stop.idx - 1
    BY <1>15, <1>t DEF ModuleStopReturns, StopFrames
  <2> QED BY <2>1, <2>2 DEF ContractInvariant, Sound, First
<1>16. ASSUME NEW ok \in BOOLEAN, ModuleTeardownReturns(ok) PROVE ContractInvariant'
  <2>1. stop'.pc = "modules" /\ stop'.idx = stop.idx - 1 /\ stop.pc = "module_teardown"
    BY <1>16, <1>t DEF ModuleTeardownReturns, StopFrames
  <2> QED BY <1>16, <2>1 DEF ModuleTeardownReturns, ContractInvariant, Sound, First
<1>17. CASE EndModules
  <2>1. stop'.pc = "drain" /\ stop.pc = "modules" /\ stop.idx = 0 /\ started_modules' = <<>>
    BY <1>17, <1>t DEF EndModules, StopFrames
  <2>2. active = {}
    BY <2>1 DEF ContractInvariant, First
  <2>3. Sound(started_modules')
    BY <1>e, <2>1 DEF Sound
  <2>4. graph_valid' => Sound(configured_order')
    BY <1>17 DEF EndModules, ContractInvariant, Sound
  <2> QED BY <1>17, <2>1, <2>2, <2>3, <2>4 DEF EndModules, ContractInvariant
<1>18. ASSUME NEW ok \in BOOLEAN, DispatchReturns \/ EndDrain \/ PlatformStepReturns(ok) \/ TeardownServices
       PROVE  ContractInvariant'
  <2>1. /\ stop.pc \in {"drain", "platform", "flush"} /\ stop'.pc \in {"drain", "platform", "flush"}
        /\ UNCHANGED <<state, modules_configured, graph_valid, configured_order, started_modules, active>>
    BY <1>18, <1>t DEF DispatchReturns, EndDrain, PlatformStepReturns, TeardownServices, StopFrames
  <2> QED BY <2>1 DEF ContractInvariant, Sound, First
<1>19. CASE StopFails \/ StopSucceeds
  <2>1. /\ stop.pc = "flush" /\ stop'.pc = "idle"
        /\ UNCHANGED <<modules_configured, graph_valid, configured_order, started_modules, active>>
    BY <1>19 DEF StopFails, StopSucceeds, IdleStop
  <2>2. active' = {} /\ started_modules' = <<>>
    BY <2>1 DEF ContractInvariant
  <2>3. active' = First(started_modules', Len(started_modules'))
    BY <1>e, <2>2
  <2>4. Sound(started_modules') /\ (graph_valid' => Sound(configured_order'))
    BY <1>e, <2>1, <2>2 DEF ContractInvariant, Sound
  <2> QED BY <2>1, <2>2, <2>3, <2>4 DEF ContractInvariant
<1>20. CASE UNCHANGED vars
  BY <1>20, <1>k DEF vars
<1> QED
  BY <1>1, <1>2, <1>4, <1>5, <1>6, <1>7, <1>8, <1>9, <1>10, <1>11, <1>12, <1>13, <1>14, <1>15, <1>16,
     <1>17, <1>18, <1>19, <1>20
     DEF Next, ClientStep, StartStep, StopStep

\* Every step of the kernel is a step of the contract, or none.
LEMMA ContractSimulation ==
  ASSUME "start" \notin ReentrantStop, RecordedOrders = {}, SafetyInvariant, ContractInvariant, [Next]_vars
  PROVE  [Contract!Next]_(Contract!vars)
<1>t. TypeOK /\ ControlInvariant /\ ModuleInvariant
  BY DEF SafetyInvariant
<1> USE DEF Contract!vars
\* A fault of Start is one for the contract as well.
<1>f. ASSUME state # "Stopped", NEW b \in BOOLEAN, FaultStart(b), UNCHANGED <<stop, active>>, stop.pc = "idle"
      PROVE  Contract!Fail
  BY <1>f, <1>t, FaultStartFacts DEF Contract!Fail
\* Steps the contract does not see.
<1>u. ASSUME UNCHANGED <<state, stop, active>> PROVE UNCHANGED Contract!vars
  BY <1>u
<1>s. ASSUME stop.pc # "idle", stop'.pc # "idle", UNCHANGED active PROVE UNCHANGED Contract!vars
  BY <1>s
<1>1. CASE ClientStep
  <2>1. ASSUME NEW x \in Hooks \cup Configurations \cup ClientKeys,
               SetHooks(x) \/ ConfigureModules(x) \/ ClientRegister(x) \/ EnqueueDeferred
        PROVE  UNCHANGED <<state, stop, active>>
    BY <2>1 DEF SetHooks, ConfigureModules, ClientRegister, EnqueueDeferred
  <2>2. CASE EnqueueDeferred
    BY <2>2 DEF EnqueueDeferred
  <2>3. CASE StartCall
    <3>1. state \in {"Stopped", "Faulted"}
      BY <1>t, <2>3 DEF StartCall, ControlInvariant, CanTransitionTo, LegalTransitions, TypeOK, LifecycleStates
    <3>2. Contract!Bootstrap
      BY <2>3, <3>1 DEF StartCall, Idle, Contract!Bootstrap
    <3> QED BY <3>2 DEF Contract!Next
  <2>4. CASE StopCall
    <3>1. state \in {"Initializing", "Running", "Faulted"}
      BY <1>t, <2>4, LifecycleFacts DEF StopCall, TypeOK
    <3>2. stop.pc = "idle" /\ stop'.pc = "modules" /\ UNCHANGED active
      BY <2>4 DEF StopCall, IdleStop
    <3>3. Contract!BeginStop
      BY <3>1, <3>2 DEF Contract!BeginStop
    <3> QED BY <3>3 DEF Contract!Next
  \* Only a callback of Stop is refused, and the shutdown it runs in goes on.
  <2>5. CASE StopRefused
    <3>1. InStopCallback
      BY <1>t, <2>5, LifecycleFacts DEF StopRefused, MayCallStop, ControlInvariant, TypeOK
    <3>2. stop.pc # "idle" /\ UNCHANGED <<stop, active>>
      BY <2>5, <3>1 DEF StopRefused, InStopCallback
    <3> QED BY <1>s, <3>2
  <2> QED BY <1>1, <1>u, <2>1, <2>2, <2>3, <2>4, <2>5 DEF ClientStep
<1>2. ASSUME NEW ok \in BOOLEAN, DefaultBootstrap \/ BootstrapStepReturns(ok) PROVE Contract!Next
  <2>1. state = "Bootstrapping" /\ stop.pc = "idle" /\ UNCHANGED <<stop, active>>
    BY <1>2, <1>t DEF DefaultBootstrap, BootstrapStepReturns, ControlInvariant
  <2>2. CASE state' = "Initializing"
    BY <2>1, <2>2 DEF Contract!Next, Contract!Initialize
  <2>3. CASE FaultStart(FALSE) \/ FaultStart(~ok)
    BY <1>f, <2>1, <2>3 DEF Contract!Next
  <2> QED BY <1>2, <2>2, <2>3 DEF DefaultBootstrap, BootstrapStepReturns, AfterBootstrap
<1>3. CASE InitializeFails \/ FreezeFails \/ GraphIsInvalid
  <2>1. /\ state = "Initializing" /\ stop.pc = "idle" /\ UNCHANGED <<stop, active>>
        /\ (FaultStart(TRUE) \/ FaultStart(FALSE))
    BY <1>3, <1>t DEF InitializeFails, FreezeFails, GraphIsInvalid, ControlInvariant
  <2> QED BY <1>f, <2>1 DEF Contract!Next
<1>4. CASE StartWithoutHandler
  <2>1. state = "Initializing" /\ state' = "Running" /\ stop.pc = "idle" /\ UNCHANGED stop
    BY <1>4, <1>t, EnterRunningFacts DEF StartWithoutHandler, ControlInvariant
  <2>2. CASE ~modules_configured
    BY <1>4, <2>1, <2>2 DEF StartWithoutHandler, Contract!Next, Contract!Run
  <2>3. CASE modules_configured
    <3>1. active = {} /\ active' = ToSet(configured_order) /\ graph_valid
      BY <1>4, <1>t, <2>3 DEF StartWithoutHandler, Freeze, ModuleInvariant
    <3>2. /\ configured_order \in Seq(ModuleIds) /\ Sound(configured_order)
          /\ ToSet(configured_order) = First(configured_order, Len(configured_order))
      BY <1>t, <3>1 DEF TypeOK, ContractInvariant, ToSet, First
    <3>3. active' \in SUBSET ModuleIds
      BY <3>1, <3>2 DEF ToSet
    <3>4. ASSUME NEW m \in active', NEW d \in Required[m] PROVE d \in active'
      <4>1. PICK k \in 1..Len(configured_order) : configured_order[k] = m
        BY <3>1, <3>2 DEF First
      <4>2. PICK j \in 1..(k - 1) : configured_order[j] = d
        BY <3>2, <4>1 DEF Sound
      <4>3. j \in 1..Len(configured_order)
        BY <3>2, <4>1
      <4> QED BY <3>1, <3>2, <4>2, <4>3 DEF First
    <3>5. Contract!Run
      BY <2>1, <3>1, <3>3, <3>4 DEF Contract!Run
    <3> QED BY <3>5 DEF Contract!Next
  <2> QED BY <2>2, <2>3
<1>5. CASE BeginModuleStartup
  BY <1>5, <1>u DEF BeginModuleStartup
<1>6. ASSUME NEW ok \in BOOLEAN, ModuleInitializeReturns(ok) PROVE Contract!Next \/ UNCHANGED Contract!vars
  <2>1. state = "Initializing" /\ stop.pc = "idle" /\ UNCHANGED <<stop, active>>
    BY <1>6, <1>t DEF ModuleInitializeReturns, ControlInvariant
  <2> QED BY <1>6, <1>f, <1>u, <2>1 DEF ModuleInitializeReturns, Contract!Next
<1>7. ASSUME NEW ok \in BOOLEAN, ModuleStartReturns(ok) PROVE Contract!Next
  <2>1. state = "Initializing" /\ start.pc = "module_start" /\ stop.pc = "idle" /\ UNCHANGED stop
    BY <1>7, <1>t DEF ModuleStartReturns, ControlInvariant
  <2>2. CASE ~ok
    BY <1>7, <1>f, <2>1, <2>2 DEF ModuleStartReturns, Contract!Next
  <2>3. CASE ok
    <3> DEFINE id == configured_order[start.idx]
    <3>1. active' = active \cup {id}
      BY <1>7, <2>3 DEF ModuleStartReturns
    <3>2. state' \in {"Initializing", "Running"}
      BY <1>7, <1>t, <2>1, <2>3, EnterRunningFacts DEF ModuleStartReturns
    <3>3. id \in ModuleIds /\ id \notin active /\ Required[id] \subseteq active
      BY <2>1, NextModule
    <3> HIDE DEF id
    <3>4. Contract!StartModule(id)
      BY <2>1, <3>1, <3>2, <3>3 DEF Contract!StartModule, Contract!Ready
    <3> QED BY <3>3, <3>4 DEF Contract!Next
  <2> QED BY <2>2, <2>3
<1>8. CASE StartStep
  BY <1>2, <1>3, <1>4, <1>5, <1>6, <1>7, <1>8 DEF StartStep
<1>9. ASSUME NEW ok \in BOOLEAN, ModuleStopReturns(ok) PROVE Contract!Next
  <2> DEFINE id == started_modules[stop.idx]
  <2>1. active' = active \ {id} /\ stop.pc = "modules" /\ stop.idx > 0
    BY <1>9 DEF ModuleStopReturns
  <2>2. id \in ModuleIds /\ id \in active /\ \A n \in active : id \notin Required[n]
    BY <2>1, NextStop
  <2>3. stop'.pc \in {"modules", "module_teardown"}
    BY <1>9, <1>t DEF ModuleStopReturns, TypeOK, StopFrames
  <2> HIDE DEF id
  <2>4. Contract!StopModule(id)
    BY <2>1, <2>2, <2>3 DEF Contract!StopModule
  <2> QED BY <2>2, <2>4 DEF Contract!Next
<1>10. ASSUME NEW ok \in BOOLEAN,
              ModuleTeardownReturns(ok) \/ EndModules \/ DispatchReturns \/ EndDrain \/ PlatformStepReturns(ok)
                \/ TeardownServices
       PROVE  UNCHANGED Contract!vars
  <2>1. stop.pc # "idle" /\ stop'.pc # "idle" /\ UNCHANGED active
    BY <1>10, <1>t DEF ModuleTeardownReturns, EndModules, DispatchReturns, EndDrain, PlatformStepReturns,
       TeardownServices, TypeOK, StopFrames
  <2> QED BY <1>s, <2>1
<1>11. CASE StopFails
  <2>1. stop.pc = "flush" /\ stop'.pc = "idle" /\ state' = "Faulted" /\ UNCHANGED active
    BY <1>11, <1>t, LifecycleFacts DEF StopFails, IdleStop, ControlInvariant, TypeOK, LifecycleStates
  <2> QED BY <2>1 DEF Contract!Next, Contract!Fail
<1>12. CASE StopSucceeds
  <2>1. stop.pc = "flush" /\ stop'.pc = "idle" /\ state' = "Stopped" /\ active = {} /\ UNCHANGED active
    BY <1>12 DEF StopSucceeds, IdleStop, ContractInvariant
  <2> QED BY <2>1 DEF Contract!Next, Contract!EndStop
<1>13. CASE StopStep
  BY <1>9, <1>10, <1>11, <1>12, <1>13 DEF StopStep
<1>14. CASE UNCHANGED vars
  BY <1>14, <1>u DEF vars
<1> QED BY <1>1, <1>8, <1>13, <1>14 DEF Next

\* KernelRuntime keeps HostContract: whatever callbacks fail and however Start and Stop
\* alternate, modules start after what they require, stop before it, and only in the
\* lifecycle states meant for it.  The client configures its modules; a callback of Stop
\* may call Stop again, which is refused, and a callback of Start does not.
THEOREM KernelImplementsContract ==
  ASSUME "start" \notin ReentrantStop, RecordedOrders = {}
  PROVE  Spec => ImplementsContract
<1>1. Init => ContractInvariant
  <2>1. Sound(<<>>) /\ First(<<>>, Len(<<>>)) = {}
    BY DEF Sound, First
  <2> QED BY <2>1 DEF Init, IdleStop, ContractInvariant
<1>2. SafetyInvariant /\ SafetyInvariant' /\ ContractInvariant /\ [Next]_vars => ContractInvariant'
  BY ContractStep
<1>3. Init => Contract!Init
  BY DEF Init, IdleStop, Contract!Init
<1>4. SafetyInvariant /\ ContractInvariant /\ [Next]_vars => [Contract!Next]_(Contract!vars)
  BY ContractSimulation
<1>5. Spec => []SafetyInvariant
  BY SafetyHolds
<1> QED BY <1>1, <1>2, <1>3, <1>4, <1>5, PTL DEF Spec, ImplementsContract, Contract!Spec

\* No module is ever active without the modules it requires, also while Start and Stop
\* are in the middle of their loops.
THEOREM DependenciesAreAlwaysActive ==
  ASSUME "start" \notin ReentrantStop, RecordedOrders = {}
  PROVE  Spec => []Contract!DependenciesAreActive
<1>1. Contract!Init => Contract!DependenciesAreActive
  BY DEF Contract!Init, Contract!DependenciesAreActive
<1>2. Contract!DependenciesAreActive /\ [Contract!Next]_(Contract!vars) => Contract!DependenciesAreActive'
  BY DEF Contract!DependenciesAreActive, Contract!Next, Contract!vars, Contract!Bootstrap, Contract!Initialize,
         Contract!StartModule, Contract!Ready, Contract!Run, Contract!BeginStop, Contract!StopModule,
         Contract!EndStop, Contract!Fail
<1> QED BY <1>1, <1>2, KernelImplementsContract, PTL DEF ImplementsContract, Contract!Spec
=============================================================================
