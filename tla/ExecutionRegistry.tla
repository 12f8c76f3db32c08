-------------------------- MODULE ExecutionRegistry --------------------------
(***************************************************************************)
(* framekit::runtime::ExecutionServiceRegistry, composed with the one      *)
(* execution service of the repository.  The registry repeats the phases,  *)
(* the entries and the ordering of ServiceContext (kShuttingDown is its    *)
(* Teardown, last_shutdown_order_ its last_teardown_order); what it adds   *)
(* is that BeginShutdown, once it has released the mutex, shuts down the   *)
(* services it took out of the registry, one call after the other, while   *)
(* other threads go on using the registry and the services.                *)
(***************************************************************************)
EXTENDS ServiceContext, ExecutionService

CONSTANTS
  Services,    \* instances handed to Register, each one once
  Inline,      \* the InlineExecutionService among them; the others are external
  MaxFreezes   \* bound on freeze_count

ASSUME ServicesAssumption == Inline \in Services /\ MaxFreezes \in Nat

VARIABLES
  instance,    \* key -> the service its entry holds
  shutdown,    \* thread -> its BeginShutdown call: [active, left, ok]
  \* history
  used,        \* services that were registered
  released,    \* services whose entry was replaced or cleared without a shutdown
  stopped      \* services the registry has told to shut down

registryVars == <<contextVars, instance, shutdown, used, released, stopped>>
allVars == <<vars, registryVars>>

NoCall == [active |-> FALSE, left |-> <<>>, ok |-> TRUE]

RegistryInit ==
  /\ Init /\ ContextInit
  /\ instance = NoEntries /\ shutdown = [t \in Threads |-> NoCall]
  /\ used = {} /\ released = {} /\ stopped = {}

\* Thread t runs client code, outside every call of the registry.
InClient(t) == ClientRuns(t) /\ ~shutdown[t].active

-----------------------------------------------------------------------------
\* Operations under the mutex.
RegisterService(k, service, ownership, replace_existing) ==
  /\ service \notin used
  /\ Register(k, ownership, replace_existing)
  /\ instance' = [x \in Registered \cup {k} |-> IF x = k THEN service ELSE instance[x]]
  /\ released' = IF k \in Registered THEN released \cup {instance[k]} ELSE released
  /\ used' = used \cup {service}
  /\ UNCHANGED <<vars, shutdown, stopped>>

FreezeRegistry ==
  /\ freeze_count < MaxFreezes /\ Freeze
  /\ UNCHANGED <<vars, instance, shutdown, used, released, stopped>>

ResetRegistry ==
  /\ ResetForNextStartCycle
  /\ instance' = NoEntries
  /\ released' = released \cup {instance[k] : k \in Registered}
  /\ UNCHANGED <<vars, shutdown, used, stopped>>

\* BeginShutdown up to the release of the mutex: the owned services leave the
\* registry in the order recorded.  (In phase Teardown the call returns true at
\* once, whoever is still shutting services down.)
BeginRegistryShutdown(t) ==
  /\ BeginTeardown
  /\ instance' = [k \in DOMAIN entries' |-> instance[k]]
  /\ shutdown' = [shutdown EXCEPT ![t] =
       [active |-> TRUE, ok |-> TRUE,
        left |-> [i \in DOMAIN last_teardown_order' |-> instance[last_teardown_order'[i]]]]]
  /\ UNCHANGED <<vars, used, released, stopped>>

-----------------------------------------------------------------------------
\* BeginShutdown and AwaitShutdown of the inline service: the second caller finds it
\* shutting down, and both report success.
ShutInline(t) ==
  \/ BeginShutdown(t)
  \/ shutting_down /\ UNCHANGED vars

\* Wrong version of ShutdownNext: the first failure ends the loop.
ShutdownNextUntilFailure(t, ok) ==
  /\ shutdown[t].left # <<>>
  /\ LET service == Head(shutdown[t].left)
     IN /\ IF service = Inline THEN ok /\ ShutInline(t) ELSE UNCHANGED vars
        /\ stopped' = stopped \cup {service}
  /\ shutdown' = [shutdown EXCEPT ![t].left = IF ok THEN Tail(@) ELSE <<>>,
                                  ![t].ok = @ /\ ok]
  /\ UNCHANGED <<contextVars, instance, used, released>>

\* The next service of the loop; a failure is remembered and the loop goes on.
ShutdownNext(t, ok) ==
  /\ shutdown[t].left # <<>>
  /\ LET service == Head(shutdown[t].left)
     IN /\ IF service = Inline THEN ok /\ ShutInline(t) ELSE UNCHANGED vars
        /\ stopped' = stopped \cup {service}
  /\ shutdown' = [shutdown EXCEPT ![t].left = Tail(@), ![t].ok = @ /\ ok]
  /\ UNCHANGED <<contextVars, instance, used, released>>

\* The caller gets the conjunction of what the services reported.
ShutdownReturns(t) ==
  /\ shutdown[t].active /\ shutdown[t].left = <<>>
  /\ shutdown' = [shutdown EXCEPT ![t] = NoCall]
  /\ UNCHANGED <<vars, contextVars, instance, used, released, stopped>>

RegistryStep(t) ==
  \/ \E k \in Keys, s \in Services, o \in Ownerships, r \in BOOLEAN : RegisterService(k, s, o, r)
  \/ FreezeRegistry
  \/ ResetRegistry
  \/ BeginRegistryShutdown(t)

RegistryNext ==
  \E t \in Threads :
    \/ InClient(t) /\ RegistryStep(t)
    \/ ~shutdown[t].active /\ Step(t) /\ UNCHANGED registryVars
    \/ \E ok \in BOOLEAN : ShutdownNext(t, ok)
    \/ ShutdownReturns(t)

RegistrySpec == RegistryInit /\ [][RegistryNext]_allVars
=============================================================================
