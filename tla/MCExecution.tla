----------------------------- MODULE MCExecution -----------------------------
(***************************************************************************)
(* ExecutionRegistry with a history variable: log holds the keys in the    *)
(* order their registrations were first accepted since the registry was    *)
(* last emptied.                                                           *)
(***************************************************************************)
EXTENDS ExecutionRegistry

MCRequests ==
  {[kind |-> "SingleThreaded", worker_count |-> 4, stage_affinity_enabled |-> TRUE],
   [kind |-> "FixedPool", worker_count |-> 0, stage_affinity_enabled |-> FALSE]}

CONSTANTS
  s1, s2,  \* interchangeable external services: s2 is registered after s1
  MaxWork  \* bound on tasks, counted rejections and registrations taken together
ASSUME MaxWorkIsNat == MaxWork \in Nat

VARIABLE log
mcVars == <<allVars, log>>

MCInit == RegistryInit /\ log = <<>>

MCNext ==
  /\ RegistryNext
  /\ metrics'.submitted + metrics'.rejected + Cardinality(used') <= MaxWork
  /\ s2 \in used' => s1 \in used'
  /\ log' = IF entries' = NoEntries THEN <<>> ELSE log \o SetToSeq(DOMAIN entries' \ Registered)

\* Drain's own loop and the shutdown loop run on.  A task is assumed to end: strong
\* fairness, because a Drain it calls suspends it, possibly again and again.
MCSpec ==
  /\ MCInit /\ [][MCNext]_mcVars
  /\ \A t \in Threads :
       /\ WF_vars(~shutdown[t].active /\ (BeginTask(t) \/ DrainReturns(t)))
       /\ SF_vars(~shutdown[t].active /\ (TaskReturns(t) \/ TaskThrows(t)))
       /\ WF_registryVars((\E ok \in BOOLEAN : ShutdownNext(t, ok)) \/ ShutdownReturns(t))

-----------------------------------------------------------------------------
\* The record of a shutdown names every context-owned service once, in the reverse of the order
\* in which their keys were first registered; replacing a service does not move it.
TeardownReversesRegistration ==
  [][phase # "Teardown" /\ phase' = "Teardown" =>
       /\ \A k \in Owned : \E i \in DOMAIN last_teardown_order' : last_teardown_order'[i] = k
       /\ \A i \in DOMAIN last_teardown_order' : last_teardown_order'[i] \in Owned
       /\ \A i, j \in DOMAIN last_teardown_order' : i < j =>
            \E m, n \in DOMAIN log :
              n < m /\ log[m] = last_teardown_order'[i] /\ log[n] = last_teardown_order'[j]]_mcVars

\* No service is forgotten: one that was registered is held by an entry, waits in a shutdown
\* loop, was told to shut down, or was released by a replacement or a reset, whatever fails
\* and whoever resets, registers or shuts down in between.  None is shut down twice or
\* while the registry still hands it out, and the inline service, once it was shut down
\* here, holds no queued task.
NoServiceForgotten ==
  LET held == {instance[k] : k \in Registered}
      waiting(t) == ToSet(shutdown[t].left)
      leaving == UNION {waiting(t) : t \in Threads}
  IN /\ used \subseteq held \cup leaving \cup stopped \cup released
     /\ (held \cup leaving) \cap (stopped \cup released) = {} /\ stopped \cap released = {}
     /\ \A t, u \in Threads : t # u => waiting(t) \cap waiting(u) = {}
     /\ Inline \in stopped => shutting_down /\ pending = <<>>
=============================================================================
