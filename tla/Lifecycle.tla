----------------------------- MODULE Lifecycle -----------------------------
(***************************************************************************)
(* The host lifecycle table of LifecycleStateMachine.  It is stateless: the *)
(* current state lives in the module that owns a lifecycle (see Kernel).   *)
(***************************************************************************)

LifecycleStates ==
  {"Bootstrapping", "Initializing", "Running", "Stopping", "Stopped", "Faulted"}

\* The switch of IsLegalTransition, one row per current state.
LegalTransitions ==
  [Bootstrapping |-> {"Initializing", "Faulted"},
   Initializing  |-> {"Running", "Stopping", "Faulted"},
   Running       |-> {"Stopping", "Faulted"},
   Stopping      |-> {"Stopped", "Faulted"},
   Stopped       |-> {"Bootstrapping"},
   Faulted       |-> {"Stopping", "Stopped", "Bootstrapping"}]

CanTransitionTo(current, next) == next \in LegalTransitions[current]

\* KernelRuntime::Fault ignores a refused transition, so the state after a
\* fault is Faulted when the table allows it and the old state otherwise.
AfterFault(current) ==
  IF CanTransitionTo(current, "Faulted") THEN "Faulted" ELSE current
=============================================================================
