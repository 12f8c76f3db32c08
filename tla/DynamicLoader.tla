--------------------------- MODULE DynamicLoader ---------------------------
(***************************************************************************)
(* The decision functions of framekit/module/dynamic_loader.hpp, which an  *)
(* implementation of IDynamicModuleLoader calls (the repository has none). *)
(* A decision is its refusal reason, "None" when the request is accepted.  *)
(* Manifests are the module records of ModuleGraphOps with a version, 0    *)
(* again standing for the empty string.                                    *)
(***************************************************************************)
EXTENDS ModuleGraphOps

HostPhases == {"Bootstrapping", "Initializing", "Running", "Stopping", "Stopped"}

EvaluateDynamicLoadRequest(host_phase, already_registered, dependencies_available) ==
  IF host_phase # "Running" THEN "IllegalLifecycleState"
  ELSE IF already_registered THEN "DuplicateModuleId"
  ELSE IF ~dependencies_available THEN "DependencyUnavailable"
  ELSE "None"

EvaluateDynamicUnloadRequest(host_phase, hot_unload_allowed, is_loaded, has_runtime_dependents) ==
  IF host_phase # "Running" \/ ~is_loaded THEN "IllegalLifecycleState"
  ELSE IF ~hot_unload_allowed THEN "UnloadNotAllowed"
  ELSE IF has_runtime_dependents THEN "DependencyUnavailable"
  ELSE "None"

\* Wrong version of BuildDynamicRollbackPlan: the modules are unloaded in load order.
RollbackInLoadOrder(loaded_in_order, failed) ==
  IF failed = EmptyId \/ failed \notin ToSet(loaded_in_order)
  THEN [required |-> FALSE, unload_order |-> <<>>]
  ELSE LET first == CHOOSE i \in DOMAIN loaded_in_order : loaded_in_order[i] = failed
       IN [required |-> TRUE,
           unload_order |-> SubSeq(loaded_in_order, first, Len(loaded_in_order))]

\* From the last loaded module back to the last occurrence of the failed one.
BuildDynamicRollbackPlan(loaded_in_order, failed) ==
  IF failed = EmptyId \/ failed \notin ToSet(loaded_in_order)
  THEN [required |-> FALSE, unload_order |-> <<>>]
  ELSE LET last == CHOOSE i \in DOMAIN loaded_in_order :
                     /\ loaded_in_order[i] = failed
                     /\ \A j \in DOMAIN loaded_in_order : j > i => loaded_in_order[j] # failed
       IN [required |-> TRUE,
           unload_order |-> Reverse(SubSeq(loaded_in_order, last, Len(loaded_in_order)))]

AssessDynamicRollbackResult(success, unload_failures, failed_unloads) ==
  IF success /\ unload_failures = 0 /\ failed_unloads = <<>>
  THEN "None" ELSE "IllegalLifecycleState"

\* Wrong version of ValidateDynamicModuleManifest: a repeated dependency is accepted.
ManifestWithRepeats(m, version) ==
  /\ m.id # EmptyId /\ version # EmptyId
  /\ \A k \in DOMAIN EntriesOf(m) : EntriesOf(m)[k] \notin {EmptyId, m.id}

\* Without dependencies only the id and the version are looked at.
ValidateDynamicModuleManifest(m, version) ==
  /\ m.id # EmptyId /\ version # EmptyId
  /\ LET deps == EntriesOf(m)
     IN /\ \A k \in DOMAIN deps : deps[k] \notin {EmptyId, m.id}
        /\ IsInjective(deps)
=============================================================================
