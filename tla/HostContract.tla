---------------------------- MODULE HostContract ----------------------------
(***************************************************************************)
(* What the host promises about its modules, without services, callbacks,  *)
(* or control points: the lifecycle state and the set of active modules.   *)
(* A module becomes active only while the host initializes and after its   *)
(* required dependencies, becomes inactive only while the host stops and   *)
(* before its dependencies, and the host reaches Stopped only when no      *)
(* module is active.                                                       *)
(***************************************************************************)
CONSTANTS Modules, Required  \* Required[m]: the modules m cannot run without

VARIABLES host, active
vars == <<host, active>>

Init == host = "Stopped" /\ active = {}

Bootstrap == host \in {"Stopped", "Faulted"} /\ host' = "Bootstrapping" /\ UNCHANGED active

Initialize == host = "Bootstrapping" /\ host' = "Initializing" /\ UNCHANGED active

Ready(S, m) == m \notin S /\ Required[m] \subseteq S

StartModule(m) ==
  /\ host = "Initializing"
  /\ Ready(active, m)
  /\ active' = active \cup {m}
  /\ host' \in {"Initializing", "Running"}

\* Without a module handler the host counts the whole graph as started at once.
Run ==
  /\ host = "Initializing"
  /\ host' = "Running"
  /\ \/ UNCHANGED active
     \/ /\ active = {}
        /\ active' \in SUBSET Modules
        /\ \A m \in active' : Required[m] \subseteq active'

BeginStop == host \in {"Initializing", "Running", "Faulted"} /\ host' = "Stopping" /\ UNCHANGED active

StopModule(m) ==
  /\ host = "Stopping"
  /\ m \in active
  /\ \A n \in active : m \notin Required[n]
  /\ active' = active \ {m}
  /\ UNCHANGED host

EndStop == host = "Stopping" /\ active = {} /\ host' = "Stopped" /\ UNCHANGED active

Fail == host # "Stopped" /\ host' = "Faulted" /\ UNCHANGED active

Next ==
  \/ Bootstrap \/ Initialize \/ Run \/ BeginStop \/ EndStop \/ Fail
  \/ \E m \in Modules : StartModule(m) \/ StopModule(m)

Spec == Init /\ [][Next]_vars

\* No module is ever active without the modules it requires.
DependenciesAreActive == \A m \in active : Required[m] \subseteq active
=============================================================================
