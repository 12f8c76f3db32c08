----------------------------- MODULE FaultPolicy -----------------------------
(***************************************************************************)
(* framekit::runtime::FaultPolicyRuntime: decides whether a fault fails    *)
(* the operation or only degrades it, and counts the faults of each class. *)
(* Its policy is the one the loop was configured with: the runtime that    *)
(* owns both configures them together.                                     *)
(***************************************************************************)
EXTENDS Loop

CONSTANT Limits  \* FaultPolicyLimits: how many faults of a class may degrade

FaultClasses == {"Bootstrap", "Module", "Event", "Render", "Timing", "Shutdown"}
ASSUME LimitsAssumption == Limits \in [FaultClasses \ {"Bootstrap"} -> 0..Max32]

FaultContexts ==
  [fault_class : FaultClasses, invariant_breach : BOOLEAN, contract_violation : BOOLEAN,
   required_module : BOOLEAN, fatal_shutdown_violation : BOOLEAN]

\* The context of a fault of class c with every flag but the second cleared.
Fault(c, contract_violation) ==
  [fault_class |-> c, invariant_breach |-> FALSE, contract_violation |-> contract_violation,
   required_module |-> FALSE, fatal_shutdown_violation |-> FALSE]

VARIABLES fault_configured, counters
faultVars == <<fault_configured, counters>>

NoFaults == [c \in FaultClasses |-> 0]
FaultInit == fault_configured = FALSE /\ counters = NoFaults

\* Configure followed by Reset, for a policy that has been validated.
ConfigureFaults == fault_configured' = TRUE /\ counters' = NoFaults

\* The counters are 32-bit words.
ObservedCount(c) == (counters[c] + 1) % (Max32 + 1)

AlwaysFails(context) ==
  \/ ~fault_configured \/ context.invariant_breach \/ context.contract_violation
  \/ policy.profile = "DeterministicHost"
  \/ CASE context.fault_class = "Bootstrap" -> TRUE
       [] context.fault_class = "Module" -> context.required_module
       [] context.fault_class = "Event" -> FALSE
       [] context.fault_class = "Render" -> ~policy.rendering_enabled
       [] context.fault_class = "Timing" -> policy.overrun_mode = "FailFast"
       [] context.fault_class = "Shutdown" -> context.fatal_shutdown_violation

\* Wrong version of Disposition: one fault more than the limit degrades.
DispositionLate(context) ==
  IF AlwaysFails(context) \/ counters[context.fault_class] > Limits[context.fault_class]
  THEN "FailFast" ELSE "Degrade"

\* The counter a degradable fault is compared with includes the faults of its
\* class that failed at once.
Disposition(context) ==
  LET c == context.fault_class
  IN IF AlwaysFails(context) \/ Limits[c] = 0 \/ ObservedCount(c) > Limits[c]
     THEN "FailFast" ELSE "Degrade"

\* Evaluate: every fault counts, whatever the decision.
CountFault(context) ==
  /\ counters' = IF fault_configured
                 THEN [counters EXCEPT ![context.fault_class] = ObservedCount(context.fault_class)]
                 ELSE counters
  /\ UNCHANGED fault_configured
=============================================================================
