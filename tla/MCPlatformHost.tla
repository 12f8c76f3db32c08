--------------------------- MODULE MCPlatformHost ---------------------------
(***************************************************************************)
(* PlatformHost with a client that may do everything the code allows, and  *)
(* with history variables for the properties.  The policies are chosen so  *)
(* that each meets what it is there for: rendering and its fault budget    *)
(* (Gui), catch-up within, at and past the range of its counter, dropped   *)
(* stages, fail-fast overruns, a delta at the end of the clock's range,    *)
(* a wrapper stage disabled alone, and a policy that is refused.           *)
(***************************************************************************)
EXTENDS PlatformHost

VARIABLES
  owed,      \* time observed since Configure and not yet paid by update steps, run or dropped
  lost,      \* a 64-bit sum wrapped around or a step count was cut to 32 bits
  overran,   \* a frame was refused since Configure
  degraded,  \* render faults degraded since Configure
  wrapped,   \* a fault counter wrapped around since Configure
  swapped    \* a host was replaced while it was up

history == <<owed, lost, overran, degraded, wrapped, swapped>>
vars == <<hostVars, history>>

MCPolicy(profile, timing, overrun, delta, catch_up, rendering, disabled) ==
  [profile |-> profile, timing_mode |-> timing, overrun_mode |-> overrun,
   fixed_delta_ns |-> delta, max_catch_up_steps |-> catch_up,
   rendering_enabled |-> rendering, disabled_optional_stages |-> disabled]

MCPolicies ==
  {MCPolicy("Gui", "VariableDelta", "Slip", 1, 0, TRUE, {}),
   MCPolicy("Gui", "VariableDelta", "Slip", 1, 0, TRUE, {"Render"}),
   MCPolicy("Headless", "FixedDelta", "CatchUpBounded", 2, 1, FALSE, RenderStages),
   MCPolicy("Headless", "FixedDelta", "CatchUpBounded", 2, Max32, FALSE, RenderStages),
   MCPolicy("Headless", "FixedDelta", "Slip", 2, 0, FALSE, RenderStages),
   MCPolicy("DeterministicHost", "FixedDelta", "DropNonCritical", 1, 0, TRUE,
            {"PreRender", "PostRender"}),
   MCPolicy("DeterministicHost", "FixedDelta", "FailFast", 2, 0, FALSE, RenderStages),
   MCPolicy("DeterministicHost", "ExternallyClocked", "FailFast", 0, 0, FALSE, {})}

MCLimits == [c \in FaultClasses \ {"Bootstrap"} |->
               CASE c = "Render" -> 2 [] c \in {"Event", "Timing"} -> 3 [] OTHER -> 1]

Init ==
  /\ HostInit
  /\ owed = 0 /\ lost = FALSE /\ overran = FALSE
  /\ degraded = 0 /\ wrapped = FALSE /\ swapped = FALSE

\* The steps a frame pays for with observed time: all but a forced one.
PaidSteps(elapsed) ==
  IF Accumulated(elapsed) < policy.fixed_delta_ns THEN 0 ELSE update_steps' + dropped_steps'

FrameCost(elapsed) == IF in_frame' THEN policy.fixed_delta_ns * PaidSteps(elapsed) ELSE 0

TimeHistory(elapsed) ==
  /\ lost' = \/ lost \/ accumulator + Observed(elapsed) > Max64
             \/ Accumulated(elapsed) \div policy.fixed_delta_ns > Max32
  /\ owed' = IF lost' THEN 0 ELSE owed + Observed(elapsed) - FrameCost(elapsed)

TickHistory(elapsed) ==
  /\ overran' = (overran \/ ~in_frame')
  /\ IF FixedDelta THEN TimeHistory(elapsed) ELSE UNCHANGED <<lost, owed>>
  /\ UNCHANGED <<degraded, wrapped, swapped>>

\* A Configure that succeeds starts a new account.
ConfigureHistory ==
  /\ IF configured'
     THEN owed' = 0 /\ lost' = FALSE /\ overran' = FALSE /\ degraded' = 0 /\ wrapped' = FALSE
     ELSE UNCHANGED <<owed, lost, overran, degraded, wrapped>>
  /\ UNCHANGED swapped

FaultDegraded ==
  /\ counters' # counters /\ calling
  /\ LET stage == Last(executed)
     IN Disposition(Fault(StageClass(stage), stage \notin RenderStages)) = "Degrade"

StepHistory ==
  /\ wrapped' = (wrapped \/ \E c \in FaultClasses : counters'[c] < counters[c])
  /\ degraded' = IF FaultDegraded /\ ~wrapped' THEN degraded + 1 ELSE degraded
  /\ swapped' = \/ swapped
                \/ platform_initialized /\ platform_initialized' /\ platform_host' # platform_host
                \/ window_created /\ window_created' /\ window_host' # window_host
  /\ UNCHANGED <<owed, lost, overran>>

\* Bound: frames are begun until a host was swapped or a counter wrapped around, after
\* which nothing more is claimed of them.
TicksBounded == ~swapped /\ ~wrapped

Next ==
  \/ \E elapsed \in Elapsed : TicksBounded /\ Tick(elapsed) /\ TickHistory(elapsed)
  \/ \E p \in Policies : Configure(p) /\ ConfigureHistory
  \/ (ClientStep \/ FrameStep) /\ StepHistory

\* A frame in progress goes on.  A client with a cleanup pending keeps calling Stop, and
\* each host's teardown succeeds now and then, the two not necessarily in the same call.
Fairness ==
  /\ WF_hostVars(FrameStep)
  /\ WF_hostVars(\E p \in BOOLEAN : Stop(TRUE, p))
  /\ WF_hostVars(\E w \in BOOLEAN : Stop(w, TRUE))

Spec == Init /\ [][Next]_vars /\ Fairness

-----------------------------------------------------------------------------
\* Fixed-delta time is conserved: what was observed since Configure, over any frames,
\* stops and restarts, is what update steps run or dropped have paid for plus what
\* the accumulator holds; refused frames included, until a word overflows.
TimeIsConserved == FixedDelta /\ loop_configured /\ ~lost => owed = accumulator

Position(stage) == CHOOSE i \in DOMAIN BaselineLoopStageOrder : BaselineLoopStageOrder[i] = stage

\* A frame that ran its stages ran every required stage once and in order, Update only
\* between PreUpdate and PostUpdate, and at least one and at most the budgeted number
\* of update steps.  With the largest catch-up budget the limit wraps around to 0 and
\* an overrun frame runs no update at all.
FrameIsWellFormed ==
  ~in_frame /\ executed # <<>> =>
    LET plain == {i \in DOMAIN executed : executed[i] \notin UpdateStages}
    IN /\ \A i, j \in plain : i < j => Position(executed[i]) < Position(executed[j])
       /\ LoopStages \ (RenderStages \cup UpdateStages) \subseteq ToSet(executed)
       /\ ToSet(active_stages) \ ToSet(executed) =
            (IF dropping THEN ToSet(active_stages) \cap RenderStages ELSE {})
              \cup (IF update_steps = 0 THEN UpdateStages ELSE {})
       /\ \A i \in DOMAIN executed : executed[i] = "Update" =>
            executed[i - 1] = "PreUpdate" /\ executed[i + 1] = "PostUpdate"
       /\ LET updates == Cardinality({i \in DOMAIN executed : executed[i] = "Update"})
          IN /\ updates <= 1 + (IF policy.overrun_mode = "CatchUpBounded"
                                THEN policy.max_catch_up_steps ELSE 0)
             /\ updates = 0 => policy.max_catch_up_steps = Max32 /\ dropped_steps > 1

\* A fail-fast overrun never turns into a slip: once a frame was refused, no later frame
\* runs a stage until the runtime is configured again, stops and restarts included.
FailFastNeverSlips == overran /\ ~lost => ~in_frame

\* The matrix of the documentation: the faults a profile may degrade.
MatrixAllowsDegrade(context) ==
  /\ policy.profile # "DeterministicHost" /\ context.fault_class # "Bootstrap"
  /\ ~context.contract_violation /\ ~context.invariant_breach
  /\ context.fault_class = "Render" => policy.rendering_enabled
  /\ context.fault_class = "Module" => ~context.required_module

\* Degrading is bounded per configuration, whatever was restarted in between, as long
\* as the fault counter has not wrapped around; and only faults the matrix allows
\* degrade.
DegradeIsBounded ==
  /\ degraded <= Limits["Render"]
  /\ \A context \in FaultContexts :
       Disposition(context) = "Degrade" =>
         /\ MatrixAllowsDegrade(context)
         /\ context.fault_class = "Render" /\ ~wrapped /\ counters["Render"] < Max32 =>
              degraded < Limits["Render"]

\* As long as no host is replaced while it is up, the flags know exactly what is up: no
\* failed start, failed teardown or Stop inside a frame leaks a host, and a frame that
\* was not stopped calls live hosts only.
NoHostLeaks ==
  ~swapped =>
    /\ live = (IF platform_initialized THEN {platform_host} ELSE {})
                \cup (IF window_created THEN {window_host} ELSE {})
    /\ running => platform_initialized /\ (HasActiveRenderStages => window_created)
    /\ calling /\ running /\ ~swapped => Callee(Last(executed)) \in live \cup {None}

\* A cleanup that a failed start or a failed Stop left pending, or that a Stop inside a
\* frame began, completes, unless the client takes a host away.
CleanupCompletes ==
  CleanupPending /\ ~running ~> ~CleanupPending \/ platform_host = None \/ window_host = None
=============================================================================
