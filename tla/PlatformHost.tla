---------------------------- MODULE PlatformHost ----------------------------
(***************************************************************************)
(* framekit::runtime::PlatformHostRuntime: owns a loop and a fault policy, *)
(* drives a platform host, a window host and an input runtime.  A stage    *)
(* whose handler calls out is two steps, the call and its return, because  *)
(* the callee may use the runtime in between (Stop it, swap a host).  The  *)
(* client does not reconfigure or tick the runtime, or replace its input   *)
(* runtime, from inside a frame: that destroys what is being executed.     *)
(***************************************************************************)
EXTENDS FaultPolicy

CONSTANTS
  PlatformHosts, WindowHosts,
  None,                   \* a null pointer
  Policies,               \* policies passed to Configure
  Elapsed,                \* what the steady clock may measure between two ticks
  CocoaBackendAvailable   \* the build has the Cocoa backend

\* Platform and window hosts are objects of two unrelated types.
ASSUME HostsAssumption ==
  None \notin PlatformHosts \cup WindowHosts /\ PlatformHosts \cap WindowHosts = {}
ASSUME PoliciesAssumption == Policies \subseteq LoopPolicies /\ Elapsed \subseteq 0..Max64
ASSUME CocoaAssumption == CocoaBackendAvailable \in BOOLEAN

VARIABLES
  platform_host, window_host,
  input_runtime,          \* an input runtime is set
  configured, running, platform_initialized, window_created, frame_failed,
  calling,                \* the handler of the last executed stage waits for its callee
  live                    \* external: hosts initialised (or with windows) and not torn down

hosts == <<platform_host, window_host, input_runtime>>
hostFlags == <<running, platform_initialized, window_created, live>>
hostVars == <<loopVars, faultVars, hosts, configured, hostFlags, frame_failed, calling>>

HostInit ==
  /\ LoopInit /\ FaultInit
  /\ platform_host = None /\ window_host = None /\ input_runtime = FALSE
  /\ configured = FALSE /\ running = FALSE
  /\ platform_initialized = FALSE /\ window_created = FALSE
  /\ frame_failed = FALSE /\ calling = FALSE /\ live = {}

\* Client code runs outside frames and inside the calls a frame makes.
ClientRuns == in_frame => calling

SetPlatformHost(h) ==
  /\ ClientRuns /\ platform_host' = h
  /\ UNCHANGED <<loopVars, faultVars, window_host, input_runtime, configured, hostFlags,
                 frame_failed, calling>>

SetWindowHost(h) ==
  /\ ClientRuns /\ window_host' = h
  /\ UNCHANGED <<loopVars, faultVars, platform_host, input_runtime, configured, hostFlags,
                 frame_failed, calling>>

SetInputRuntime(set) ==
  /\ ~in_frame /\ input_runtime' = set
  /\ UNCHANGED <<loopVars, faultVars, platform_host, window_host, configured, hostFlags,
                 frame_failed, calling>>

CleanupPending == platform_initialized \/ window_created

\* Configure.  Refused while running or while cleanup is pending, and by a policy
\* that is not valid; a refusal also withdraws the earlier configuration.
Configure(p) ==
  /\ ~in_frame
  /\ IF running \/ CleanupPending
     THEN configured' = FALSE /\ UNCHANGED <<loopVars, faultVars, frame_failed>>
     ELSE /\ ConfigureLoop(p)
          /\ configured' = ValidateLoopPolicy(p)
          /\ IF ValidateLoopPolicy(p) THEN ConfigureFaults /\ frame_failed' = FALSE
                                      ELSE UNCHANGED <<faultVars, frame_failed>>
  /\ UNCHANGED <<hosts, hostFlags, calling>>

-----------------------------------------------------------------------------
HasActiveRenderStages == ToSet(active_stages) \cap RenderStages # {}

AutoWire ==
  /\ platform_host = None /\ window_host = None /\ CocoaBackendAvailable
  /\ HasActiveRenderStages /\ policy.profile \in {"Gui", "Hybrid"}

\* Wrong version of CanStart: a failed cleanup is forgotten.
CanStartDirty == configured /\ ~running

CanStart == configured /\ ~running /\ ~CleanupPending

\* The hosts a start works with: the ones set, or a pair from the Cocoa backend.
StartHosts(p, w) ==
  IF AutoWire THEN p \in PlatformHosts /\ w \in WindowHosts
              ELSE p = platform_host /\ w = window_host

\* Start, when platform initialisation fails: no flag changes.
StartFails ==
  /\ ClientRuns /\ CanStart
  /\ \E p \in PlatformHosts, w \in WindowHosts \cup {None} :
       /\ StartHosts(p, w)
       /\ platform_host' = p /\ window_host' = w
  /\ UNCHANGED <<loopVars, faultVars, input_runtime, configured, hostFlags, frame_failed, calling>>

\* Start, once the platform host is initialised.  window_ok: the window host created
\* its window; teardown_ok: the platform teardown after a failure succeeded.
StartInitialised(window_ok, teardown_ok) ==
  /\ ClientRuns /\ CanStart
  /\ \E p \in PlatformHosts, w \in WindowHosts \cup {None} :
       /\ StartHosts(p, w)
       /\ platform_host' = p /\ window_host' = w
       /\ LET up == HasActiveRenderStages => w # None /\ window_ok
          IN /\ running' = up
             /\ window_created' = (up /\ HasActiveRenderStages)
             /\ platform_initialized' = (up \/ ~teardown_ok)
             /\ live' = live \cup (IF platform_initialized' THEN {p} ELSE {})
                             \cup (IF window_created' THEN {w} ELSE {})
  /\ UNCHANGED <<loopVars, faultVars, input_runtime, configured, frame_failed, calling>>

\* Wrong version of Stop: nothing is done for a runtime that is not running.
StopOnlyRunning(window_ok, platform_ok) ==
  /\ ClientRuns /\ running
  /\ window_created' = (window_created /\ ~window_ok)
  /\ platform_initialized' = (platform_initialized /\ ~platform_ok)
  /\ live' = live \ ((IF window_ok THEN {window_host} ELSE {})
                       \cup (IF platform_ok THEN {platform_host} ELSE {}))
  /\ running' = FALSE /\ frame_failed' = FALSE
  /\ UNCHANGED <<loopVars, faultVars, hosts, configured, calling>>

\* Stop tears down what is up, the window first; the platform even when the window
\* host failed.  Without a platform host its flag is cleared all the same; without
\* a window host the window flag stays.
Stop(window_ok, platform_ok) ==
  LET tear_window == window_created /\ window_host # None /\ window_ok
      call_platform == platform_initialized /\ platform_host # None
  IN /\ ClientRuns /\ (running \/ CleanupPending)
     /\ window_created' = (window_created /\ ~tear_window)
     /\ platform_initialized' = (call_platform /\ ~platform_ok)
     /\ live' = live \ ((IF tear_window THEN {window_host} ELSE {})
                          \cup (IF call_platform /\ platform_ok THEN {platform_host} ELSE {}))
     /\ running' = FALSE /\ frame_failed' = FALSE
     /\ UNCHANGED <<loopVars, faultVars, hosts, configured, calling>>

-----------------------------------------------------------------------------
\* Tick: the frame begins, or is refused by the fail-fast overrun mode.  (A runtime
\* that runs always has the timestamp of an earlier tick.)
Tick(elapsed) ==
  /\ running /\ ~in_frame
  /\ BeginFrame(elapsed) \/ FailFrame(elapsed)
  /\ frame_failed' = FALSE
  /\ UNCHANGED <<faultVars, hosts, configured, hostFlags, calling>>

\* The object a stage's handler calls, and the fault when it is not set.
Callee(stage) ==
  CASE stage = "ProcessPlatformEvents" -> platform_host
    [] stage \in RenderStages -> window_host
    [] OTHER -> None
CallsOut(stage) ==
  \/ Callee(stage) # None
  \/ stage \in {"NormalizeInput", "DispatchImmediateEvents"} /\ input_runtime
NeedsHost(stage) == stage \in RenderStages \cup {"ProcessPlatformEvents"}
StageClass(stage) == IF stage \in RenderStages THEN "Render" ELSE "Event"

\* HandleStageFault: a fault that fails fast fails the frame, whose stages go on.
HandleStageFault(context) ==
  /\ CountFault(context)
  /\ frame_failed' = (frame_failed \/ Disposition(context) = "FailFast")

NoFault == UNCHANGED <<faultVars, frame_failed>>

\* The next stage begins: its handler calls out, finds no host to call, or does nothing.
BeginStage ==
  /\ ~calling /\ ExecuteStage
  /\ LET stage == Last(executed')
     IN /\ calling' = CallsOut(stage)
        /\ IF NeedsHost(stage) /\ ~CallsOut(stage)
           THEN HandleStageFault(Fault(StageClass(stage), TRUE))
           ELSE NoFault
  /\ UNCHANGED <<hosts, configured, hostFlags>>

\* The callee returns.  DispatchImmediate has no verdict; a pump or normalisation
\* failure is a contract violation, a render failure is not.
Return(ok) ==
  LET stage == Last(executed)
  IN /\ calling /\ calling' = FALSE
     /\ stage = "DispatchImmediateEvents" => ok
     /\ IF ok THEN NoFault
        ELSE HandleStageFault(Fault(StageClass(stage), stage \notin RenderStages))
     /\ UNCHANGED <<loopVars, hosts, configured, hostFlags>>

\* What the client may do between frames and inside the calls a frame makes.
ClientStep ==
  \/ \E h \in PlatformHosts \cup {None} : SetPlatformHost(h)
  \/ \E h \in WindowHosts \cup {None} : SetWindowHost(h)
  \/ \E set \in BOOLEAN : SetInputRuntime(set)
  \/ StartFails
  \/ \E w, t \in BOOLEAN : StartInitialised(w, t)
  \/ \E w, p \in BOOLEAN : Stop(w, p)

FrameStep == BeginStage \/ \E ok \in BOOLEAN : Return(ok)

-----------------------------------------------------------------------------
\* The members have their types.
HostTypeOK ==
  /\ policy \in LoopPolicies /\ active_stages \in Seq(LoopStages)
  /\ accumulator \in 0..Max64 /\ update_steps \in 0..Max32 /\ dropped_steps \in 0..Max32
  /\ executed \in Seq(LoopStages) /\ to_run \in Seq(LoopStages)
  /\ counters \in [FaultClasses -> 0..Max32]
  /\ platform_host \in PlatformHosts \cup {None} /\ window_host \in WindowHosts \cup {None}
  /\ live \subseteq PlatformHosts \cup WindowHosts
  /\ \A flag \in {loop_configured, dropping, fault_configured, input_runtime,
                   configured, running, platform_initialized, window_created, frame_failed,
                   calling} : flag \in BOOLEAN
=============================================================================
