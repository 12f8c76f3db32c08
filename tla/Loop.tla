-------------------------------- MODULE Loop --------------------------------
(***************************************************************************)
(* framekit::runtime::LoopStageGraphRunner and ValidateLoopPolicy.  A frame*)
(* is its timing decision (BeginFrame) followed by one step per stage that *)
(* has a handler, so that what handlers do interleaves with it. Nanoseconds*)
(* are 64-bit words and step counts 32-bit words: Max64 and Max32 are the  *)
(* largest values of the two types.                                        *)
(***************************************************************************)
EXTENDS Integers, Sequences, FiniteSets, SequencesExt, Subsequences

CONSTANTS Max32, Max64
ASSUME WordsAssumption == Max32 \in Nat \ {0} /\ Max64 \in Nat /\ Max32 <= Max64

BaselineLoopStageOrder ==
  <<"BeginFrame", "ProcessPlatformEvents", "NormalizeInput", "DispatchImmediateEvents",
    "PreUpdate", "Update", "PostUpdate", "DispatchDeferredEvents",
    "PreRender", "Render", "PostRender", "EndFrame">>
LoopStages == ToSet(BaselineLoopStageOrder)
UpdateStages == {"PreUpdate", "Update", "PostUpdate"}
RenderStages == {"PreRender", "Render", "PostRender"}
\* The stages the owner of the loop, PlatformHostRuntime, sets a handler for.
HandledStages ==
  RenderStages \cup {"ProcessPlatformEvents", "NormalizeInput", "DispatchImmediateEvents"}

LoopPolicies ==
  [profile : {"Gui", "Headless", "Hybrid", "DeterministicHost"},
   timing_mode : {"VariableDelta", "FixedDelta", "ExternallyClocked"},
   overrun_mode : {"Slip", "CatchUpBounded", "DropNonCritical", "FailFast"},
   fixed_delta_ns : 0..Max64, max_catch_up_steps : 0..Max32,
   rendering_enabled : BOOLEAN, disabled_optional_stages : SUBSET LoopStages]

VARIABLES
  loop_configured, policy, active_stages,
  accumulator,           \* fixed_delta_accumulator_ns_
  update_steps,          \* last_update_step_count_
  dropped_steps,         \* last_dropped_update_step_count_
  dropping,              \* last_frame_dropped_non_critical_stages_
  executed,              \* last_executed_stages_
  to_run                 \* the stages ExecuteFrame has still to execute

frameVars == <<accumulator, update_steps, dropped_steps, dropping, executed, to_run>>
loopVars == <<loop_configured, policy, active_stages, frameVars>>

\* ExecuteFrame is between its first and its last stage.
in_frame == to_run # <<>>

LoopInit ==
  /\ loop_configured = FALSE /\ active_stages = <<>>
  /\ policy = [profile |-> "Gui", timing_mode |-> "VariableDelta", overrun_mode |-> "Slip",
               fixed_delta_ns |-> Max64, max_catch_up_steps |-> 0,
               rendering_enabled |-> TRUE, disabled_optional_stages |-> {}]
  /\ accumulator = 0 /\ update_steps = 1 /\ dropped_steps = 0
  /\ dropping = FALSE /\ executed = <<>> /\ to_run = <<>>

IsOptionalForProfile(profile, stage) ==
  stage \in RenderStages /\ profile \in {"Headless", "DeterministicHost"}

ValidateLoopPolicy(p) ==
  /\ p.timing_mode = "FixedDelta" =>
       /\ p.fixed_delta_ns > 0
       /\ p.overrun_mode = "CatchUpBounded" => p.max_catch_up_steps > 0
  /\ p.profile \in {"Gui", "Hybrid"} => p.rendering_enabled
  /\ \A stage \in p.disabled_optional_stages : IsOptionalForProfile(p.profile, stage)
  /\ ~p.rendering_enabled => RenderStages \subseteq p.disabled_optional_stages

\* LoopStageGraphRunner::Configure: a refused policy leaves everything but the
\* configured flag as it was.
ConfigureLoop(p) ==
  IF ~ValidateLoopPolicy(p)
  THEN loop_configured' = FALSE /\ UNCHANGED <<policy, active_stages, frameVars>>
  ELSE /\ loop_configured' = TRUE /\ policy' = p
       /\ active_stages' = Keep(BaselineLoopStageOrder, LoopStages \ p.disabled_optional_stages)
       /\ accumulator' = 0 /\ update_steps' = 1 /\ dropped_steps' = 0
       /\ dropping' = FALSE /\ executed' = <<>> /\ UNCHANGED to_run

-----------------------------------------------------------------------------
\* Timing: what the frame owes once its elapsed time is added.
FixedDelta == policy.timing_mode = "FixedDelta"
Observed(elapsed) == IF elapsed = 0 THEN policy.fixed_delta_ns ELSE elapsed
Accumulated(elapsed) == (accumulator + Observed(elapsed)) % (Max64 + 1)

\* At least one step is requested, even when less than one delta has accumulated.
RequestedSteps(elapsed) ==
  IF ~FixedDelta THEN 1
  ELSE LET whole == Accumulated(elapsed) \div policy.fixed_delta_ns
       IN IF whole = 0 THEN 1 ELSE IF whole > Max32 THEN Max32 ELSE whole

\* Wrong version of MaxAllowedSteps: one step too many.
MaxAllowedStepsExtra == (2 + policy.max_catch_up_steps) % (Max32 + 1)

\* The sum is a 32-bit word as well.
MaxAllowedSteps == (1 + policy.max_catch_up_steps) % (Max32 + 1)

StepsToRun(requested) ==
  IF policy.overrun_mode = "CatchUpBounded" /\ requested > 1
  THEN Min({requested, MaxAllowedSteps}) ELSE 1

Overrun(elapsed) == RequestedSteps(elapsed) > 1
DropsNonCritical(elapsed) == Overrun(elapsed) /\ policy.overrun_mode = "DropNonCritical"
FailsFast(elapsed) == Overrun(elapsed) /\ policy.overrun_mode = "FailFast"

\* Wrong version of Remainder: less than a delta is not carried over.
RemainderLost(elapsed) == 0

Remainder(elapsed) == IF FixedDelta THEN Accumulated(elapsed) % policy.fixed_delta_ns ELSE 0

\* The stages of a frame with that many update steps: the update stages are repeated
\* together in the place of PreUpdate, and skipped where the baseline order lists them.
UpdateRounds(steps) == [i \in 1..(3 * steps) |->
                          <<"PreUpdate", "Update", "PostUpdate">>[((i - 1) % 3) + 1]]

\* The stages that run outside the update rounds.
PlainStages(drop) ==
  {s \in LoopStages \ UpdateStages : ~(drop /\ IsOptionalForProfile(policy.profile, s))}

FramePlan(steps, drop) ==
  LET at == CHOOSE i \in DOMAIN active_stages : active_stages[i] = "PreUpdate"
  IN Keep(SubSeq(active_stages, 1, at), PlainStages(drop)) \o UpdateRounds(steps)
       \o Keep(SubSeq(active_stages, at, Len(active_stages)), PlainStages(drop))

\* The timing decision of a frame that goes on to its stages.  (The dropped-stages
\* flag is set here rather than at the first skipped stage.)
BeginFrame(elapsed) ==
  /\ loop_configured /\ ~FailsFast(elapsed)
  /\ update_steps' = StepsToRun(RequestedSteps(elapsed))
  /\ dropped_steps' = RequestedSteps(elapsed) - update_steps'
  /\ accumulator' = Remainder(elapsed)
  /\ dropping' = /\ DropsNonCritical(elapsed)
                 /\ \E s \in ToSet(active_stages) : IsOptionalForProfile(policy.profile, s)
  /\ executed' = <<>> /\ to_run' = FramePlan(update_steps', dropping')
  /\ UNCHANGED <<loop_configured, policy, active_stages>>

\* Wrong version of FailFrame: the time of the refused frame is dropped.
FailFrameForgetting(elapsed) ==
  /\ loop_configured /\ FailsFast(elapsed)
  /\ update_steps' = 1 /\ dropped_steps' = 0 /\ dropping' = FALSE
  /\ accumulator' = Accumulated(elapsed) % policy.fixed_delta_ns
  /\ UNCHANGED <<loop_configured, policy, active_stages, executed, to_run>>

\* Fail-fast mode returns before the accumulator is reduced: the time of the
\* refused frame is still owed by the next one.
FailFrame(elapsed) ==
  /\ loop_configured /\ FailsFast(elapsed)
  /\ update_steps' = 1 /\ dropped_steps' = 0 /\ dropping' = FALSE
  /\ accumulator' = Accumulated(elapsed)
  /\ UNCHANGED <<loop_configured, policy, active_stages, executed, to_run>>

\* How many stages run until the next handler is called, or the frame ends.  Stages
\* without a handler are only recorded: they run together with what follows.
NextCall ==
  LET handled == {i \in DOMAIN to_run : to_run[i] \in HandledStages}
  IN IF handled = {} THEN Len(to_run) ELSE Min(handled)

\* execute_stage: a stage is recorded before its handler runs.
ExecuteStage ==
  /\ in_frame
  /\ executed' = executed \o SubSeq(to_run, 1, NextCall)
  /\ to_run' = SubSeq(to_run, NextCall + 1, Len(to_run))
  /\ UNCHANGED <<loop_configured, policy, active_stages, accumulator, update_steps,
                 dropped_steps, dropping>>
=============================================================================
