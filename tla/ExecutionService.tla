-------------------------- MODULE ExecutionService --------------------------
(***************************************************************************)
(* framekit::runtime::InlineExecutionService.  SubmitTask, Cancel and      *)
(* BeginShutdown are one step each, under the mutex.  Drain takes the      *)
(* whole queue under the mutex and then runs it task by task, locking only *)
(* to record each state; a task is client code and may call back, Drain    *)
(* included.  A thread is the stack of its Drain calls, innermost first.   *)
(***************************************************************************)
EXTENDS Naturals, Sequences, FiniteSets, SequencesExt

CONSTANTS
  Threads,      \* threads that share the service
  Requests,     \* policies passed to ConfigurePolicy
  MaxTasks,     \* bound on accepted tasks
  MaxRejected,  \* bound on counted rejections
  MaxDepth      \* bound on nested Drain calls of one thread

SchedulerPolicies == [kind : {"SingleThreaded", "FixedPool", "StageAffine"},
                      worker_count : Nat, stage_affinity_enabled : BOOLEAN]

ASSUME RequestsAssumption == Requests \subseteq SchedulerPolicies
ASSUME BoundsAssumption == MaxTasks \in Nat /\ MaxRejected \in Nat /\ MaxDepth \in Nat

VARIABLES
  shutting_down, policy, next_task_id,
  pending,   \* ids of the queued tasks
  results,   \* id -> recorded state, for the ids handed out
  metrics,
  stack,     \* thread -> its Drain calls
  started    \* history: ids in the order their tasks were called

vars == <<shutting_down, policy, next_task_id, pending, results, metrics, stack, started>>

TaskStates == {"Queued", "Running", "Completed", "Cancelled", "Failed"}
Final == {"Completed", "Cancelled", "Failed"}
Metrics == [submitted : Nat, rejected : Nat, cancelled : Nat, completed : Nat,
            failed : Nat, pending : Nat]

\* One Drain call: what is left of to_run, and whether its first task is executing.
Drains == [to_run : Seq(Nat \ {0}), running : BOOLEAN]

Init ==
  /\ shutting_down = FALSE
  /\ policy = [kind |-> "SingleThreaded", worker_count |-> 1, stage_affinity_enabled |-> FALSE]
  /\ next_task_id = 1 /\ pending = <<>> /\ results = <<>>
  /\ metrics = [submitted |-> 0, rejected |-> 0, cancelled |-> 0, completed |-> 0,
                failed |-> 0, pending |-> 0]
  /\ stack = [t \in Threads |-> <<>>] /\ started = <<>>

Top(t) == Head(stack[t])
ReplaceTop(t, drain) == stack' = [stack EXCEPT ![t] = <<drain>> \o Tail(@)]
InTask(t) == stack[t] # <<>> /\ Top(t).running
ClientRuns(t) == stack[t] = <<>> \/ InTask(t)

-----------------------------------------------------------------------------
\* ConfigurePolicy stores a request with its worker count and affinity made legal.
Normalised(request) ==
  IF request.kind = "SingleThreaded"
    THEN [request EXCEPT !.worker_count = 1, !.stage_affinity_enabled = FALSE]
    ELSE [request EXCEPT !.worker_count = IF @ = 0 THEN 1 ELSE @]

ConfigurePolicy(t, request) ==
  /\ ClientRuns(t)
  /\ policy' = Normalised(request)
  /\ UNCHANGED <<shutting_down, next_task_id, pending, results, metrics, stack, started>>

SubmitTask(t) ==
  /\ ClientRuns(t)
  /\ ~shutting_down
  /\ next_task_id <= MaxTasks
  /\ pending' = Append(pending, next_task_id)
  /\ results' = Append(results, "Queued")
  /\ next_task_id' = next_task_id + 1
  /\ metrics' = [metrics EXCEPT !.submitted = @ + 1, !.pending = Len(pending')]
  /\ UNCHANGED <<shutting_down, policy, stack, started>>

\* SubmitTask of an empty task, or during shutdown.
SubmitRejected(t, empty) ==
  /\ ClientRuns(t)
  /\ shutting_down \/ empty
  /\ metrics.rejected < MaxRejected
  /\ metrics' = [metrics EXCEPT !.rejected = @ + 1]
  /\ UNCHANGED <<shutting_down, policy, next_task_id, pending, results, stack, started>>

\* Wrong version of Cancel: metrics_.pending keeps its old value.
CancelStaleMetrics(t, id) ==
  /\ ClientRuns(t)
  /\ ~shutting_down
  /\ \E i \in DOMAIN pending : pending[i] = id /\ pending' = RemoveAt(pending, i)
  /\ results' = [results EXCEPT ![id] = "Cancelled"]
  /\ metrics' = [metrics EXCEPT !.cancelled = @ + 1]
  /\ UNCHANGED <<shutting_down, policy, next_task_id, stack, started>>

\* Cancel erases the entry of the task, if it is still queued.
Cancel(t, id) ==
  /\ ClientRuns(t)
  /\ ~shutting_down
  /\ \E i \in DOMAIN pending : pending[i] = id /\ pending' = RemoveAt(pending, i)
  /\ results' = [results EXCEPT ![id] = "Cancelled"]
  /\ metrics' = [metrics EXCEPT !.cancelled = @ + 1, !.pending = Len(pending')]
  /\ UNCHANGED <<shutting_down, policy, next_task_id, stack, started>>

\* The states BeginShutdown records.  Wrong version: it cancels nothing.
CancelledByShutdownNone == results

CancelledByShutdown ==
  [id \in DOMAIN results |-> IF id \in Range(pending) THEN "Cancelled" ELSE results[id]]

\* A second BeginShutdown returns true and changes nothing.
BeginShutdown(t) ==
  /\ ClientRuns(t)
  /\ ~shutting_down
  /\ shutting_down' = TRUE
  /\ results' = CancelledByShutdown
  /\ pending' = <<>>
  /\ metrics' = [metrics EXCEPT !.cancelled = @ + Len(pending), !.pending = Len(pending')]
  /\ UNCHANGED <<policy, next_task_id, stack, started>>

-----------------------------------------------------------------------------
\* What Drain leaves of the queue.  Wrong version: the queue is copied, not swapped.
AfterSwapCopied == pending

AfterSwap == <<>>

Drain(t) ==
  /\ ClientRuns(t)
  /\ Len(stack[t]) < MaxDepth
  /\ stack' = [stack EXCEPT ![t] = <<[to_run |-> pending, running |-> FALSE]>> \o @]
  /\ pending' = AfterSwap
  /\ metrics' = [metrics EXCEPT !.pending = Len(pending')]
  /\ UNCHANGED <<shutting_down, policy, next_task_id, results, started>>

\* The next task of to_run is recorded as running and called.
BeginTask(t) ==
  /\ ~ClientRuns(t)
  /\ Top(t).to_run # <<>>
  /\ LET id == Head(Top(t).to_run)
     IN /\ results' = [results EXCEPT ![id] = "Running"]
        /\ started' = Append(started, id)
  /\ ReplaceTop(t, [Top(t) EXCEPT !.running = TRUE])
  /\ UNCHANGED <<shutting_down, policy, next_task_id, pending, metrics>>

\* The task returns, or throws and is caught; its outcome is recorded.
EndTask(t, outcome) ==
  /\ InTask(t)
  /\ results' = [results EXCEPT ![Head(Top(t).to_run)] = outcome]
  /\ metrics' = [metrics EXCEPT !.completed = IF outcome = "Completed" THEN @ + 1 ELSE @,
                                !.failed = IF outcome = "Failed" THEN @ + 1 ELSE @]
  /\ ReplaceTop(t, [to_run |-> Tail(Top(t).to_run), running |-> FALSE])
  /\ UNCHANGED <<shutting_down, policy, next_task_id, pending, started>>

TaskReturns(t) == EndTask(t, "Completed")
TaskThrows(t) == EndTask(t, "Failed")

DrainReturns(t) ==
  /\ stack[t] # <<>>
  /\ Top(t).to_run = <<>>
  /\ stack' = [stack EXCEPT ![t] = Tail(@)]
  /\ UNCHANGED <<shutting_down, policy, next_task_id, pending, results, metrics, started>>

\* A step of thread t.
Step(t) ==
  \/ \E request \in Requests : ConfigurePolicy(t, request)
  \/ SubmitTask(t)
  \/ \E empty \in BOOLEAN : SubmitRejected(t, empty)
  \/ \E id \in 1..MaxTasks : Cancel(t, id)
  \/ BeginShutdown(t)
  \/ Drain(t)
  \/ BeginTask(t)
  \/ TaskReturns(t)
  \/ TaskThrows(t)
  \/ DrainReturns(t)

Next == \E t \in Threads : Step(t)

Spec == Init /\ [][Next]_vars

-----------------------------------------------------------------------------
\* The ids some Drain call has taken and not finished.
HeldBy(t) == UNION {Range(stack[t][i].to_run) : i \in DOMAIN stack[t]}
InFlight == UNION {HeldBy(t) : t \in Threads}
WithState(s) == {id \in DOMAIN results : results[id] = s}

\* The members have their types; ConfigurePolicy never leaves a policy without a
\* worker, nor a single-threaded one with several.
TypeOK ==
  /\ shutting_down \in BOOLEAN /\ policy \in SchedulerPolicies
  /\ policy.worker_count >= 1
  /\ policy.kind = "SingleThreaded" => policy.worker_count = 1 /\ ~policy.stage_affinity_enabled
  /\ next_task_id \in 1..(MaxTasks + 1)
  /\ pending \in Seq(Nat \ {0}) /\ metrics \in Metrics
  /\ results \in Seq(TaskStates) /\ Len(results) = next_task_id - 1
  /\ stack \in [Threads -> Seq(Drains)]
  /\ started \in Seq(DOMAIN results)

\* No task is lost between the queue, the Drain calls of every thread and the
\* recorded results, and the metrics say exactly that: a queued task is in the queue
\* or waits in a Drain call, a running one is the one such a call executes, all
\* others are final, and every counter is the number of tasks in its state.
MetricsAddUp ==
  /\ metrics.pending = Len(pending)
  /\ metrics.submitted = Len(results)
  /\ metrics.completed = Cardinality(WithState("Completed"))
  /\ metrics.failed = Cardinality(WithState("Failed"))
  /\ metrics.cancelled = Cardinality(WithState("Cancelled"))
  /\ WithState("Queued") \cup WithState("Running") = Range(pending) \cup InFlight
  /\ Range(pending) \cap InFlight = {}

\* Whatever threads Drain, nest Drain calls, Cancel and shut down at the same time, a
\* task is called at most once and a task reported as cancelled is never called.
TasksRunAtMostOnce ==
  /\ \A i, j \in DOMAIN started : started[i] = started[j] => i = j
  /\ \A i \in DOMAIN started : results[started[i]] \notin {"Queued", "Cancelled"}

\* Once BeginShutdown has been called every accepted task reaches a final state: the
\* queued ones are cancelled, the ones a Drain call already holds still run.
ShutdownSettlesEveryTask ==
  shutting_down ~> (\A id \in DOMAIN results : results[id] \in Final)
=============================================================================
