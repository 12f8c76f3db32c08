-------------------------- MODULE ExecutionProofs --------------------------
(***************************************************************************)
(* Proofs about InlineExecutionService and the registry that shuts it      *)
(* down, for every number of threads, tasks, services and nested calls.    *)
(***************************************************************************)
EXTENDS MCExecution, OperatorLemmas, FunctionTheorems

-----------------------------------------------------------------------------
(***************************************************************************)
(* The stacks of Drain calls.                                              *)
(***************************************************************************)
StacksOK == stack \in [Threads -> Seq(Drains)]

\* The innermost Drain call and the calls below it.
LEMMA StackTop ==
  ASSUME StacksOK, NEW t \in Threads, stack[t] # <<>>
  PROVE  /\ stack[t] \in Seq(Drains) /\ Top(t) \in Drains /\ Top(t) = stack[t][1]
         /\ Len(stack[t]) \in Nat \ {0} /\ Tail(stack[t]) \in Seq(Drains)
         /\ Len(Tail(stack[t])) = Len(stack[t]) - 1
         /\ \A i \in 1..(Len(stack[t]) - 1) : Tail(stack[t])[i] = stack[t][i + 1]
<1>1. stack[t] \in Seq(Drains)
  BY DEF StacksOK
<1> QED BY <1>1, TailFacts DEF Top

\* A Drain call that changes its locals leaves every other call alone.
LEMMA StackReplaced ==
  ASSUME StacksOK, NEW t \in Threads, stack[t] # <<>>, NEW d \in Drains, ReplaceTop(t, d)
  PROVE  /\ StacksOK' /\ \A u \in Threads \ {t} : stack'[u] = stack[u]
         /\ Len(stack'[t]) = Len(stack[t]) /\ stack'[t][1] = d
         /\ \A i \in 2..Len(stack[t]) : stack'[t][i] = stack[t][i]
<1> DEFINE rest == Tail(stack[t])
           new == <<d>> \o rest
<1>1. /\ rest \in Seq(Drains) /\ Len(stack[t]) \in Nat \ {0} /\ Len(rest) = Len(stack[t]) - 1
      /\ \A i \in 1..(Len(stack[t]) - 1) : rest[i] = stack[t][i + 1]
  BY StackTop
<1>2. stack' = [stack EXCEPT ![t] = new]
  BY DEF ReplaceTop
<1> HIDE DEF rest
<1>3. new \in Seq(Drains) /\ Len(new) = Len(rest) + 1 /\ new[1] = d
      /\ \A i \in 2..(Len(rest) + 1) : new[i] = rest[i - 1]
  BY <1>1, ConsFacts
<1> HIDE DEF new
<1>4. stack'[t] = new /\ \A u \in Threads \ {t} : stack'[u] = stack[u]
  BY <1>2 DEF StacksOK
<1>5. StacksOK'
  BY <1>2, <1>3 DEF StacksOK
<1>6. Len(new) = Len(stack[t])
  BY <1>1, <1>3
<1>7. ASSUME NEW i \in 2..Len(stack[t]) PROVE new[i] = stack[t][i]
  <2>1. i \in 2..(Len(rest) + 1) /\ i - 1 \in 1..(Len(stack[t]) - 1) /\ (i - 1) + 1 = i
    BY <1>1
  <2> QED BY <1>1, <1>3, <2>1
<1> QED BY <1>3, <1>4, <1>5, <1>6, <1>7

\* A new Drain call moves the calls of its thread one place down.
LEMMA StackPushed ==
  ASSUME StacksOK, NEW t \in Threads, NEW d \in Drains, stack' = [stack EXCEPT ![t] = <<d>> \o @]
  PROVE  /\ StacksOK' /\ \A u \in Threads \ {t} : stack'[u] = stack[u]
         /\ Len(stack'[t]) = Len(stack[t]) + 1 /\ Len(stack[t]) \in Nat /\ stack'[t][1] = d
         /\ \A i \in 2..(Len(stack[t]) + 1) : stack'[t][i] = stack[t][i - 1]
<1> DEFINE new == <<d>> \o stack[t]
<1>1. stack[t] \in Seq(Drains)
  BY DEF StacksOK
<1>2. stack' = [stack EXCEPT ![t] = new]
  OBVIOUS
<1>3. new \in Seq(Drains) /\ Len(new) = Len(stack[t]) + 1 /\ new[1] = d /\ Len(stack[t]) \in Nat
      /\ \A i \in 2..(Len(stack[t]) + 1) : new[i] = stack[t][i - 1]
  BY <1>1, ConsFacts
<1> HIDE DEF new
<1>4. stack'[t] = new /\ \A u \in Threads \ {t} : stack'[u] = stack[u]
  BY <1>2 DEF StacksOK
<1>5. StacksOK'
  BY <1>2, <1>3 DEF StacksOK
<1> QED BY <1>3, <1>4, <1>5

\* A Drain call that returns moves the calls of its thread one place up.
LEMMA StackPopped ==
  ASSUME StacksOK, NEW t \in Threads, stack[t] # <<>>, stack' = [stack EXCEPT ![t] = Tail(@)]
  PROVE  /\ StacksOK' /\ \A u \in Threads \ {t} : stack'[u] = stack[u]
         /\ Len(stack'[t]) = Len(stack[t]) - 1 /\ Len(stack[t]) \in Nat \ {0}
         /\ \A i \in 1..(Len(stack[t]) - 1) : stack'[t][i] = stack[t][i + 1]
<1>1. stack'[t] = Tail(stack[t]) /\ \A u \in Threads \ {t} : stack'[u] = stack[u]
  BY DEF StacksOK
<1>2. StacksOK'
  BY StackTop DEF StacksOK
<1> QED BY <1>1, <1>2, StackTop

-----------------------------------------------------------------------------
(***************************************************************************)
(* Where a task is.                                                        *)
(***************************************************************************)
\* The m-th task that the i-th Drain call of thread t has still to finish is id.
Placed(t, i, m, id) ==
  /\ t \in Threads /\ i \in 1..Len(stack[t]) /\ m \in 1..Len(stack[t][i].to_run)
  /\ stack[t][i].to_run[m] = id

Executing(t, i) == stack[t][i].running

Basics ==
  /\ shutting_down \in BOOLEAN /\ policy \in SchedulerPolicies
  /\ policy.worker_count >= 1
  /\ policy.kind = "SingleThreaded" => policy.worker_count = 1 /\ ~policy.stage_affinity_enabled
  /\ next_task_id \in 1..(MaxTasks + 1)
  /\ pending \in Seq(Nat \ {0}) /\ metrics \in Metrics
  /\ results \in Seq(TaskStates) /\ Len(results) = next_task_id - 1
  /\ StacksOK /\ started \in Seq(Nat \ {0})

\* The queued tasks.
QueueState ==
  /\ \A k, l \in DOMAIN pending : pending[k] = pending[l] => k = l
  /\ \A k \in DOMAIN pending : pending[k] \in DOMAIN results /\ results[pending[k]] = "Queued"

\* A task is in one place at most, and its state says which: only the first task of a
\* Drain call is running.
PlaceState ==
  /\ \A t, i, m, u, j, n, id : Placed(t, i, m, id) /\ Placed(u, j, n, id) => t = u /\ i = j /\ m = n
  /\ \A t, i, m, id : Placed(t, i, m, id) =>
       /\ id \notin Range(pending) /\ id \in DOMAIN results
       /\ results[id] = IF m = 1 /\ Executing(t, i) THEN "Running" ELSE "Queued"

\* No task that is not final is forgotten.
NoneForgotten ==
  \A id \in DOMAIN results : results[id] \in {"Queued", "Running"} =>
    id \in Range(pending) \/ \E t, i, m : Placed(t, i, m, id)

\* A call that executes a task has one.
CallsOK == \A t \in Threads : \A i \in 1..Len(stack[t]) : Executing(t, i) => stack[t][i].to_run # <<>>

StartedState ==
  /\ \A i, j \in DOMAIN started : started[i] = started[j] => i = j
  /\ \A i \in DOMAIN started : /\ started[i] \in DOMAIN results
                               /\ results[started[i]] \notin {"Queued", "Cancelled"}

CountState ==
  /\ metrics.pending = Len(pending)
  /\ metrics.submitted = Len(results)
  /\ metrics.completed = Cardinality(WithState("Completed"))
  /\ metrics.failed = Cardinality(WithState("Failed"))
  /\ metrics.cancelled = Cardinality(WithState("Cancelled"))

ServiceInvariant ==
  Basics /\ QueueState /\ PlaceState /\ NoneForgotten /\ CallsOK /\ StartedState /\ CountState

\* The batch of a Drain call is a list of task ids.
LEMMA CallType ==
  ASSUME StacksOK, NEW t \in Threads, NEW i \in 1..Len(stack[t])
  PROVE  /\ stack[t][i] \in Drains /\ stack[t][i].to_run \in Seq(Nat \ {0})
         /\ Len(stack[t][i].to_run) \in Nat /\ Executing(t, i) \in BOOLEAN
         /\ DOMAIN stack[t][i].to_run = 1..Len(stack[t][i].to_run)
<1>1. stack[t][i] \in Drains
  BY ElementOfSeq DEF StacksOK
<1>2. stack[t][i].to_run \in Seq(Nat \ {0}) /\ Executing(t, i) \in BOOLEAN
  BY <1>1 DEF Drains, Executing
<1> QED BY <1>1, <1>2

\* The places after each change of a stack.
LEMMA PlacesKept ==
  ASSUME UNCHANGED stack
  PROVE  /\ \A t, i, m, id : Placed(t, i, m, id)' <=> Placed(t, i, m, id)
         /\ \A t, i : Executing(t, i)' = Executing(t, i)
BY DEF Placed, Executing

\* A task is started: it stays where it is.
LEMMA PlacesStarted ==
  ASSUME StacksOK, NEW t \in Threads, stack[t] # <<>>,
         ReplaceTop(t, [Top(t) EXCEPT !.running = TRUE])
  PROVE  /\ StacksOK' /\ \A u \in Threads : Len(stack'[u]) = Len(stack[u])
         /\ \A u, j, n, id : Placed(u, j, n, id)' <=> Placed(u, j, n, id)
         /\ \A u \in Threads : \A j \in 1..Len(stack[u]) :
              /\ stack'[u][j].to_run = stack[u][j].to_run
              /\ Executing(u, j)' = IF u = t /\ j = 1 THEN TRUE ELSE Executing(u, j)
<1> DEFINE d == [Top(t) EXCEPT !.running = TRUE]
<1>1. Top(t) \in Drains /\ Top(t) = stack[t][1] /\ Len(stack[t]) \in Nat \ {0}
  BY StackTop
<1>2. d \in Drains /\ d.to_run = stack[t][1].to_run /\ d.running = TRUE
  BY <1>1 DEF Drains
<1> HIDE DEF d
<1>3. /\ StacksOK' /\ \A u \in Threads \ {t} : stack'[u] = stack[u]
      /\ Len(stack'[t]) = Len(stack[t]) /\ stack'[t][1] = d
      /\ \A i \in 2..Len(stack[t]) : stack'[t][i] = stack[t][i]
  BY <1>2, StackReplaced DEF d
<1>4. \A u \in Threads : Len(stack'[u]) = Len(stack[u])
  BY <1>3
<1>5. ASSUME NEW u \in Threads, NEW j \in 1..Len(stack[u])
      PROVE  /\ stack'[u][j].to_run = stack[u][j].to_run
             /\ Executing(u, j)' = IF u = t /\ j = 1 THEN TRUE ELSE Executing(u, j)
  <2>1. CASE u # t
    BY <1>3, <2>1 DEF Executing
  <2>2. CASE u = t /\ j = 1
    BY <1>2, <1>3, <2>2 DEF Executing
  <2>3. CASE u = t /\ j # 1
    <3>1. j \in 2..Len(stack[t])
      BY <1>1, <2>3
    <3> QED BY <1>3, <2>3, <3>1 DEF Executing
  <2> QED BY <2>1, <2>2, <2>3
<1>6. \A u, j, n, id : Placed(u, j, n, id)' <=> Placed(u, j, n, id)
  BY <1>4, <1>5 DEF Placed
<1> QED BY <1>3, <1>4, <1>5, <1>6

\* A task has ended: the ones behind it move up.
LEMMA PlacesEnded ==
  ASSUME StacksOK, NEW t \in Threads, stack[t] # <<>>, Top(t).to_run # <<>>,
         ReplaceTop(t, [to_run |-> Tail(Top(t).to_run), running |-> FALSE])
  PROVE  /\ StacksOK' /\ Placed(t, 1, 1, Head(Top(t).to_run)) /\ ~Executing(t, 1)'
         /\ \A u, j, n, id : Placed(u, j, n, id)' <=>
              IF u = t /\ j = 1 THEN n \in Nat \ {0} /\ Placed(t, 1, n + 1, id) ELSE Placed(u, j, n, id)
         /\ \A u, j, n, id : Placed(u, j, n, id) /\ ~(u = t /\ j = 1) => Executing(u, j)' = Executing(u, j)
         /\ \A u \in Threads : Len(stack'[u]) = Len(stack[u])
         /\ \A u \in Threads : \A j \in 1..Len(stack[u]) : ~(u = t /\ j = 1) => stack'[u][j] = stack[u][j]
<1> DEFINE d == [to_run |-> Tail(Top(t).to_run), running |-> FALSE]
           old == stack[t][1].to_run
<1>1. Top(t) = stack[t][1] /\ Len(stack[t]) \in Nat \ {0} /\ 1 \in 1..Len(stack[t])
  BY StackTop
<1>2. old \in Seq(Nat \ {0}) /\ old # <<>> /\ Top(t).to_run = old
  BY <1>1, CallType
<1>3. /\ Head(old) = old[1] /\ Len(old) \in Nat \ {0} /\ Tail(old) \in Seq(Nat \ {0})
      /\ Len(Tail(old)) = Len(old) - 1
      /\ \A i \in 1..(Len(old) - 1) : Tail(old)[i] = old[i + 1]
  BY <1>2, TailFacts
<1>4. d \in Drains /\ d.to_run = Tail(old) /\ d.running = FALSE
  BY <1>2, <1>3 DEF Drains
<1> HIDE DEF d
<1>5. /\ StacksOK' /\ \A u \in Threads \ {t} : stack'[u] = stack[u]
      /\ Len(stack'[t]) = Len(stack[t]) /\ stack'[t][1] = d
      /\ \A i \in 2..Len(stack[t]) : stack'[t][i] = stack[t][i]
  BY <1>4, StackReplaced DEF d
<1>6. \A u \in Threads : Len(stack'[u]) = Len(stack[u])
  BY <1>5
<1>7. \A u \in Threads : \A j \in 1..Len(stack[u]) : ~(u = t /\ j = 1) => stack'[u][j] = stack[u][j]
  <2> SUFFICES ASSUME NEW u \in Threads, NEW j \in 1..Len(stack[u]), ~(u = t /\ j = 1)
               PROVE  stack'[u][j] = stack[u][j]
    OBVIOUS
  <2>1. CASE u # t
    BY <1>5, <2>1
  <2>2. CASE u = t
    <3>1. j \in 2..Len(stack[t])
      BY <1>1, <2>2
    <3> QED BY <1>5, <2>2, <3>1
  <2> QED BY <2>1, <2>2
<1>8. Placed(t, 1, 1, Head(Top(t).to_run))
  <2>1. 1 \in 1..Len(old)
    BY <1>3
  <2> QED BY <1>1, <1>2, <1>3, <2>1 DEF Placed
<1>9. ~Executing(t, 1)'
  BY <1>4, <1>5 DEF Executing
<1>10. ASSUME NEW n, NEW id
       PROVE  Placed(t, 1, n, id)' <=> n \in Nat \ {0} /\ Placed(t, 1, n + 1, id)
  <2>1. Placed(t, 1, n, id)' <=> n \in 1..(Len(old) - 1) /\ Tail(old)[n] = id
    BY <1>1, <1>3, <1>4, <1>5 DEF Placed
  <2>2. n \in 1..(Len(old) - 1) <=> n \in Nat \ {0} /\ n + 1 \in 1..Len(old)
    BY <1>3
  <2>3. Placed(t, 1, n + 1, id) <=> n + 1 \in 1..Len(old) /\ old[n + 1] = id
    BY <1>1 DEF Placed
  <2> QED BY <1>3, <2>1, <2>2, <2>3
<1>11. ASSUME NEW u, NEW j, NEW n, NEW id, ~(u = t /\ j = 1)
       PROVE  /\ Placed(u, j, n, id)' <=> Placed(u, j, n, id)
              /\ Placed(u, j, n, id) => Executing(u, j)' = Executing(u, j)
  BY <1>6, <1>7, <1>11 DEF Placed, Executing
<1> QED BY <1>5, <1>6, <1>7, <1>8, <1>9, <1>10, <1>11

\* A Drain call takes the queue.
LEMMA PlacesPushed ==
  ASSUME StacksOK, NEW t \in Threads, NEW tasks \in Seq(Nat \ {0}),
         stack' = [stack EXCEPT ![t] = <<[to_run |-> tasks, running |-> FALSE]>> \o @]
  PROVE  /\ StacksOK' /\ ~Executing(t, 1)'
         /\ \A u, j, n, id : Placed(u, j, n, id)' <=>
              IF u = t /\ j = 1 THEN n \in DOMAIN tasks /\ tasks[n] = id
              ELSE IF u = t THEN j \in Nat \ {0} /\ Placed(t, j - 1, n, id)
              ELSE Placed(u, j, n, id)
         /\ \A j \in 1..Len(stack[t]) : stack'[t][j + 1] = stack[t][j]
         /\ \A u \in Threads \ {t} : stack'[u] = stack[u]
         /\ Len(stack'[t]) = Len(stack[t]) + 1 /\ Len(stack[t]) \in Nat
<1> DEFINE d == [to_run |-> tasks, running |-> FALSE]
<1>1. d \in Drains /\ d.to_run = tasks /\ d.running = FALSE
  BY DEF Drains
<1> HIDE DEF d
<1>2. /\ StacksOK' /\ \A u \in Threads \ {t} : stack'[u] = stack[u]
      /\ Len(stack'[t]) = Len(stack[t]) + 1 /\ Len(stack[t]) \in Nat /\ stack'[t][1] = d
      /\ \A i \in 2..(Len(stack[t]) + 1) : stack'[t][i] = stack[t][i - 1]
  BY <1>1, StackPushed DEF d
<1>3. ~Executing(t, 1)'
  BY <1>1, <1>2 DEF Executing
<1>4. \A j \in 1..Len(stack[t]) : stack'[t][j + 1] = stack[t][j]
  <2> SUFFICES ASSUME NEW j \in 1..Len(stack[t]) PROVE stack'[t][j + 1] = stack[t][j]
    OBVIOUS
  <2>1. j + 1 \in 2..(Len(stack[t]) + 1) /\ (j + 1) - 1 = j
    BY <1>2
  <2> QED BY <1>2, <2>1
<1>5. ASSUME NEW n, NEW id PROVE Placed(t, 1, n, id)' <=> n \in DOMAIN tasks /\ tasks[n] = id
  <2>1. 1 \in 1..(Len(stack[t]) + 1)
    BY <1>2
  <2> QED BY <1>1, <1>2, <2>1 DEF Placed
<1>6. ASSUME NEW j, NEW n, NEW id, j # 1
      PROVE  Placed(t, j, n, id)' <=> j \in Nat \ {0} /\ Placed(t, j - 1, n, id)
  <2>1. j \in 1..(Len(stack[t]) + 1) <=> j \in Nat \ {0} /\ j - 1 \in 1..Len(stack[t])
    BY <1>2, <1>6
  <2>2. j \in 1..(Len(stack[t]) + 1) => stack'[t][j] = stack[t][j - 1]
    BY <1>2, <1>6
  <2> QED BY <1>2, <2>1, <2>2 DEF Placed
<1>7. ASSUME NEW u, NEW j, NEW n, NEW id, u # t PROVE Placed(u, j, n, id)' <=> Placed(u, j, n, id)
  BY <1>2, <1>7 DEF Placed
<1> QED BY <1>2, <1>3, <1>4, <1>5, <1>6, <1>7

\* A Drain call that has nothing left returns.
LEMMA PlacesPopped ==
  ASSUME StacksOK, NEW t \in Threads, stack[t] # <<>>, Top(t).to_run = <<>>,
         stack' = [stack EXCEPT ![t] = Tail(@)]
  PROVE  /\ StacksOK'
         /\ \A u, j, n, id : Placed(u, j, n, id)' <=>
              IF u = t THEN j \in Nat \ {0} /\ Placed(t, j + 1, n, id) ELSE Placed(u, j, n, id)
         /\ \A n, id : ~Placed(t, 1, n, id)
         /\ \A j \in 1..(Len(stack[t]) - 1) : stack'[t][j] = stack[t][j + 1]
         /\ \A u \in Threads \ {t} : stack'[u] = stack[u]
         /\ Len(stack'[t]) = Len(stack[t]) - 1 /\ Len(stack[t]) \in Nat \ {0}
<1>1. /\ StacksOK' /\ \A u \in Threads \ {t} : stack'[u] = stack[u]
      /\ Len(stack'[t]) = Len(stack[t]) - 1 /\ Len(stack[t]) \in Nat \ {0}
      /\ \A i \in 1..(Len(stack[t]) - 1) : stack'[t][i] = stack[t][i + 1]
  BY StackPopped
<1>2. \A n, id : ~Placed(t, 1, n, id)
  <2>1. stack[t][1].to_run = <<>>
    BY StackTop
  <2> QED BY <2>1 DEF Placed
<1>3. ASSUME NEW j, NEW n, NEW id
      PROVE  Placed(t, j, n, id)' <=> j \in Nat \ {0} /\ Placed(t, j + 1, n, id)
  <2>1. j \in 1..(Len(stack[t]) - 1) <=> j \in Nat \ {0} /\ j + 1 \in 1..Len(stack[t])
    BY <1>1
  <2> QED BY <1>1, <2>1 DEF Placed
<1>4. ASSUME NEW u, NEW j, NEW n, NEW id, u # t PROVE Placed(u, j, n, id)' <=> Placed(u, j, n, id)
  BY <1>1, <1>4 DEF Placed
<1> QED BY <1>1, <1>2, <1>3, <1>4

-----------------------------------------------------------------------------
(***************************************************************************)
(* The recorded states.                                                    *)
(***************************************************************************)
LEMMA StateSets ==
  ASSUME Basics, NEW s
  PROVE  IsFiniteSet(WithState(s)) /\ Cardinality(WithState(s)) \in Nat
<1>1. DOMAIN results = 1..Len(results) /\ Len(results) \in Nat
  BY DEF Basics
<1>2. IsFiniteSet(1..Len(results))
  BY <1>1, FS_Interval
<1>3. WithState(s) \subseteq 1..Len(results)
  BY <1>1 DEF WithState
<1>4. IsFiniteSet(WithState(s))
  BY <1>2, <1>3, FS_Subset
<1> QED BY <1>4, FS_CardinalityType

\* A task's state is recorded: one more task has it.
LEMMA StateRecorded ==
  ASSUME Basics, NEW id \in DOMAIN results, NEW st \in TaskStates,
         results' = [results EXCEPT ![id] = st]
  PROVE  /\ results' \in Seq(TaskStates) /\ Len(results') = Len(results)
         /\ DOMAIN results' = DOMAIN results
         /\ \A x \in DOMAIN results : results'[x] = IF x = id THEN st ELSE results[x]
         /\ results[id] # st => Cardinality(WithState(st)') = Cardinality(WithState(st)) + 1
         /\ \A s : s # st /\ s # results[id] => WithState(s)' = WithState(s)
<1>1. results \in Seq(TaskStates) /\ DOMAIN results = 1..Len(results) /\ Len(results) \in Nat
  BY DEF Basics
<1>2. /\ results' \in Seq(TaskStates) /\ Len(results') = Len(results)
      /\ DOMAIN results' = DOMAIN results
  <2>1. results' \in [1..Len(results) -> TaskStates]
    BY <1>1
  <2>2. results' \in Seq(TaskStates)
    BY <1>1, <2>1, SeqDef
  <2>3. DOMAIN results' = 1..Len(results') /\ DOMAIN results' = 1..Len(results)
    BY <1>1, <2>1, <2>2
  <2>4. Len(results') = Len(results)
    BY <1>1, <2>1, <2>2, LenProperties
  <2> QED BY <1>1, <2>2, <2>3, <2>4
<1>3. \A x \in DOMAIN results : results'[x] = IF x = id THEN st ELSE results[x]
  BY <1>1
<1>4. ASSUME NEW s, s # st, s # results[id] PROVE WithState(s)' = WithState(s)
  BY <1>2, <1>3, <1>4 DEF WithState
<1>5. results[id] # st => Cardinality(WithState(st)') = Cardinality(WithState(st)) + 1
  <2> SUFFICES ASSUME results[id] # st PROVE Cardinality(WithState(st)') = Cardinality(WithState(st)) + 1
    OBVIOUS
  <2>1. WithState(st)' = WithState(st) \cup {id} /\ id \notin WithState(st)
    BY <1>2, <1>3 DEF WithState
  <2>2. IsFiniteSet(WithState(st))
    BY StateSets
  <2> QED BY <2>1, <2>2, FS_AddElement
<1> QED BY <1>2, <1>3, <1>4, <1>5

\* The metrics are counters.
LEMMA MetricsFields ==
  ASSUME metrics \in Metrics
  PROVE  /\ metrics.submitted \in Nat /\ metrics.rejected \in Nat /\ metrics.cancelled \in Nat
         /\ metrics.completed \in Nat /\ metrics.failed \in Nat /\ metrics.pending \in Nat
BY DEF Metrics

\* Metrics with two counters changed.
LEMMA MetricsSubmit ==
  ASSUME metrics \in Metrics, NEW a \in Nat, NEW b \in Nat,
         metrics' = [metrics EXCEPT !.submitted = a, !.pending = b]
  PROVE  /\ metrics' \in Metrics /\ metrics'.submitted = a /\ metrics'.pending = b
         /\ metrics'.completed = metrics.completed /\ metrics'.failed = metrics.failed
         /\ metrics'.cancelled = metrics.cancelled
<1>1. metrics' \in Metrics
  BY Zenon DEF Metrics
<1> QED BY <1>1 DEF Metrics

\* What Cancel and BeginShutdown do to the metrics.
LEMMA MetricsCancel ==
  ASSUME metrics \in Metrics, NEW a \in Nat, NEW b \in Nat,
         metrics' = [metrics EXCEPT !.cancelled = a, !.pending = b]
  PROVE  /\ metrics' \in Metrics /\ metrics'.cancelled = a /\ metrics'.pending = b
         /\ metrics'.completed = metrics.completed /\ metrics'.failed = metrics.failed
         /\ metrics'.submitted = metrics.submitted
<1>1. metrics' \in Metrics
  BY Zenon DEF Metrics
<1> QED BY <1>1 DEF Metrics

\* What the end of a task does to the metrics.
LEMMA MetricsEnd ==
  ASSUME metrics \in Metrics, NEW a \in Nat, NEW b \in Nat,
         metrics' = [metrics EXCEPT !.completed = a, !.failed = b]
  PROVE  /\ metrics' \in Metrics /\ metrics'.completed = a /\ metrics'.failed = b
         /\ metrics'.cancelled = metrics.cancelled /\ metrics'.pending = metrics.pending
         /\ metrics'.submitted = metrics.submitted
<1>1. metrics' \in Metrics
  BY Zenon DEF Metrics
<1> QED BY <1>1 DEF Metrics

\* Steps that touch no task keep what is known of every task.
LEMMA TasksUntouched ==
  ASSUME ServiceInvariant, UNCHANGED <<pending, results, stack, started>>
  PROVE  QueueState' /\ PlaceState' /\ NoneForgotten' /\ CallsOK' /\ StartedState'
<1>1. pending' = pending /\ results' = results /\ stack' = stack /\ started' = started
  OBVIOUS
<1>2. /\ \A t, i, m, id : Placed(t, i, m, id)' <=> Placed(t, i, m, id)
      /\ \A t, i : Executing(t, i)' = Executing(t, i)
  BY <1>1, PlacesKept
<1>3. QueueState' /\ StartedState'
  BY <1>1 DEF ServiceInvariant, QueueState, StartedState
<1>4. PlaceState'
  BY <1>1, <1>2 DEF ServiceInvariant, PlaceState
<1>5. NoneForgotten'
  BY <1>1, <1>2 DEF ServiceInvariant, NoneForgotten
<1>6. CallsOK'
  BY <1>1, <1>2 DEF ServiceInvariant, CallsOK
<1> QED BY <1>3, <1>4, <1>5, <1>6

-----------------------------------------------------------------------------
(***************************************************************************)
(* One lemma per operation.                                                *)
(***************************************************************************)
LEMMA ConfigurePolicyStep ==
  ASSUME ServiceInvariant, NEW t \in Threads, NEW request \in Requests, ConfigurePolicy(t, request)
  PROVE  ServiceInvariant'
<1>1. /\ policy' = Normalised(request)
      /\ UNCHANGED <<shutting_down, next_task_id, pending, results, metrics, stack, started>>
  BY DEF ConfigurePolicy
<1>2. request \in SchedulerPolicies
  BY RequestsAssumption
<1>3. /\ policy' \in SchedulerPolicies /\ policy'.worker_count >= 1
      /\ policy'.kind = "SingleThreaded" => policy'.worker_count = 1 /\ ~policy'.stage_affinity_enabled
  <2>1. CASE request.kind = "SingleThreaded"
    <3>1. policy' = [request EXCEPT !.worker_count = 1, !.stage_affinity_enabled = FALSE]
      BY <1>1, <2>1 DEF Normalised
    <3>2. policy'.kind = request.kind /\ policy'.worker_count = 1 /\ policy'.stage_affinity_enabled = FALSE
      BY <1>2, <3>1 DEF SchedulerPolicies
    <3>3. policy' \in SchedulerPolicies
      BY <1>2, <3>1, Zenon DEF SchedulerPolicies
    <3> QED BY <3>2, <3>3
  <2>2. CASE request.kind # "SingleThreaded"
    BY <1>1, <1>2, <2>2 DEF Normalised, SchedulerPolicies
  <2> QED BY <2>1, <2>2
<1>4. Basics'
  BY <1>1, <1>3 DEF ServiceInvariant, Basics, StacksOK
<1>5. CountState'
  BY <1>1 DEF ServiceInvariant, CountState, WithState
<1> QED BY <1>1, <1>4, <1>5, TasksUntouched DEF ServiceInvariant

\* A refused submission changes the counter of rejections only.
LEMMA SubmitRejectedStep ==
  ASSUME ServiceInvariant, NEW t \in Threads, NEW empty \in BOOLEAN, SubmitRejected(t, empty)
  PROVE  ServiceInvariant'
<1>1. /\ metrics' = [metrics EXCEPT !.rejected = @ + 1]
      /\ UNCHANGED <<shutting_down, policy, next_task_id, pending, results, stack, started>>
  BY DEF SubmitRejected
<1>2. metrics \in Metrics
  BY DEF ServiceInvariant, Basics
<1>3. /\ metrics' \in Metrics /\ metrics'.pending = metrics.pending
      /\ metrics'.submitted = metrics.submitted /\ metrics'.completed = metrics.completed
      /\ metrics'.failed = metrics.failed /\ metrics'.cancelled = metrics.cancelled
  BY <1>1, <1>2 DEF Metrics
<1>4. Basics'
  BY <1>1, <1>3 DEF ServiceInvariant, Basics, StacksOK
<1>5. CountState'
  BY <1>1, <1>3 DEF ServiceInvariant, CountState, WithState
<1> QED BY <1>1, <1>4, <1>5, TasksUntouched DEF ServiceInvariant

\* An accepted task is new and queued.
LEMMA SubmitTaskStep ==
  ASSUME ServiceInvariant, NEW t \in Threads, SubmitTask(t)
  PROVE  ServiceInvariant'
<1> DEFINE new == next_task_id
<1>0. Basics /\ QueueState /\ PlaceState /\ NoneForgotten /\ CallsOK /\ StartedState /\ CountState
  BY DEF ServiceInvariant
<1>1. /\ new <= MaxTasks /\ pending' = Append(pending, new) /\ results' = Append(results, "Queued")
      /\ next_task_id' = new + 1
      /\ metrics' = [metrics EXCEPT !.submitted = @ + 1, !.pending = Len(pending')]
      /\ shutting_down' = shutting_down /\ policy' = policy /\ stack' = stack /\ started' = started
  BY DEF SubmitTask
<1>2. /\ new \in Nat \ {0} /\ new = Len(results) + 1 /\ MaxTasks \in Nat
      /\ pending \in Seq(Nat \ {0}) /\ results \in Seq(TaskStates) /\ "Queued" \in TaskStates
      /\ metrics \in Metrics /\ Len(results) \in Nat /\ Len(pending) \in Nat
      /\ DOMAIN results = 1..Len(results) /\ DOMAIN pending = 1..Len(pending)
  BY <1>0, BoundsAssumption DEF Basics, TaskStates
<1>3. /\ pending' \in Seq(Nat \ {0}) /\ Len(pending') = Len(pending) + 1
      /\ DOMAIN pending' = 1..(Len(pending) + 1)
      /\ \A i \in 1..Len(pending) : pending'[i] = pending[i]
      /\ pending'[Len(pending) + 1] = new
  BY <1>1, <1>2, AppendFacts
<1>4. /\ results' \in Seq(TaskStates) /\ Len(results') = new
      /\ DOMAIN results' = 1..new /\ new \notin DOMAIN results
      /\ \A i \in 1..Len(results) : results'[i] = results[i]
      /\ results'[new] = "Queued"
  BY <1>1, <1>2, AppendFacts
<1>5. DOMAIN results \subseteq DOMAIN results' /\ \A x \in DOMAIN results' : x \in DOMAIN results \/ x = new
  BY <1>2, <1>4
<1>6. /\ \A u, i, m, id : Placed(u, i, m, id)' <=> Placed(u, i, m, id)
      /\ \A u, i : Executing(u, i)' = Executing(u, i)
  BY <1>1, PlacesKept
<1>7. Range(pending') = Range(pending) \cup {new}
  <2>1. \A x \in DOMAIN pending' : x \in DOMAIN pending \/ x = Len(pending) + 1
    BY <1>2, <1>3
  <2>2. DOMAIN pending \subseteq DOMAIN pending' /\ Len(pending) + 1 \in DOMAIN pending'
    BY <1>2, <1>3
  <2> QED BY <1>2, <1>3, <2>1, <2>2 DEF Range
<1>8. metrics' \in Metrics /\ metrics'.pending = Len(pending') /\ metrics'.submitted = metrics.submitted + 1
      /\ metrics'.completed = metrics.completed /\ metrics'.failed = metrics.failed
      /\ metrics'.cancelled = metrics.cancelled
  <2> DEFINE a == metrics.submitted + 1
             b == Len(pending')
  <2>1. a \in Nat /\ b \in Nat
    BY <1>2, <1>3, MetricsFields
  <2>2. metrics' = [metrics EXCEPT !.submitted = a, !.pending = b]
    BY <1>1
  <2> HIDE DEF a, b
  <2>3. /\ metrics' \in Metrics /\ metrics'.submitted = a /\ metrics'.pending = b
        /\ metrics'.completed = metrics.completed /\ metrics'.failed = metrics.failed
        /\ metrics'.cancelled = metrics.cancelled
    BY <1>2, <2>1, <2>2, MetricsSubmit
  <2> QED BY <2>3 DEF a, b
<1>9. Basics'
  <2>1. next_task_id' \in 1..(MaxTasks + 1) /\ Len(results') = next_task_id' - 1
    BY <1>1, <1>2, <1>4
  <2> QED BY <1>0, <1>1, <1>3, <1>4, <1>8, <2>1 DEF Basics, StacksOK
<1>10. QueueState'
  <2>1. \A k \in 1..Len(pending) : pending[k] # new
    BY <1>0, <1>2, <1>4 DEF QueueState
  <2>2. ASSUME NEW k \in DOMAIN pending', NEW l \in DOMAIN pending', pending'[k] = pending'[l] PROVE k = l
    <3>1. k \in DOMAIN pending \/ k = Len(pending) + 1
      BY <1>2, <1>3
    <3>2. l \in DOMAIN pending \/ l = Len(pending) + 1
      BY <1>2, <1>3
    <3> QED BY <1>0, <1>2, <1>3, <2>1, <2>2, <3>1, <3>2 DEF QueueState
  <2>3. ASSUME NEW k \in DOMAIN pending' PROVE pending'[k] \in DOMAIN results' /\ results'[pending'[k]] = "Queued"
    <3>1. k \in DOMAIN pending \/ k = Len(pending) + 1
      BY <1>2, <1>3
    <3>2. CASE k \in DOMAIN pending
      BY <1>0, <1>2, <1>3, <1>4, <1>5, <3>2 DEF QueueState
    <3>3. CASE k = Len(pending) + 1
      BY <1>2, <1>3, <1>4, <3>3
    <3> QED BY <3>1, <3>2, <3>3
  <2> QED BY <2>2, <2>3 DEF QueueState
<1>11. PlaceState'
  BY <1>0, <1>2, <1>4, <1>5, <1>6, <1>7 DEF PlaceState
<1>12. NoneForgotten'
  BY <1>0, <1>2, <1>4, <1>5, <1>6, <1>7 DEF NoneForgotten
<1>13. CallsOK'
  BY <1>0, <1>1, <1>6 DEF CallsOK
<1>14. StartedState'
  BY <1>0, <1>1, <1>2, <1>4, <1>5 DEF StartedState
<1>15. CountState'
  <2>1. ASSUME NEW s, s # "Queued" PROVE WithState(s)' = WithState(s)
    BY <1>2, <1>4, <1>5, <2>1 DEF WithState
  <2> QED BY <1>0, <1>2, <1>4, <1>8, <2>1 DEF CountState
<1> QED BY <1>9, <1>10, <1>11, <1>12, <1>13, <1>14, <1>15 DEF ServiceInvariant

\* Cancel makes a queued task final and takes it off the queue.
LEMMA CancelStep ==
  ASSUME ServiceInvariant, NEW t \in Threads, NEW id, Cancel(t, id)
  PROVE  ServiceInvariant'
<1>0. Basics /\ QueueState /\ PlaceState /\ NoneForgotten /\ CallsOK /\ StartedState /\ CountState
  BY DEF ServiceInvariant
<1>1. PICK i \in DOMAIN pending : pending[i] = id /\ pending' = RemoveAt(pending, i)
  BY DEF Cancel
<1>2. /\ results' = [results EXCEPT ![id] = "Cancelled"]
      /\ metrics' = [metrics EXCEPT !.cancelled = @ + 1, !.pending = Len(pending')]
      /\ shutting_down' = shutting_down /\ policy' = policy /\ next_task_id' = next_task_id
      /\ stack' = stack /\ started' = started
  BY DEF Cancel
<1>3. /\ pending \in Seq(Nat \ {0}) /\ metrics \in Metrics /\ "Cancelled" \in TaskStates
      /\ DOMAIN pending = 1..Len(pending) /\ Len(pending) \in Nat
  BY <1>0 DEF Basics, TaskStates
<1>4. id \in DOMAIN results /\ results[id] = "Queued"
  BY <1>0, <1>1 DEF QueueState
<1>5. /\ pending' \in Seq(Nat \ {0}) /\ Len(pending') = Len(pending) - 1
      /\ \A j \in 1..(Len(pending) - 1) : pending'[j] = IF j < i THEN pending[j] ELSE pending[j + 1]
  <2>1. i \in 1..Len(pending)
    BY <1>1, <1>3
  <2> DEFINE left == RemoveAt(pending, i)
  <2>2. /\ left \in Seq(Nat \ {0}) /\ Len(left) = Len(pending) - 1
        /\ \A j \in 1..(Len(pending) - 1) : left[j] = IF j < i THEN pending[j] ELSE pending[j + 1]
    BY <1>3, <2>1, RemoveAtFacts
  <2>3. pending' = left
    BY <1>1
  <2> HIDE DEF left
  <2> QED BY <2>2, <2>3
<1>6. DOMAIN pending' = 1..(Len(pending) - 1) /\ Len(pending') \in Nat
  BY <1>1, <1>3, <1>5
\* Where the queued tasks come from and go to.
<1>7. ASSUME NEW j \in DOMAIN pending'
      PROVE  /\ (IF j < i THEN j ELSE j + 1) \in DOMAIN pending
             /\ (IF j < i THEN j ELSE j + 1) # i
             /\ pending'[j] = pending[IF j < i THEN j ELSE j + 1]
  <2>1. /\ j \in 1..(Len(pending) - 1) /\ i \in 1..Len(pending) /\ Len(pending) \in Nat
        /\ DOMAIN pending = 1..Len(pending)
    BY <1>3, <1>6, <1>7
  <2>2. CASE j < i
    BY <1>5, <2>1, <2>2
  <2>3. CASE ~(j < i)
    <3>1. j + 1 \in 1..Len(pending) /\ j + 1 # i
      BY <2>1, <2>3
    <3> QED BY <1>5, <2>1, <2>3, <3>1
  <2> QED BY <2>2, <2>3
<1>8. Range(pending') = Range(pending) \ {id}
  <2>1. \A j \in DOMAIN pending' : pending'[j] \in Range(pending) /\ pending'[j] # id
    BY <1>0, <1>1, <1>7 DEF QueueState, Range
  <2>2. ASSUME NEW k \in DOMAIN pending, pending[k] # id PROVE pending[k] \in Range(pending')
    <3>1. CASE k < i
      <4>1. k \in DOMAIN pending' /\ pending'[k] = pending[k]
        BY <1>1, <1>3, <1>5, <1>6, <3>1
      <4> QED BY <4>1 DEF Range
    <3>2. CASE k > i
      <4>1. k - 1 \in 1..(Len(pending) - 1) /\ ~(k - 1 < i) /\ (k - 1) + 1 = k
        BY <1>1, <1>3, <3>2
      <4>2. pending'[k - 1] = pending[k]
        BY <1>5, <4>1
      <4> QED BY <1>6, <4>1, <4>2 DEF Range
    <3> QED BY <1>1, <1>3, <2>2, <3>1, <3>2
  <2> QED BY <2>1, <2>2 DEF Range
<1>9. /\ results' \in Seq(TaskStates) /\ Len(results') = Len(results)
      /\ DOMAIN results' = DOMAIN results
      /\ \A x \in DOMAIN results : results'[x] = IF x = id THEN "Cancelled" ELSE results[x]
      /\ Cardinality(WithState("Cancelled")') = Cardinality(WithState("Cancelled")) + 1
      /\ \A s : s # "Cancelled" /\ s # "Queued" => WithState(s)' = WithState(s)
  BY <1>0, <1>2, <1>3, <1>4, StateRecorded
<1>10. /\ \A u, j, m, x : Placed(u, j, m, x)' <=> Placed(u, j, m, x)
       /\ \A u, j : Executing(u, j)' = Executing(u, j)
  BY <1>2, PlacesKept
<1>11. metrics' \in Metrics /\ metrics'.pending = Len(pending') /\ metrics'.submitted = metrics.submitted
       /\ metrics'.completed = metrics.completed /\ metrics'.failed = metrics.failed
       /\ metrics'.cancelled = metrics.cancelled + 1
  <2> DEFINE a == metrics.cancelled + 1
             b == Len(pending')
  <2>1. a \in Nat /\ b \in Nat
    BY <1>3, <1>6, MetricsFields
  <2>2. metrics' = [metrics EXCEPT !.cancelled = a, !.pending = b]
    BY <1>2
  <2> HIDE DEF a, b
  <2>3. /\ metrics' \in Metrics /\ metrics'.cancelled = a /\ metrics'.pending = b
        /\ metrics'.completed = metrics.completed /\ metrics'.failed = metrics.failed
        /\ metrics'.submitted = metrics.submitted
    BY <1>3, <2>1, <2>2, MetricsCancel
  <2> QED BY <2>3 DEF a, b
<1>12. Basics'
  BY <1>0, <1>2, <1>5, <1>9, <1>11 DEF Basics, StacksOK
<1>13. QueueState'
  <2>1. ASSUME NEW k \in DOMAIN pending', NEW l \in DOMAIN pending', pending'[k] = pending'[l] PROVE k = l
    <3>1. (IF k < i THEN k ELSE k + 1) = (IF l < i THEN l ELSE l + 1)
      BY <1>0, <1>7, <2>1 DEF QueueState
    <3> QED BY <1>1, <1>3, <1>6, <3>1
  <2>2. ASSUME NEW k \in DOMAIN pending' PROVE pending'[k] \in DOMAIN results' /\ results'[pending'[k]] = "Queued"
    <3>1. pending'[k] \in Range(pending) /\ pending'[k] # id
      BY <1>8 DEF Range
    <3> QED BY <1>0, <1>9, <3>1 DEF QueueState, Range
  <2> QED BY <2>1, <2>2 DEF QueueState
<1>14. PlaceState'
  <2>1. id \in Range(pending)
    BY <1>1 DEF Range
  <2>2. \A u, j, m, x : Placed(u, j, m, x) => x # id
    BY <1>0, <2>1 DEF PlaceState
  <2> QED BY <1>0, <1>8, <1>9, <1>10, <2>2 DEF PlaceState
<1>15. NoneForgotten'
  BY <1>0, <1>8, <1>9, <1>10 DEF NoneForgotten
<1>16. CallsOK'
  BY <1>0, <1>2, <1>10 DEF CallsOK
<1>17. StartedState'
  BY <1>0, <1>2, <1>4, <1>9 DEF StartedState
<1>18. CountState'
  BY <1>0, <1>9, <1>11 DEF CountState
<1> QED BY <1>12, <1>13, <1>14, <1>15, <1>16, <1>17, <1>18 DEF ServiceInvariant

\* A sequence without repetition has as many elements as its length.
LEMMA RangeSize ==
  ASSUME NEW S, NEW s \in Seq(S), \A i, j \in DOMAIN s : s[i] = s[j] => i = j
  PROVE  IsFiniteSet(Range(s)) /\ Cardinality(Range(s)) = Len(s)
<1>1. DOMAIN s = 1..Len(s) /\ Len(s) \in Nat /\ s \in [DOMAIN s -> Range(s)]
  BY DEF Range
<1>2. IsFiniteSet(1..Len(s)) /\ Cardinality(1..Len(s)) = Len(s)
  <2>1. /\ IsFiniteSet(1..Len(s))
        /\ Cardinality(1..Len(s)) = IF 1 > Len(s) THEN 0 ELSE Len(s) - 1 + 1
    BY <1>1, FS_Interval
  <2> QED BY <1>1, <2>1
<1>3. s \in Injection(DOMAIN s, Range(s)) /\ s \in Surjection(DOMAIN s, Range(s))
  BY <1>1 DEF Injection, Surjection, IsInjective, Range
<1>4. s \in Bijection(DOMAIN s, Range(s))
  BY <1>3 DEF Bijection
<1>5. ExistsBijection(DOMAIN s, Range(s))
  BY <1>4 DEF ExistsBijection
<1> QED BY <1>1, <1>2, <1>5, FS_Bijection

\* A shutdown cancels exactly the queued tasks and leaves the queue empty.
LEMMA BeginShutdownStep ==
  ASSUME ServiceInvariant, NEW t \in Threads, BeginShutdown(t)
  PROVE  ServiceInvariant' /\ shutting_down' /\ pending' = <<>>
<1>0. Basics /\ QueueState /\ PlaceState /\ NoneForgotten /\ CallsOK /\ StartedState /\ CountState
  BY DEF ServiceInvariant
<1>1. /\ shutting_down' = TRUE /\ results' = CancelledByShutdown /\ pending' = <<>>
      /\ metrics' = [metrics EXCEPT !.cancelled = @ + Len(pending), !.pending = Len(pending')]
      /\ policy' = policy /\ next_task_id' = next_task_id /\ stack' = stack /\ started' = started
  BY DEF BeginShutdown
<1>2. /\ pending \in Seq(Nat \ {0}) /\ metrics \in Metrics /\ results \in Seq(TaskStates)
      /\ DOMAIN pending = 1..Len(pending) /\ Len(pending) \in Nat
      /\ DOMAIN results = 1..Len(results) /\ Len(results) \in Nat
  BY <1>0 DEF Basics
<1>3. Len(pending') = 0 /\ pending' \in Seq(Nat \ {0}) /\ DOMAIN pending' = {} /\ Range(pending') = {}
  BY <1>1 DEF Range
<1>4. /\ results' \in Seq(TaskStates) /\ Len(results') = Len(results) /\ DOMAIN results' = DOMAIN results
      /\ \A x \in DOMAIN results : results'[x] = IF x \in Range(pending) THEN "Cancelled" ELSE results[x]
  <2>1. \A x \in DOMAIN results : results[x] \in TaskStates
    BY <1>2
  <2>2. results' = [x \in 1..Len(results) |-> IF x \in Range(pending) THEN "Cancelled" ELSE results[x]]
    BY <1>1, <1>2 DEF CancelledByShutdown
  <2>3. results' \in [1..Len(results) -> TaskStates]
    BY <1>2, <2>1, <2>2 DEF TaskStates
  <2>4. results' \in Seq(TaskStates)
    BY <1>2, <2>3, SeqDef
  <2>5. Len(results') = Len(results)
    BY <1>2, <2>3, <2>4, LenProperties
  <2> QED BY <1>2, <2>2, <2>4, <2>5
<1>5. /\ \A u, i, m, x : Placed(u, i, m, x)' <=> Placed(u, i, m, x)
      /\ \A u, i : Executing(u, i)' = Executing(u, i)
  BY <1>1, PlacesKept
<1>6. \A x \in Range(pending) : x \in DOMAIN results /\ results[x] = "Queued"
  BY <1>0 DEF QueueState, Range
<1>7. Cardinality(WithState("Cancelled")') = Cardinality(WithState("Cancelled")) + Len(pending)
  <2>1. WithState("Cancelled")' = WithState("Cancelled") \cup Range(pending)
    BY <1>4, <1>6 DEF WithState
  <2>2. WithState("Cancelled") \cap Range(pending) = {}
    BY <1>6 DEF WithState
  <2>3. IsFiniteSet(Range(pending)) /\ Cardinality(Range(pending)) = Len(pending)
    BY <1>0, <1>2, RangeSize DEF QueueState
  <2>4. IsFiniteSet(WithState("Cancelled")) /\ Cardinality(WithState("Cancelled")) \in Nat
    BY <1>0, StateSets
  <2>5. Cardinality(WithState("Cancelled") \cup Range(pending))
          = Cardinality(WithState("Cancelled")) + Cardinality(Range(pending))
              - Cardinality(WithState("Cancelled") \cap Range(pending))
    BY <2>3, <2>4, FS_Union
  <2>6. Cardinality(WithState("Cancelled") \cap Range(pending)) = 0
    BY <2>2, FS_EmptySet
  <2>7. Cardinality(WithState("Cancelled") \cup Range(pending))
          = Cardinality(WithState("Cancelled")) + Len(pending)
    BY <1>2, <2>3, <2>4, <2>5, <2>6
  <2> QED BY <2>1, <2>7
<1>8. ASSUME NEW s, s # "Queued", s # "Cancelled" PROVE WithState(s)' = WithState(s)
  BY <1>4, <1>6, <1>8 DEF WithState
<1>9. /\ metrics' \in Metrics /\ metrics'.pending = Len(pending') /\ metrics'.submitted = metrics.submitted
      /\ metrics'.completed = metrics.completed /\ metrics'.failed = metrics.failed
      /\ metrics'.cancelled = metrics.cancelled + Len(pending)
  <2> DEFINE a == metrics.cancelled + Len(pending)
             b == Len(pending')
  <2>1. a \in Nat /\ b \in Nat
    BY <1>2, <1>3, MetricsFields
  <2>2. metrics' = [metrics EXCEPT !.cancelled = a, !.pending = b]
    BY <1>1
  <2> HIDE DEF a, b
  <2>3. /\ metrics' \in Metrics /\ metrics'.cancelled = a /\ metrics'.pending = b
        /\ metrics'.completed = metrics.completed /\ metrics'.failed = metrics.failed
        /\ metrics'.submitted = metrics.submitted
    BY <1>2, <2>1, <2>2, MetricsCancel
  <2> QED BY <2>3 DEF a, b
<1>10. Basics'
  BY <1>0, <1>1, <1>3, <1>4, <1>9 DEF Basics, StacksOK
<1>11. QueueState'
  BY <1>3 DEF QueueState
<1>12. PlaceState'
  BY <1>0, <1>3, <1>4, <1>5 DEF PlaceState
<1>13. NoneForgotten'
  BY <1>0, <1>3, <1>4, <1>5 DEF NoneForgotten
<1>14. CallsOK'
  BY <1>0, <1>1, <1>5 DEF CallsOK
<1>15. StartedState'
  BY <1>0, <1>1, <1>4, <1>6 DEF StartedState
<1>16. CountState'
  BY <1>0, <1>4, <1>7, <1>8, <1>9 DEF CountState
<1> QED BY <1>1, <1>10, <1>11, <1>12, <1>13, <1>14, <1>15, <1>16 DEF ServiceInvariant

\* Drain moves the whole queue into its own batch.
LEMMA DrainStep ==
  ASSUME ServiceInvariant, NEW t \in Threads, Drain(t)
  PROVE  ServiceInvariant' /\ pending' = <<>>
<1>0. Basics /\ QueueState /\ PlaceState /\ NoneForgotten /\ CallsOK /\ StartedState /\ CountState
  BY DEF ServiceInvariant
<1>1. /\ stack' = [stack EXCEPT ![t] = <<[to_run |-> pending, running |-> FALSE]>> \o @]
      /\ pending' = <<>> /\ metrics' = [metrics EXCEPT !.pending = Len(pending')]
      /\ shutting_down' = shutting_down /\ policy' = policy /\ next_task_id' = next_task_id
      /\ results' = results /\ started' = started
  BY DEF Drain, AfterSwap
<1>2. /\ pending \in Seq(Nat \ {0}) /\ metrics \in Metrics
      /\ DOMAIN pending = 1..Len(pending) /\ Len(pending) \in Nat /\ StacksOK
  BY <1>0 DEF Basics
<1>3. Len(pending') = 0 /\ pending' \in Seq(Nat \ {0}) /\ DOMAIN pending' = {} /\ Range(pending') = {}
  BY <1>1 DEF Range
<1>4. /\ StacksOK' /\ ~Executing(t, 1)'
      /\ \A u, j, n, id : Placed(u, j, n, id)' <=>
           IF u = t /\ j = 1 THEN n \in DOMAIN pending /\ pending[n] = id
           ELSE IF u = t THEN j \in Nat \ {0} /\ Placed(t, j - 1, n, id)
           ELSE Placed(u, j, n, id)
      /\ \A j \in 1..Len(stack[t]) : stack'[t][j + 1] = stack[t][j]
      /\ \A u \in Threads \ {t} : stack'[u] = stack[u]
      /\ Len(stack'[t]) = Len(stack[t]) + 1 /\ Len(stack[t]) \in Nat
  BY <1>1, <1>2, PlacesPushed
\* A task held before is held one call further out, and executed as before.
<1>5. ASSUME NEW u, NEW j, NEW n, NEW id, Placed(u, j, n, id)', ~(u = t /\ j = 1)
      PROVE  IF u = t THEN /\ j \in Nat /\ j - 1 \in 1..Len(stack[t]) /\ Placed(t, j - 1, n, id)
                           /\ Executing(u, j)' = Executing(t, j - 1)
             ELSE Placed(u, j, n, id) /\ Executing(u, j)' = Executing(u, j)
  <2>1. CASE u # t
    BY <1>4, <1>5, <2>1 DEF Executing, Placed
  <2>2. CASE u = t
    <3>1. j \in Nat \ {0} /\ Placed(t, j - 1, n, id)
      BY <1>4, <1>5, <2>2
    <3>2. j - 1 \in 1..Len(stack[t]) /\ (j - 1) + 1 = j
      BY <3>1 DEF Placed
    <3>3. stack'[t][j] = stack[t][j - 1]
      BY <1>4, <3>2
    <3> QED BY <2>2, <3>1, <3>2, <3>3 DEF Executing
  <2> QED BY <2>1, <2>2
<1>6. /\ metrics' \in Metrics /\ metrics'.pending = Len(pending') /\ metrics'.submitted = metrics.submitted
      /\ metrics'.completed = metrics.completed /\ metrics'.failed = metrics.failed
      /\ metrics'.cancelled = metrics.cancelled
  BY <1>1, <1>2, <1>3 DEF Metrics
<1>7. Basics'
  BY <1>0, <1>1, <1>3, <1>4, <1>6 DEF Basics
<1>8. QueueState'
  BY <1>3 DEF QueueState
<1>9. PlaceState'
  <2>1. ASSUME NEW u, NEW i, NEW m, NEW v, NEW j, NEW n, NEW id, Placed(u, i, m, id)', Placed(v, j, n, id)'
        PROVE  u = v /\ i = j /\ m = n
    <3>1. CASE u = t /\ i = 1 /\ v = t /\ j = 1
      BY <1>0, <1>4, <2>1, <3>1 DEF QueueState
    <3>2. CASE (u = t /\ i = 1) /\ ~(v = t /\ j = 1)
      <4>1. id \in Range(pending)
        BY <1>4, <2>1, <3>2 DEF Range
      <4> QED BY <1>0, <1>5, <2>1, <3>2, <4>1 DEF PlaceState
    <3>3. CASE ~(u = t /\ i = 1) /\ (v = t /\ j = 1)
      <4>1. id \in Range(pending)
        BY <1>4, <2>1, <3>3 DEF Range
      <4> QED BY <1>0, <1>5, <2>1, <3>3, <4>1 DEF PlaceState
    <3>4. CASE ~(u = t /\ i = 1) /\ ~(v = t /\ j = 1)
      <4>1. CASE u = t /\ v = t
        <5>1. i - 1 = j - 1 /\ m = n /\ i \in Nat /\ j \in Nat
          BY <1>0, <1>5, <2>1, <3>4, <4>1 DEF PlaceState
        <5> QED BY <4>1, <5>1
      <4>2. CASE ~(u = t /\ v = t)
        BY <1>0, <1>5, <2>1, <3>4, <4>2 DEF PlaceState
      <4> QED BY <4>1, <4>2
    <3> QED BY <3>1, <3>2, <3>3, <3>4
  <2>2. ASSUME NEW u, NEW i, NEW m, NEW id, Placed(u, i, m, id)'
        PROVE  /\ id \notin Range(pending') /\ id \in DOMAIN results'
               /\ results'[id] = IF m = 1 /\ Executing(u, i)' THEN "Running" ELSE "Queued"
    <3>1. CASE u = t /\ i = 1
      <4>1. id \in DOMAIN results /\ results[id] = "Queued"
        BY <1>0, <1>4, <2>2, <3>1 DEF QueueState
      <4> QED BY <1>1, <1>3, <1>4, <3>1, <4>1
    <3>2. CASE ~(u = t /\ i = 1)
      BY <1>0, <1>1, <1>3, <1>5, <2>2, <3>2 DEF PlaceState
    <3> QED BY <3>1, <3>2
  <2> QED BY <2>1, <2>2 DEF PlaceState
<1>10. NoneForgotten'
  <2> SUFFICES ASSUME NEW id \in DOMAIN results, results[id] \in {"Queued", "Running"}
               PROVE  \E u, i, m : Placed(u, i, m, id)'
    BY <1>1 DEF NoneForgotten
  <2>1. CASE id \in Range(pending)
    <3>1. PICK m \in DOMAIN pending : pending[m] = id
      BY <2>1 DEF Range
    <3>2. Placed(t, 1, m, id)'
      BY <1>4, <3>1
    <3> QED BY <3>2
  <2>2. CASE id \notin Range(pending)
    <3>1. PICK u, i, m : Placed(u, i, m, id)
      BY <1>0, <2>2 DEF NoneForgotten
    <3>2. CASE u # t
      BY <1>4, <3>1, <3>2
    <3>3. CASE u = t
      <4>1. i \in Nat \ {0} /\ i + 1 \in Nat \ {0} /\ i + 1 # 1 /\ (i + 1) - 1 = i
        BY <1>4, <3>1, <3>3 DEF Placed
      <4>2. Placed(t, i + 1, m, id)'
        BY <1>4, <3>1, <3>3, <4>1
      <4> QED BY <4>2
    <3> QED BY <3>2, <3>3
  <2> QED BY <2>1, <2>2
<1>11. CallsOK'
  <2> SUFFICES ASSUME NEW u \in Threads, NEW i \in 1..Len(stack'[u]), Executing(u, i)'
               PROVE  stack'[u][i].to_run # <<>>
    BY DEF CallsOK
  <2>1. CASE u # t
    BY <1>0, <1>4, <2>1 DEF CallsOK, Executing
  <2>2. CASE u = t
    <3>1. i # 1
      BY <1>4, <2>2
    <3>2. i - 1 \in 1..Len(stack[t]) /\ (i - 1) + 1 = i
      BY <1>4, <2>2, <3>1
    <3>3. stack'[t][i] = stack[t][i - 1]
      BY <1>4, <3>2
    <3> QED BY <1>0, <2>2, <3>2, <3>3 DEF CallsOK, Executing
  <2> QED BY <2>1, <2>2
<1>12. StartedState'
  BY <1>0, <1>1 DEF StartedState
<1>13. CountState'
  BY <1>0, <1>1, <1>6 DEF CountState, WithState
<1> QED BY <1>1, <1>7, <1>8, <1>9, <1>10, <1>11, <1>12, <1>13 DEF ServiceInvariant

\* A task of a batch is called; it was not called before.
LEMMA BeginTaskStep ==
  ASSUME ServiceInvariant, NEW t \in Threads, BeginTask(t)
  PROVE  ServiceInvariant' /\ pending' = pending
<1> DEFINE id == Head(Top(t).to_run)
<1>0. Basics /\ QueueState /\ PlaceState /\ NoneForgotten /\ CallsOK /\ StartedState /\ CountState
  BY DEF ServiceInvariant
<1>1. /\ stack[t] # <<>> /\ ~Top(t).running /\ Top(t).to_run # <<>>
      /\ results' = [results EXCEPT ![id] = "Running"] /\ started' = Append(started, id)
      /\ ReplaceTop(t, [Top(t) EXCEPT !.running = TRUE])
      /\ shutting_down' = shutting_down /\ policy' = policy /\ next_task_id' = next_task_id
      /\ pending' = pending /\ metrics' = metrics
  BY DEF BeginTask, ClientRuns, InTask
<1>2. /\ StacksOK /\ Top(t) = stack[t][1] /\ 1 \in 1..Len(stack[t]) /\ "Running" \in TaskStates
      /\ started \in Seq(Nat \ {0}) /\ DOMAIN started = 1..Len(started) /\ Len(started) \in Nat
  BY <1>0, <1>1, StackTop DEF Basics, TaskStates
<1>3. Placed(t, 1, 1, id) /\ ~Executing(t, 1)
  <2>1. stack[t][1].to_run \in Seq(Nat \ {0}) /\ stack[t][1].to_run # <<>>
    BY <1>1, <1>2, CallType
  <2>2. 1 \in 1..Len(stack[t][1].to_run) /\ id = stack[t][1].to_run[1]
    BY <1>2, <2>1, TailFacts
  <2> QED BY <1>1, <1>2, <2>2 DEF Placed, Executing
<1> HIDE DEF id
<1>4. id \in DOMAIN results /\ results[id] = "Queued" /\ id \notin Range(pending) /\ id \in Nat \ {0}
  BY <1>0, <1>3 DEF PlaceState, Basics
<1>5. /\ StacksOK' /\ \A u \in Threads : Len(stack'[u]) = Len(stack[u])
      /\ \A u, j, n, x : Placed(u, j, n, x)' <=> Placed(u, j, n, x)
      /\ \A u \in Threads : \A j \in 1..Len(stack[u]) :
           /\ stack'[u][j].to_run = stack[u][j].to_run
           /\ Executing(u, j)' = IF u = t /\ j = 1 THEN TRUE ELSE Executing(u, j)
  BY <1>1, <1>2, PlacesStarted
<1>6. /\ results' \in Seq(TaskStates) /\ Len(results') = Len(results)
      /\ DOMAIN results' = DOMAIN results
      /\ \A x \in DOMAIN results : results'[x] = IF x = id THEN "Running" ELSE results[x]
      /\ \A s : s # "Running" /\ s # "Queued" => WithState(s)' = WithState(s)
  BY <1>0, <1>1, <1>2, <1>4, StateRecorded
<1>7. /\ started' \in Seq(Nat \ {0}) /\ DOMAIN started' = 1..(Len(started) + 1)
      /\ \A i \in 1..Len(started) : started'[i] = started[i]
      /\ started'[Len(started) + 1] = id
  BY <1>1, <1>2, <1>4, AppendFacts
<1>8. Basics'
  BY <1>0, <1>1, <1>5, <1>6, <1>7 DEF Basics
<1>9. QueueState'
  <2>1. \A k \in DOMAIN pending : pending[k] # id
    BY <1>4 DEF Range
  <2> QED BY <1>0, <1>1, <1>6, <2>1 DEF QueueState
<1>10. PlaceState'
  <2>1. ASSUME NEW u, NEW i, NEW m, NEW x, Placed(u, i, m, x)
        PROVE  /\ x \notin Range(pending') /\ x \in DOMAIN results'
               /\ results'[x] = IF m = 1 /\ Executing(u, i)' THEN "Running" ELSE "Queued"
    <3>1. u \in Threads /\ i \in 1..Len(stack[u])
      BY <2>1 DEF Placed
    <3>2. CASE x = id
      <4>1. u = t /\ i = 1 /\ m = 1
        BY <1>0, <1>3, <2>1, <3>2 DEF PlaceState
      <4>2. Executing(u, i)'
        BY <1>5, <3>1, <4>1
      <4> QED BY <1>1, <1>4, <1>6, <3>2, <4>1, <4>2
    <3>3. CASE x # id
      <4>1. ~(u = t /\ i = 1 /\ m = 1)
        BY <1>3, <2>1, <3>3 DEF Placed
      <4>2. m = 1 => Executing(u, i)' = Executing(u, i)
        BY <1>5, <3>1, <4>1
      <4>3. /\ x \notin Range(pending) /\ x \in DOMAIN results
            /\ results[x] = IF m = 1 /\ Executing(u, i) THEN "Running" ELSE "Queued"
        BY <1>0, <2>1 DEF PlaceState
      <4> QED BY <1>1, <1>6, <3>3, <4>2, <4>3
    <3> QED BY <3>2, <3>3
  <2> QED BY <1>0, <1>5, <2>1 DEF PlaceState
<1>11. NoneForgotten'
  BY <1>0, <1>1, <1>3, <1>5, <1>6 DEF NoneForgotten
<1>12. CallsOK'
  <2> SUFFICES ASSUME NEW u \in Threads, NEW i \in 1..Len(stack'[u]), Executing(u, i)'
               PROVE  stack'[u][i].to_run # <<>>
    BY DEF CallsOK
  <2>1. i \in 1..Len(stack[u]) /\ stack'[u][i].to_run = stack[u][i].to_run
    BY <1>5
  <2>2. CASE u = t /\ i = 1
    BY <1>1, <1>2, <2>1, <2>2
  <2>3. CASE ~(u = t /\ i = 1)
    BY <1>0, <1>5, <2>1, <2>3 DEF CallsOK
  <2> QED BY <2>2, <2>3
<1>13. StartedState'
  <2>1. \A i \in 1..Len(started) : started[i] # id
    BY <1>0, <1>2, <1>4 DEF StartedState
  <2>2. \A i \in DOMAIN started' : i \in 1..Len(started) \/ i = Len(started) + 1
    BY <1>2, <1>7
  <2>3. ASSUME NEW i \in DOMAIN started', NEW j \in DOMAIN started', started'[i] = started'[j] PROVE i = j
    BY <1>0, <1>2, <1>7, <2>1, <2>2, <2>3 DEF StartedState
  <2>4. ASSUME NEW i \in DOMAIN started'
        PROVE  started'[i] \in DOMAIN results' /\ results'[started'[i]] \notin {"Queued", "Cancelled"}
    <3>1. CASE i \in 1..Len(started)
      BY <1>0, <1>2, <1>6, <1>7, <2>1, <3>1 DEF StartedState
    <3>2. CASE i = Len(started) + 1
      BY <1>4, <1>6, <1>7, <3>2
    <3> QED BY <2>2, <3>1, <3>2
  <2> QED BY <2>3, <2>4 DEF StartedState
<1>14. CountState'
  BY <1>0, <1>1, <1>6 DEF CountState
<1> QED BY <1>1, <1>8, <1>9, <1>10, <1>11, <1>12, <1>13, <1>14 DEF ServiceInvariant

\* The outcome of a called task is recorded once and leaves its batch.
LEMMA EndTaskStep ==
  ASSUME ServiceInvariant, NEW t \in Threads, NEW outcome \in {"Completed", "Failed"}, EndTask(t, outcome)
  PROVE  ServiceInvariant' /\ pending' = pending
<1> DEFINE id == Head(Top(t).to_run)
<1>0. Basics /\ QueueState /\ PlaceState /\ NoneForgotten /\ CallsOK /\ StartedState /\ CountState
  BY DEF ServiceInvariant
<1>1. /\ stack[t] # <<>> /\ Top(t).running /\ results' = [results EXCEPT ![id] = outcome]
      /\ metrics' = [metrics EXCEPT !.completed = IF outcome = "Completed" THEN @ + 1 ELSE @,
                                    !.failed = IF outcome = "Failed" THEN @ + 1 ELSE @]
      /\ ReplaceTop(t, [to_run |-> Tail(Top(t).to_run), running |-> FALSE])
      /\ shutting_down' = shutting_down /\ policy' = policy /\ next_task_id' = next_task_id
      /\ pending' = pending /\ started' = started
  BY DEF EndTask, InTask
<1>2. /\ StacksOK /\ Top(t) = stack[t][1] /\ 1 \in 1..Len(stack[t]) /\ outcome \in TaskStates
      /\ metrics \in Metrics
  BY <1>0, <1>1, StackTop DEF Basics, TaskStates
<1>3. Executing(t, 1) /\ Top(t).to_run # <<>>
  BY <1>0, <1>1, <1>2 DEF Executing, CallsOK
<1>4. /\ StacksOK' /\ Placed(t, 1, 1, id) /\ ~Executing(t, 1)'
      /\ \A u, j, n, x : Placed(u, j, n, x)' <=>
           IF u = t /\ j = 1 THEN n \in Nat \ {0} /\ Placed(t, 1, n + 1, x) ELSE Placed(u, j, n, x)
      /\ \A u, j, n, x : Placed(u, j, n, x) /\ ~(u = t /\ j = 1) => Executing(u, j)' = Executing(u, j)
      /\ \A u \in Threads : Len(stack'[u]) = Len(stack[u])
      /\ \A u \in Threads : \A j \in 1..Len(stack[u]) : ~(u = t /\ j = 1) => stack'[u][j] = stack[u][j]
  BY <1>1, <1>2, <1>3, PlacesEnded
<1> HIDE DEF id
<1>5. id \in DOMAIN results /\ results[id] = "Running" /\ id \notin Range(pending)
  BY <1>0, <1>3, <1>4 DEF PlaceState
<1>6. /\ results' \in Seq(TaskStates) /\ Len(results') = Len(results)
      /\ DOMAIN results' = DOMAIN results
      /\ \A x \in DOMAIN results : results'[x] = IF x = id THEN outcome ELSE results[x]
      /\ Cardinality(WithState(outcome)') = Cardinality(WithState(outcome)) + 1
      /\ \A s : s # outcome /\ s # "Running" => WithState(s)' = WithState(s)
  BY <1>0, <1>1, <1>2, <1>5, StateRecorded
<1>7. /\ metrics' \in Metrics /\ metrics'.pending = metrics.pending
      /\ metrics'.submitted = metrics.submitted /\ metrics'.cancelled = metrics.cancelled
      /\ metrics'.completed = IF outcome = "Completed" THEN metrics.completed + 1 ELSE metrics.completed
      /\ metrics'.failed = IF outcome = "Failed" THEN metrics.failed + 1 ELSE metrics.failed
  <2> DEFINE a == IF outcome = "Completed" THEN metrics.completed + 1 ELSE metrics.completed
             b == IF outcome = "Failed" THEN metrics.failed + 1 ELSE metrics.failed
  <2>1. a \in Nat /\ b \in Nat
    BY <1>2, MetricsFields
  <2>2. metrics' = [metrics EXCEPT !.completed = a, !.failed = b]
    BY <1>1, Zenon
  <2> HIDE DEF a, b
  <2>3. /\ metrics' \in Metrics /\ metrics'.completed = a /\ metrics'.failed = b
        /\ metrics'.cancelled = metrics.cancelled /\ metrics'.pending = metrics.pending
        /\ metrics'.submitted = metrics.submitted
    BY <1>2, <2>1, <2>2, MetricsEnd
  <2> QED BY <2>3 DEF a, b
<1>8. Basics'
  BY <1>0, <1>1, <1>4, <1>6, <1>7 DEF Basics
<1>9. QueueState'
  <2>1. \A k \in DOMAIN pending : pending[k] # id
    BY <1>5 DEF Range
  <2> QED BY <1>0, <1>1, <1>6, <2>1 DEF QueueState
\* The task has left; another one of its call is now in front, and none of it executes.
<1>10. ASSUME NEW u, NEW i, NEW m, NEW x, Placed(u, i, m, x)'
       PROVE  /\ x # id
              /\ IF u = t /\ i = 1 THEN /\ m \in Nat /\ m + 1 # 1 /\ Placed(t, 1, m + 1, x)
                                        /\ ~Executing(u, i)'
                 ELSE Placed(u, i, m, x) /\ Executing(u, i)' = Executing(u, i)
  <2>1. CASE u = t /\ i = 1
    <3>1. m \in Nat \ {0} /\ Placed(t, 1, m + 1, x)
      BY <1>4, <1>10, <2>1
    <3>2. m + 1 # 1
      BY <3>1
    <3> QED BY <1>0, <1>4, <2>1, <3>1, <3>2 DEF PlaceState
  <2>2. CASE ~(u = t /\ i = 1)
    <3>1. Placed(u, i, m, x)
      BY <1>4, <1>10, <2>2
    <3>2. x # id
      BY <1>0, <1>4, <2>2, <3>1 DEF PlaceState
    <3> QED BY <1>4, <2>2, <3>1, <3>2
  <2> QED BY <2>1, <2>2
<1>11. PlaceState'
  <2>1. ASSUME NEW u, NEW i, NEW m, NEW v, NEW j, NEW n, NEW x, Placed(u, i, m, x)', Placed(v, j, n, x)'
        PROVE  u = v /\ i = j /\ m = n
    <3>1. CASE u = t /\ i = 1 /\ v = t /\ j = 1
      <4>1. m \in Nat /\ n \in Nat /\ m + 1 = n + 1
        BY <1>0, <1>10, <2>1, <3>1 DEF PlaceState
      <4> QED BY <3>1, <4>1
    <3>2. CASE ~(u = t /\ i = 1 /\ v = t /\ j = 1)
      BY <1>0, <1>10, <2>1, <3>2 DEF PlaceState
    <3> QED BY <3>1, <3>2
  <2>2. ASSUME NEW u, NEW i, NEW m, NEW x, Placed(u, i, m, x)'
        PROVE  /\ x \notin Range(pending') /\ x \in DOMAIN results'
               /\ results'[x] = IF m = 1 /\ Executing(u, i)' THEN "Running" ELSE "Queued"
    <3>1. CASE u = t /\ i = 1
      <4>1. x \notin Range(pending) /\ x \in DOMAIN results /\ results[x] = "Queued"
        BY <1>0, <1>10, <2>2, <3>1 DEF PlaceState
      <4> QED BY <1>1, <1>4, <1>6, <1>10, <2>2, <3>1, <4>1
    <3>2. CASE ~(u = t /\ i = 1)
      <4>1. /\ x \notin Range(pending) /\ x \in DOMAIN results
            /\ results[x] = IF m = 1 /\ Executing(u, i)' THEN "Running" ELSE "Queued"
        BY <1>0, <1>10, <2>2, <3>2 DEF PlaceState
      <4> QED BY <1>1, <1>6, <1>10, <2>2, <4>1
    <3> QED BY <3>1, <3>2
  <2> QED BY <2>1, <2>2 DEF PlaceState
<1>12. NoneForgotten'
  <2> SUFFICES ASSUME NEW x \in DOMAIN results, results'[x] \in {"Queued", "Running"},
                      x \notin Range(pending)
               PROVE  \E u, i, m : Placed(u, i, m, x)'
    BY <1>1, <1>6 DEF NoneForgotten
  <2>1. x # id /\ results[x] \in {"Queued", "Running"}
    BY <1>6
  <2>2. PICK u, i, m : Placed(u, i, m, x)
    BY <1>0, <2>1 DEF NoneForgotten
  <2>3. CASE u = t /\ i = 1
    <3>1. m \in Nat \ {0} /\ m # 1
      BY <1>4, <2>1, <2>2, <2>3 DEF Placed
    <3>2. m - 1 \in Nat \ {0} /\ (m - 1) + 1 = m
      BY <3>1
    <3>3. Placed(t, 1, m - 1, x)'
      BY <1>4, <2>2, <2>3, <3>2
    <3> QED BY <3>3
  <2>4. CASE ~(u = t /\ i = 1)
    BY <1>4, <2>2, <2>4
  <2> QED BY <2>3, <2>4
<1>13. CallsOK'
  BY <1>0, <1>4 DEF CallsOK, Executing
<1>14. StartedState'
  BY <1>0, <1>1, <1>6 DEF StartedState
<1>15. CountState'
  <2>1. CASE outcome = "Completed"
    BY <1>0, <1>1, <1>6, <1>7, <2>1 DEF CountState
  <2>2. CASE outcome = "Failed"
    BY <1>0, <1>1, <1>6, <1>7, <2>2 DEF CountState
  <2> QED BY <2>1, <2>2
<1> QED BY <1>1, <1>8, <1>9, <1>11, <1>12, <1>13, <1>14, <1>15 DEF ServiceInvariant

\* A Drain call returns with an empty batch.
LEMMA DrainReturnsStep ==
  ASSUME ServiceInvariant, NEW t \in Threads, DrainReturns(t)
  PROVE  ServiceInvariant' /\ pending' = pending
<1>0. Basics /\ QueueState /\ PlaceState /\ NoneForgotten /\ CallsOK /\ StartedState /\ CountState
  BY DEF ServiceInvariant
<1>1. /\ stack[t] # <<>> /\ Top(t).to_run = <<>> /\ stack' = [stack EXCEPT ![t] = Tail(@)]
      /\ shutting_down' = shutting_down /\ policy' = policy /\ next_task_id' = next_task_id
      /\ pending' = pending /\ results' = results /\ metrics' = metrics /\ started' = started
  BY DEF DrainReturns
<1>2. /\ StacksOK'
      /\ \A u, j, n, id : Placed(u, j, n, id)' <=>
           IF u = t THEN j \in Nat \ {0} /\ Placed(t, j + 1, n, id) ELSE Placed(u, j, n, id)
      /\ \A n, id : ~Placed(t, 1, n, id)
      /\ \A j \in 1..(Len(stack[t]) - 1) : stack'[t][j] = stack[t][j + 1]
      /\ \A u \in Threads \ {t} : stack'[u] = stack[u]
      /\ Len(stack'[t]) = Len(stack[t]) - 1 /\ Len(stack[t]) \in Nat \ {0}
  BY <1>0, <1>1, PlacesPopped DEF Basics
<1>3. ASSUME NEW u, NEW j, NEW n, NEW id, Placed(u, j, n, id)'
      PROVE  IF u = t THEN j \in Nat /\ Placed(t, j + 1, n, id) /\ Executing(u, j)' = Executing(t, j + 1)
             ELSE Placed(u, j, n, id) /\ Executing(u, j)' = Executing(u, j)
  <2>1. CASE u # t
    BY <1>2, <1>3, <2>1 DEF Executing, Placed
  <2>2. CASE u = t
    <3>1. j \in Nat \ {0} /\ Placed(t, j + 1, n, id)
      BY <1>2, <1>3, <2>2
    <3>2. j \in 1..(Len(stack[t]) - 1)
      BY <1>2, <3>1 DEF Placed
    <3>3. stack'[t][j] = stack[t][j + 1]
      BY <1>2, <3>2
    <3> QED BY <2>2, <3>1, <3>3 DEF Executing
  <2> QED BY <2>1, <2>2
<1>4. Basics'
  BY <1>0, <1>1, <1>2 DEF Basics
<1>5. QueueState' /\ StartedState'
  BY <1>0, <1>1 DEF QueueState, StartedState
<1>6. PlaceState'
  <2>1. ASSUME NEW u, NEW i, NEW m, NEW v, NEW j, NEW n, NEW x, Placed(u, i, m, x)', Placed(v, j, n, x)'
        PROVE  u = v /\ i = j /\ m = n
    <3>1. CASE u = t /\ v = t
      <4>1. i \in Nat /\ j \in Nat /\ i + 1 = j + 1 /\ m = n
        BY <1>0, <1>3, <2>1, <3>1 DEF PlaceState
      <4> QED BY <3>1, <4>1
    <3>2. CASE ~(u = t /\ v = t)
      BY <1>0, <1>3, <2>1, <3>2 DEF PlaceState
    <3> QED BY <3>1, <3>2
  <2>2. ASSUME NEW u, NEW i, NEW m, NEW x, Placed(u, i, m, x)'
        PROVE  /\ x \notin Range(pending') /\ x \in DOMAIN results'
               /\ results'[x] = IF m = 1 /\ Executing(u, i)' THEN "Running" ELSE "Queued"
    BY <1>0, <1>1, <1>3, <2>2 DEF PlaceState
  <2> QED BY <2>1, <2>2 DEF PlaceState
<1>7. NoneForgotten'
  <2> SUFFICES ASSUME NEW x \in DOMAIN results, results[x] \in {"Queued", "Running"},
                      x \notin Range(pending)
               PROVE  \E u, i, m : Placed(u, i, m, x)'
    BY <1>1 DEF NoneForgotten
  <2>1. PICK u, i, m : Placed(u, i, m, x)
    BY <1>0 DEF NoneForgotten
  <2>2. CASE u # t
    BY <1>2, <2>1, <2>2
  <2>3. CASE u = t
    <3>1. i \in Nat \ {0}
      BY <1>2, <2>1, <2>3 DEF Placed
    <3>2. i # 1
      BY <1>2, <2>1, <2>3
    <3>3. i - 1 \in Nat \ {0} /\ (i - 1) + 1 = i
      BY <3>1, <3>2
    <3>4. Placed(t, i - 1, m, x)'
      BY <1>2, <2>1, <2>3, <3>3
    <3> QED BY <3>4
  <2> QED BY <2>2, <2>3
<1>8. CallsOK'
  <2> SUFFICES ASSUME NEW u \in Threads, NEW i \in 1..Len(stack'[u]), Executing(u, i)'
               PROVE  stack'[u][i].to_run # <<>>
    BY DEF CallsOK
  <2>1. CASE u # t
    BY <1>0, <1>2, <2>1 DEF CallsOK, Executing
  <2>2. CASE u = t
    <3>1. i \in 1..(Len(stack[t]) - 1) /\ i + 1 \in 1..Len(stack[t])
      BY <1>2, <2>2
    <3>2. stack'[t][i] = stack[t][i + 1]
      BY <1>2, <3>1
    <3> QED BY <1>0, <2>2, <3>1, <3>2 DEF CallsOK, Executing
  <2> QED BY <2>1, <2>2
<1>9. CountState'
  BY <1>0, <1>1 DEF CountState, WithState
<1> QED BY <1>1, <1>4, <1>5, <1>6, <1>7, <1>8, <1>9 DEF ServiceInvariant

\* A new service satisfies the invariant.
LEMMA ServiceInitial ==
  ASSUME Init
  PROVE  ServiceInvariant
<1>1. /\ shutting_down = FALSE /\ next_task_id = 1 /\ pending = <<>> /\ results = <<>> /\ started = <<>>
      /\ policy = [kind |-> "SingleThreaded", worker_count |-> 1, stage_affinity_enabled |-> FALSE]
      /\ metrics = [submitted |-> 0, rejected |-> 0, cancelled |-> 0, completed |-> 0,
                    failed |-> 0, pending |-> 0]
      /\ stack = [t \in Threads |-> <<>>]
  BY DEF Init
<1>2. policy \in SchedulerPolicies /\ policy.worker_count = 1 /\ policy.stage_affinity_enabled = FALSE
  BY <1>1 DEF SchedulerPolicies
<1>3. /\ metrics \in Metrics /\ metrics.pending = 0 /\ metrics.submitted = 0 /\ metrics.completed = 0
      /\ metrics.failed = 0 /\ metrics.cancelled = 0
  BY <1>1 DEF Metrics
<1>4. StacksOK /\ \A t \in Threads : Len(stack[t]) = 0
  BY <1>1 DEF StacksOK
<1>5. /\ pending \in Seq(Nat \ {0}) /\ Len(pending) = 0 /\ DOMAIN pending = {}
      /\ results \in Seq(TaskStates) /\ Len(results) = 0 /\ DOMAIN results = {}
      /\ started \in Seq(Nat \ {0}) /\ DOMAIN started = {}
  BY <1>1
<1>6. next_task_id \in 1..(MaxTasks + 1) /\ Len(results) = next_task_id - 1
  BY <1>1, <1>5, BoundsAssumption
<1>7. Basics
  <2>1. policy.worker_count >= 1
    BY <1>2
  <2>2. ~policy.stage_affinity_enabled /\ shutting_down \in BOOLEAN
    BY <1>1, <1>2, Zenon
  <2> QED BY <1>2, <1>3, <1>4, <1>5, <1>6, <2>1, <2>2 DEF Basics
<1>8. \A t, i, m, id : ~Placed(t, i, m, id)
  BY <1>4 DEF Placed
<1>9. \A s : Cardinality(WithState(s)) = 0
  <2>1. \A s : WithState(s) = {}
    BY <1>5 DEF WithState
  <2> QED BY <2>1, FS_EmptySet
<1>10. QueueState /\ StartedState /\ NoneForgotten
  BY <1>5 DEF QueueState, StartedState, NoneForgotten
<1>11. PlaceState /\ CallsOK
  BY <1>4, <1>8 DEF PlaceState, CallsOK
<1>12. CountState
  BY <1>3, <1>5, <1>9 DEF CountState
<1> QED BY <1>7, <1>10, <1>11, <1>12 DEF ServiceInvariant

\* Steps of the registry alone keep the invariant of the service.
LEMMA ServiceUntouched ==
  ASSUME ServiceInvariant, UNCHANGED vars
  PROVE  ServiceInvariant'
<1>1. /\ UNCHANGED <<pending, results, stack, started>> /\ shutting_down' = shutting_down
      /\ policy' = policy /\ next_task_id' = next_task_id /\ pending' = pending
      /\ results' = results /\ metrics' = metrics /\ stack' = stack /\ started' = started
  BY DEF vars
<1>2. Basics'
  BY <1>1 DEF ServiceInvariant, Basics, StacksOK
<1>3. CountState'
  BY <1>1 DEF ServiceInvariant, CountState, WithState
<1> QED BY <1>1, <1>2, <1>3, TasksUntouched DEF ServiceInvariant

\* Every step of the service keeps its invariant; a shutdown is never undone and its queue stays
\* empty.
LEMMA ServiceStep ==
  ASSUME ServiceInvariant, shutting_down => pending = <<>>, NEW t \in Threads, Step(t)
  PROVE  ServiceInvariant' /\ (shutting_down => shutting_down') /\ (shutting_down' => pending' = <<>>)
<1>1. CASE \E request \in Requests : ConfigurePolicy(t, request)
  <2>1. PICK request \in Requests : ConfigurePolicy(t, request)
    BY <1>1
  <2> QED BY <2>1, ConfigurePolicyStep DEF ConfigurePolicy
<1>2. CASE SubmitTask(t)
  BY <1>2, SubmitTaskStep DEF SubmitTask
<1>3. CASE \E empty \in BOOLEAN : SubmitRejected(t, empty)
  <2>1. PICK empty \in BOOLEAN : SubmitRejected(t, empty)
    BY <1>3
  <2> QED BY <2>1, SubmitRejectedStep DEF SubmitRejected
<1>4. CASE \E id \in 1..MaxTasks : Cancel(t, id)
  <2>1. PICK id \in 1..MaxTasks : Cancel(t, id)
    BY <1>4
  <2> QED BY <2>1, CancelStep DEF Cancel
<1>5. CASE BeginShutdown(t)
  BY <1>5, BeginShutdownStep
<1>6. CASE Drain(t)
  BY <1>6, DrainStep DEF Drain
<1>7. CASE BeginTask(t)
  BY <1>7, BeginTaskStep DEF BeginTask
<1>8. CASE TaskReturns(t)
  BY <1>8, EndTaskStep DEF TaskReturns, EndTask
<1>9. CASE TaskThrows(t)
  BY <1>9, EndTaskStep DEF TaskThrows, EndTask
<1>10. CASE DrainReturns(t)
  BY <1>10, DrainReturnsStep DEF DrainReturns
<1> QED BY <1>1, <1>2, <1>3, <1>4, <1>5, <1>6, <1>7, <1>8, <1>9, <1>10 DEF Step

-----------------------------------------------------------------------------
(***************************************************************************)
(* What the invariant says.                                                *)
(***************************************************************************)
LEMMA ServiceTypes ==
  ASSUME ServiceInvariant
  PROVE  TypeOK
<1>1. Basics /\ StartedState
  BY DEF ServiceInvariant
<1>2. started \in Seq(DOMAIN results)
  <2>1. DOMAIN started = 1..Len(started) /\ Len(started) \in Nat /\ started \in [1..Len(started) -> Nat \ {0}]
    BY <1>1 DEF Basics
  <2>2. started \in [1..Len(started) -> DOMAIN results]
    BY <1>1, <2>1 DEF StartedState
  <2> QED BY <2>1, <2>2, SeqDef
<1> QED BY <1>1, <1>2 DEF TypeOK, Basics, StacksOK

\* The invariant of the service gives the exact metrics.
LEMMA ServiceCounts ==
  ASSUME ServiceInvariant
  PROVE  MetricsAddUp
<1>0. Basics /\ QueueState /\ PlaceState /\ NoneForgotten /\ CallsOK /\ CountState
  BY DEF ServiceInvariant
<1>1. ASSUME NEW id PROVE id \in InFlight <=> \E t, i, m : Placed(t, i, m, id)
  <2>1. ASSUME NEW t, NEW i, NEW m, Placed(t, i, m, id) PROVE id \in InFlight
    <3>1. /\ t \in Threads /\ i \in 1..Len(stack[t]) /\ m \in 1..Len(stack[t][i].to_run)
          /\ stack[t][i].to_run[m] = id
      BY <2>1 DEF Placed
    <3>2. i \in DOMAIN stack[t] /\ m \in DOMAIN stack[t][i].to_run
      BY <1>0, <3>1, CallType DEF Basics, StacksOK
    <3>3. id \in Range(stack[t][i].to_run)
      BY <3>1, <3>2 DEF Range
    <3>4. id \in HeldBy(t)
      BY <3>2, <3>3 DEF HeldBy
    <3> QED BY <3>1, <3>4 DEF InFlight
  <2>2. ASSUME id \in InFlight PROVE \E t, i, m : Placed(t, i, m, id)
    <3>1. PICK t \in Threads : id \in HeldBy(t)
      BY <2>2 DEF InFlight
    <3>2. PICK i \in DOMAIN stack[t] : id \in Range(stack[t][i].to_run)
      BY <3>1 DEF HeldBy
    <3>3. PICK m \in DOMAIN stack[t][i].to_run : stack[t][i].to_run[m] = id
      BY <3>2 DEF Range
    <3>4. i \in 1..Len(stack[t])
      BY <1>0 DEF Basics, StacksOK
    <3>5. m \in 1..Len(stack[t][i].to_run)
      BY <1>0, <3>4, CallType DEF Basics
    <3>6. Placed(t, i, m, id)
      BY <3>3, <3>4, <3>5 DEF Placed
    <3> QED BY <3>6
  <2> QED BY <2>1, <2>2
<1>2. WithState("Queued") \cup WithState("Running") \subseteq Range(pending) \cup InFlight
  BY <1>0, <1>1 DEF WithState, NoneForgotten
<1>3. Range(pending) \subseteq WithState("Queued")
  BY <1>0 DEF QueueState, WithState, Range
<1>4. InFlight \subseteq WithState("Queued") \cup WithState("Running")
  <2> SUFFICES ASSUME NEW id \in InFlight PROVE id \in WithState("Queued") \cup WithState("Running")
    OBVIOUS
  <2>1. PICK t, i, m : Placed(t, i, m, id)
    BY <1>1
  <2> QED BY <1>0, <2>1 DEF PlaceState, WithState
<1>5. Range(pending) \cap InFlight = {}
  BY <1>0, <1>1 DEF PlaceState
<1> QED BY <1>0, <1>2, <1>3, <1>4, <1>5 DEF MetricsAddUp, CountState

-----------------------------------------------------------------------------
(***************************************************************************)
(* The registry: where a service is.                                       *)
(***************************************************************************)
Calls == [active : BOOLEAN, left : Seq(Services), ok : BOOLEAN]

\* The entry of k holds service s; s is the i-th that the loop of thread t still has
\* to shut down.
HeldAt(k, s) == k \in Registered /\ instance[k] = s
WaitsAt(t, i, s) == t \in Threads /\ i \in 1..Len(shutdown[t].left) /\ shutdown[t].left[i] = s

EntriesState ==
  /\ IsFiniteSet(Registered) /\ registration_sequence \in Nat
  /\ entries \in [Registered -> [ownership : Ownerships, sequence : Nat]]
  /\ instance \in [Registered -> Services]
  /\ shutdown \in [Threads -> Calls]

\* A service has one place, and one that has a place was neither stopped nor released.
HeldState ==
  /\ \A k, l, s : HeldAt(k, s) /\ HeldAt(l, s) => k = l
  /\ \A k, s : HeldAt(k, s) => /\ s \in used /\ s \notin stopped /\ s \notin released
                               /\ \A t, i : ~WaitsAt(t, i, s)

WaitState ==
  /\ \A t, i, u, j, s : WaitsAt(t, i, s) /\ WaitsAt(u, j, s) => t = u /\ i = j
  /\ \A t, i, s : WaitsAt(t, i, s) => s \in used /\ s \notin stopped /\ s \notin released
  /\ \A t \in Threads : ~shutdown[t].active => shutdown[t].left = <<>>

Accounted ==
  /\ \A s \in used : \/ \E k : HeldAt(k, s)
                     \/ \E t, i : WaitsAt(t, i, s)
                     \/ s \in stopped \/ s \in released
  /\ stopped \cap released = {} /\ stopped \subseteq used /\ released \subseteq used

InlineState == (Inline \in stopped => shutting_down) /\ (shutting_down => pending = <<>>)

RegistryInvariant ==
  /\ ServiceInvariant /\ EntriesState /\ HeldState /\ WaitState /\ Accounted /\ InlineState

\* The call of a thread that shuts nothing down waits for nothing.
LEMMA CallFields ==
  ASSUME EntriesState, NEW t \in Threads
  PROVE  /\ shutdown[t] \in Calls /\ shutdown[t].left \in Seq(Services)
         /\ shutdown[t].active \in BOOLEAN /\ shutdown[t].ok \in BOOLEAN
<1>1. shutdown[t] \in Calls
  BY DEF EntriesState
<1> QED BY <1>1 DEF Calls

\* A new registry satisfies the invariant.
LEMMA RegistryInitial ==
  ASSUME RegistryInit
  PROVE  RegistryInvariant
<1>1. /\ Init /\ entries = NoEntries /\ registration_sequence = 0
      /\ instance = NoEntries /\ shutdown = [t \in Threads |-> NoCall]
      /\ used = {} /\ released = {} /\ stopped = {}
  BY DEF RegistryInit, ContextInit
<1>2. ServiceInvariant
  BY <1>1, ServiceInitial
<1>3. Registered = {}
  BY <1>1 DEF Registered, NoEntries
<1>4. NoCall \in Calls /\ NoCall.left = <<>>
  <2>1. <<>> \in Seq(Services)
    OBVIOUS
  <2> QED BY <2>1 DEF NoCall, Calls
<1>5. EntriesState
  BY <1>1, <1>3, <1>4, FS_EmptySet DEF EntriesState, NoEntries
<1>6. \A k, s : ~HeldAt(k, s)
  BY <1>3 DEF HeldAt
<1>7. \A t \in Threads : shutdown[t].left = <<>>
  BY <1>1, <1>4
<1>8. \A t, i, s : ~WaitsAt(t, i, s)
  BY <1>7 DEF WaitsAt
<1>9. HeldState /\ WaitState /\ Accounted /\ InlineState
  BY <1>1, <1>6, <1>7, <1>8 DEF HeldState, WaitState, Accounted, InlineState, Init
<1> QED BY <1>2, <1>5, <1>9 DEF RegistryInvariant

\* Steps that change neither the entries nor the loops.
LEMMA RegistryFrozen ==
  ASSUME RegistryInvariant, ServiceInvariant',
         shutting_down => shutting_down', shutting_down' => pending' = <<>>,
         entries' = entries, registration_sequence' = registration_sequence,
         instance' = instance, shutdown' = shutdown,
         used' = used, released' = released, stopped' = stopped
  PROVE  RegistryInvariant'
<1>2. Registered' = Registered
  BY DEF Registered
<1>3. EntriesState'
  BY <1>2 DEF RegistryInvariant, EntriesState
<1>4. /\ \A k, s : HeldAt(k, s)' <=> HeldAt(k, s)
      /\ \A t, i, s : WaitsAt(t, i, s)' <=> WaitsAt(t, i, s)
  BY <1>2 DEF HeldAt, WaitsAt
<1>5. HeldState'
  BY <1>4 DEF RegistryInvariant, HeldState
<1>6. WaitState'
  BY <1>4 DEF RegistryInvariant, WaitState
<1>7. Accounted' /\ InlineState'
  BY <1>4 DEF RegistryInvariant, Accounted, InlineState
<1> QED BY <1>3, <1>5, <1>6, <1>7 DEF RegistryInvariant

\* The steps of the service leave the registry alone.
LEMMA RegistryUntouched ==
  ASSUME RegistryInvariant, UNCHANGED registryVars, ServiceInvariant',
         shutting_down => shutting_down', shutting_down' => pending' = <<>>
  PROVE  RegistryInvariant'
BY RegistryFrozen DEF registryVars, contextVars

\* Register puts a new service into an entry and releases the one it replaces.
LEMMA RegisterServiceStep ==
  ASSUME RegistryInvariant, NEW k \in Keys, NEW service \in Services, NEW ownership \in Ownerships,
         NEW r \in BOOLEAN, RegisterService(k, service, ownership, r)
  PROVE  RegistryInvariant'
<1>0. /\ ServiceInvariant /\ EntriesState /\ HeldState /\ WaitState /\ Accounted /\ InlineState
  BY DEF RegistryInvariant
<1>1. /\ service \notin used
      /\ entries' = WithEntry(entries, k, ownership, registration_sequence)
      /\ registration_sequence' =
           IF k \in Registered THEN registration_sequence ELSE registration_sequence + 1
      /\ instance' = [x \in Registered \cup {k} |-> IF x = k THEN service ELSE instance[x]]
      /\ released' = IF k \in Registered THEN released \cup {instance[k]} ELSE released
      /\ used' = used \cup {service} /\ shutdown' = shutdown /\ stopped' = stopped
      /\ UNCHANGED vars /\ shutting_down' = shutting_down /\ pending' = pending
  BY DEF RegisterService, Register, vars
<1>2. ServiceInvariant'
  BY <1>0, <1>1, ServiceUntouched
<1>3. Registered' = Registered \cup {k}
  BY <1>1 DEF Registered, WithEntry
<1>4. EntriesState'
  <2>1. IsFiniteSet(Registered')
    BY <1>0, <1>3, FS_AddElement DEF EntriesState
  <2>2. \A x \in Registered : entries[x] \in [ownership : Ownerships, sequence : Nat]
    BY <1>0 DEF EntriesState
  <2>3. entries' \in [Registered' -> [ownership : Ownerships, sequence : Nat]]
    <3> DEFINE q == IF k \in Registered THEN entries[k].sequence ELSE registration_sequence
               e == [ownership |-> ownership, sequence |-> q]
    <3>1. q \in Nat
      BY <1>0, <2>2 DEF EntriesState
    <3>2. e \in [ownership : Ownerships, sequence : Nat]
      BY <3>1
    <3>3. entries' = [x \in Registered \cup {k} |-> IF x = k THEN e ELSE entries[x]]
      BY <1>1 DEF WithEntry, Registered
    <3> HIDE DEF e
    <3> QED BY <1>3, <2>2, <3>2, <3>3
  <2>4. instance' \in [Registered' -> Services]
    BY <1>0, <1>1, <1>3 DEF EntriesState
  <2>5. registration_sequence' \in Nat
    BY <1>0, <1>1 DEF EntriesState
  <2> QED BY <1>0, <1>1, <2>1, <2>3, <2>4, <2>5 DEF EntriesState
<1>5. \A x, s : HeldAt(x, s)' <=> IF x = k THEN s = service ELSE HeldAt(x, s)
  BY <1>1, <1>3 DEF HeldAt
<1>6. \A t, i, s : WaitsAt(t, i, s)' <=> WaitsAt(t, i, s)
  BY <1>1 DEF WaitsAt
<1>7. /\ \A x, s : HeldAt(x, s) => s # service
      /\ \A t, i, s : WaitsAt(t, i, s) => s # service
      /\ service \notin stopped /\ service \notin released
  BY <1>0, <1>1 DEF HeldState, WaitState, Accounted
<1>8. \A x : x \in released' <=> x \in released \/ HeldAt(k, x)
  BY <1>1 DEF HeldAt
<1>9. HeldState'
  BY <1>0, <1>1, <1>5, <1>6, <1>7, <1>8 DEF HeldState
<1>10. WaitState'
  BY <1>0, <1>1, <1>6, <1>8 DEF WaitState, HeldState
<1>11. Accounted'
  <2>1. ASSUME NEW s \in used'
        PROVE  \/ \E x : HeldAt(x, s)'
               \/ \E t, i : WaitsAt(t, i, s)'
               \/ s \in stopped' \/ s \in released'
    <3>1. CASE s = service
      BY <1>5, <3>1
    <3>2. CASE s # service
      <4>1. s \in used
        BY <1>1, <3>2
      <4>2. CASE \E x : HeldAt(x, s)
        BY <1>5, <1>8, <4>2
      <4>3. CASE ~\E x : HeldAt(x, s)
        BY <1>0, <1>1, <1>6, <1>8, <4>1, <4>3 DEF Accounted
      <4> QED BY <4>2, <4>3
    <3> QED BY <3>1, <3>2
  <2>2. \A s : HeldAt(k, s) => s \in used /\ s \notin stopped
    BY <1>0 DEF HeldState
  <2>3. stopped' \cap released' = {} /\ stopped' \subseteq used' /\ released' \subseteq used'
    BY <1>0, <1>1, <1>8, <2>2 DEF Accounted
  <2> QED BY <2>1, <2>3 DEF Accounted
<1>12. InlineState'
  BY <1>0, <1>1 DEF InlineState
<1> QED BY <1>2, <1>4, <1>9, <1>10, <1>11, <1>12 DEF RegistryInvariant

\* A reset releases what the entries hold.
LEMMA ResetRegistryStep ==
  ASSUME RegistryInvariant, ResetRegistry
  PROVE  RegistryInvariant'
<1>0. /\ ServiceInvariant /\ EntriesState /\ HeldState /\ WaitState /\ Accounted /\ InlineState
  BY DEF RegistryInvariant
<1>1. /\ entries' = NoEntries /\ registration_sequence' = 0 /\ instance' = NoEntries
      /\ released' = released \cup {instance[k] : k \in Registered}
      /\ used' = used /\ shutdown' = shutdown /\ stopped' = stopped
      /\ UNCHANGED vars /\ shutting_down' = shutting_down /\ pending' = pending
  BY DEF ResetRegistry, ResetForNextStartCycle, vars
<1>2. ServiceInvariant'
  BY <1>0, <1>1, ServiceUntouched
<1>3. Registered' = {}
  BY <1>1 DEF Registered, NoEntries
<1>4. EntriesState'
  BY <1>0, <1>1, <1>3, FS_EmptySet DEF EntriesState, NoEntries
<1>5. \A x, s : ~HeldAt(x, s)'
  BY <1>3 DEF HeldAt
<1>6. \A t, i, s : WaitsAt(t, i, s)' <=> WaitsAt(t, i, s)
  BY <1>1 DEF WaitsAt
<1>7. \A x : x \in released' <=> x \in released \/ \E k : HeldAt(k, x)
  BY <1>1 DEF HeldAt
<1>8. HeldState'
  BY <1>5 DEF HeldState
<1>9. WaitState'
  BY <1>0, <1>1, <1>6, <1>7 DEF WaitState, HeldState
<1>10. Accounted'
  BY <1>0, <1>1, <1>6, <1>7 DEF Accounted, HeldState
<1>11. InlineState'
  BY <1>0, <1>1 DEF InlineState
<1> QED BY <1>2, <1>4, <1>8, <1>9, <1>10, <1>11 DEF RegistryInvariant

\* A descending order of the owned keys names each of them exactly once.
LEMMA TeardownOrder ==
  ASSUME EntriesState, BeginTeardown
  PROVE  /\ last_teardown_order' \in [1..Cardinality(Owned) -> Owned] /\ Cardinality(Owned) \in Nat
         /\ \A i, j \in 1..Cardinality(Owned) : last_teardown_order'[i] = last_teardown_order'[j] => i = j
         /\ \A k \in Owned : \E i \in 1..Cardinality(Owned) : last_teardown_order'[i] = k
<1> DEFINE n == Cardinality(Owned)
           o == last_teardown_order'
<1>1. IsFiniteSet(Owned) /\ n \in Nat /\ Owned \subseteq Registered
  <2>1. Owned \subseteq Registered
    BY DEF Owned
  <2>2. IsFiniteSet(Owned)
    BY <2>1, FS_Subset DEF EntriesState
  <2> QED BY <2>1, <2>2, FS_CardinalityType
<1>2. o \in [1..n -> Owned] /\ DOMAIN o = 1..n
  BY DEF BeginTeardown
<1>3. \A i, j \in 1..n : i < j => entries[o[i]].sequence > entries[o[j]].sequence
  BY <1>2 DEF BeginTeardown, IsDescending
<1> HIDE DEF n, o
<1>4. \A i \in 1..n : entries[o[i]].sequence \in Nat
  BY <1>1, <1>2 DEF EntriesState
<1>5. ASSUME NEW i \in 1..n, NEW j \in 1..n, o[i] = o[j] PROVE i = j
  <2>1. ~(i < j)
    BY <1>3, <1>4, <1>5
  <2>2. ~(j < i)
    BY <1>3, <1>4, <1>5
  <2> QED BY <1>1, <2>1, <2>2
<1>6. o \in Injection(1..n, Owned)
  BY <1>2, <1>5 DEF Injection, IsInjective
<1>7. Cardinality(1..n) = n
  <2>1. Cardinality(1..n) = IF 1 > n THEN 0 ELSE n - 1 + 1
    BY <1>1, FS_Interval
  <2> QED BY <1>1, <2>1
<1>8. o \in Surjection(1..n, Owned)
  BY <1>1, <1>6, <1>7, FS_Injection DEF n
<1>9. \A k \in Owned : \E i \in 1..n : o[i] = k
  BY <1>8 DEF Surjection
<1> QED BY <1>1, <1>2, <1>5, <1>9 DEF n, o

\* The part of BeginShutdown under the mutex moves the owned services from the entries into its
\* own list.
LEMMA BeginRegistryShutdownStep ==
  ASSUME RegistryInvariant, NEW t \in Threads, InClient(t), BeginRegistryShutdown(t)
  PROVE  RegistryInvariant'
<1> DEFINE n == Cardinality(Owned)
           o == last_teardown_order'
           taken == [i \in DOMAIN o |-> instance[o[i]]]
           call == [active |-> TRUE, ok |-> TRUE, left |-> taken]
<1>0. /\ ServiceInvariant /\ EntriesState /\ HeldState /\ WaitState /\ Accounted /\ InlineState
  BY DEF RegistryInvariant
<1>1. /\ BeginTeardown /\ entries' = [k \in Registered \ Owned |-> entries[k]]
      /\ registration_sequence' = registration_sequence
      /\ instance' = [k \in DOMAIN entries' |-> instance[k]]
      /\ shutdown' = [shutdown EXCEPT ![t] = call]
      /\ used' = used /\ released' = released /\ stopped' = stopped
      /\ UNCHANGED vars /\ shutting_down' = shutting_down /\ pending' = pending
  BY DEF BeginRegistryShutdown, BeginTeardown, vars
<1>2. ServiceInvariant'
  BY <1>0, <1>1, ServiceUntouched
<1>3. /\ o \in [1..n -> Owned] /\ n \in Nat
      /\ \A i, j \in 1..n : o[i] = o[j] => i = j
      /\ \A k \in Owned : \E i \in 1..n : o[i] = k
  BY <1>0, <1>1, TeardownOrder
<1>4. Registered' = Registered \ Owned /\ Owned \subseteq Registered
  BY <1>1 DEF Registered, Owned
<1> HIDE DEF n, o
<1>5. taken \in [1..n -> Services] /\ \A i \in 1..n : taken[i] = instance[o[i]]
  BY <1>0, <1>3, <1>4 DEF EntriesState
<1>6. taken \in Seq(Services) /\ Len(taken) = n
  <2>1. taken \in Seq(Services)
    BY <1>3, <1>5, SeqDef
  <2> QED BY <1>3, <1>5, <2>1, LenProperties
<1> HIDE DEF taken
<1>7. call \in Calls /\ call.left = taken /\ call.active = TRUE
  BY <1>6 DEF Calls
<1> HIDE DEF call
<1>8. shutdown'[t] = call /\ \A u \in Threads \ {t} : shutdown'[u] = shutdown[u]
  BY <1>0, <1>1 DEF EntriesState
<1>9. EntriesState'
  <2>1. IsFiniteSet(Registered')
    BY <1>0, <1>4, FS_Subset DEF EntriesState
  <2>2. entries' \in [Registered' -> [ownership : Ownerships, sequence : Nat]]
    BY <1>0, <1>1, <1>4 DEF EntriesState
  <2>3. instance' \in [Registered' -> Services]
    BY <1>0, <1>1, <1>4 DEF EntriesState, Registered
  <2>4. shutdown' \in [Threads -> Calls]
    BY <1>0, <1>1, <1>7 DEF EntriesState
  <2> QED BY <1>0, <1>1, <2>1, <2>2, <2>3, <2>4 DEF EntriesState
<1>10. \A k, s : HeldAt(k, s)' <=> k \notin Owned /\ HeldAt(k, s)
  BY <1>1, <1>4 DEF HeldAt, Registered
<1>11. \A i, s : ~WaitsAt(t, i, s)
  <2>1. shutdown[t].left = <<>>
    BY <1>0 DEF InClient, WaitState
  <2> QED BY <2>1 DEF WaitsAt
<1>12. ASSUME NEW i, NEW s
       PROVE  WaitsAt(t, i, s)' <=> i \in 1..n /\ HeldAt(o[i], s)
  <2>1. WaitsAt(t, i, s)' <=> i \in 1..n /\ taken[i] = s
    BY <1>6, <1>7, <1>8 DEF WaitsAt
  <2>2. i \in 1..n => o[i] \in Registered
    BY <1>3, <1>4
  <2> QED BY <1>5, <2>1, <2>2 DEF HeldAt
<1>13. \A u, i, s : u # t => (WaitsAt(u, i, s)' <=> WaitsAt(u, i, s))
  BY <1>8 DEF WaitsAt
<1>14. HeldState'
  <2>1. ASSUME NEW k, NEW s, HeldAt(k, s)', NEW u, NEW i PROVE ~WaitsAt(u, i, s)'
    <3>1. k \notin Owned /\ HeldAt(k, s)
      BY <1>10, <2>1
    <3>2. CASE u = t
      <4>1. i \in 1..n => o[i] \in Owned
        BY <1>3
      <4> QED BY <1>0, <1>12, <3>1, <3>2, <4>1 DEF HeldState
    <3>3. CASE u # t
      BY <1>0, <1>13, <3>1, <3>3 DEF HeldState
    <3> QED BY <3>2, <3>3
  <2> QED BY <1>0, <1>1, <1>10, <2>1 DEF HeldState
<1>15. WaitState'
  <2>1. ASSUME NEW u, NEW i, NEW v, NEW j, NEW s, WaitsAt(u, i, s)', WaitsAt(v, j, s)' PROVE u = v /\ i = j
    <3>1. CASE u = t /\ v = t
      <4>1. i \in 1..n /\ j \in 1..n /\ o[i] = o[j]
        BY <1>0, <1>12, <2>1, <3>1 DEF HeldState
      <4> QED BY <1>3, <3>1, <4>1
    <3>2. CASE u = t /\ v # t
      BY <1>0, <1>12, <1>13, <2>1, <3>2 DEF HeldState
    <3>3. CASE u # t /\ v = t
      BY <1>0, <1>12, <1>13, <2>1, <3>3 DEF HeldState
    <3>4. CASE u # t /\ v # t
      BY <1>0, <1>13, <2>1, <3>4 DEF WaitState
    <3> QED BY <3>1, <3>2, <3>3, <3>4
  <2>2. ASSUME NEW u, NEW i, NEW s, WaitsAt(u, i, s)'
        PROVE  s \in used' /\ s \notin stopped' /\ s \notin released'
    <3>1. CASE u = t
      BY <1>0, <1>1, <1>12, <2>2, <3>1 DEF HeldState
    <3>2. CASE u # t
      BY <1>0, <1>1, <1>13, <2>2, <3>2 DEF WaitState
    <3> QED BY <3>1, <3>2
  <2>3. \A u \in Threads : ~shutdown'[u].active => shutdown'[u].left = <<>>
    BY <1>0, <1>7, <1>8 DEF WaitState
  <2> QED BY <2>1, <2>2, <2>3 DEF WaitState
<1>16. Accounted'
  <2>1. ASSUME NEW s \in used
        PROVE  \/ \E k : HeldAt(k, s)'
               \/ \E u, i : WaitsAt(u, i, s)'
               \/ s \in stopped \/ s \in released
    <3>1. CASE \E k : HeldAt(k, s)
      <4>1. PICK k : HeldAt(k, s)
        BY <3>1
      <4>2. CASE k \in Owned
        <5>1. PICK i \in 1..n : o[i] = k
          BY <1>3, <4>2
        <5>2. WaitsAt(t, i, s)'
          BY <1>12, <4>1, <5>1
        <5> QED BY <5>2
      <4>3. CASE k \notin Owned
        BY <1>10, <4>1, <4>3
      <4> QED BY <4>2, <4>3
    <3>2. CASE \E u, i : WaitsAt(u, i, s)
      BY <1>11, <1>13, <3>2
    <3> QED BY <1>0, <3>1, <3>2 DEF Accounted
  <2> QED BY <1>0, <1>1, <2>1 DEF Accounted
<1>17. InlineState'
  BY <1>0, <1>1 DEF InlineState
<1> QED BY <1>2, <1>9, <1>14, <1>15, <1>16, <1>17 DEF RegistryInvariant

\* One service leaves the list of a shutdown call and is stopped, the inline one with its queue.
LEMMA ShutdownNextStep ==
  ASSUME RegistryInvariant, NEW t \in Threads, NEW ok \in BOOLEAN, ShutdownNext(t, ok)
  PROVE  RegistryInvariant'
<1> DEFINE service == Head(shutdown[t].left)
           old == shutdown[t].left
<1>0. /\ ServiceInvariant /\ EntriesState /\ HeldState /\ WaitState /\ Accounted /\ InlineState
  BY DEF RegistryInvariant
<1>1. /\ old # <<>> /\ IF service = Inline THEN ok /\ ShutInline(t) ELSE UNCHANGED vars
      /\ stopped' = stopped \cup {service}
      /\ shutdown' = [shutdown EXCEPT ![t].left = Tail(@), ![t].ok = @ /\ ok]
      /\ entries' = entries /\ registration_sequence' = registration_sequence
      /\ instance' = instance /\ used' = used /\ released' = released
  BY DEF ShutdownNext, contextVars
<1>2. shutdown[t] \in Calls /\ old \in Seq(Services) /\ shutdown[t].ok \in BOOLEAN
  BY <1>0, CallFields
<1>3. /\ service = old[1] /\ Len(old) \in Nat \ {0} /\ Tail(old) \in Seq(Services)
      /\ Len(Tail(old)) = Len(old) - 1
      /\ \A i \in 1..(Len(old) - 1) : Tail(old)[i] = old[i + 1]
  BY <1>1, <1>2, TailFacts
<1>4. /\ shutdown'[t] \in Calls /\ shutdown'[t].left = Tail(old)
      /\ shutdown'[t].active = shutdown[t].active /\ shutdown' \in [Threads -> Calls]
      /\ \A u \in Threads \ {t} : shutdown'[u] = shutdown[u]
  <2> DEFINE rest == Tail(old)
             good == shutdown[t].ok /\ ok
             call == [shutdown[t] EXCEPT !.left = rest, !.ok = good]
  <2>1. good \in BOOLEAN
    BY <1>2
  <2>2. shutdown' = [shutdown EXCEPT ![t] = call]
    BY <1>0, <1>1, Zenon DEF EntriesState
  <2> HIDE DEF rest, good
  <2>3. rest \in Seq(Services)
    BY <1>3 DEF rest
  <2>4. call \in Calls
    BY <1>2, <2>1, <2>3, Zenon DEF Calls
  <2>5. call.left = rest /\ call.active = shutdown[t].active
    BY <1>2 DEF Calls
  <2> HIDE DEF call
  <2> QED BY <1>0, <2>2, <2>4, <2>5 DEF EntriesState, rest
<1>5. ServiceInvariant' /\ InlineState'
  <2>1. CASE service = Inline /\ BeginShutdown(t)
    BY <1>0, <1>1, <2>1, BeginShutdownStep DEF InlineState
  <2>2. CASE service = Inline /\ shutting_down /\ UNCHANGED vars
    <3>1. shutting_down' = shutting_down /\ pending' = pending
      BY <2>2 DEF vars
    <3> QED BY <1>0, <2>2, <3>1, ServiceUntouched DEF InlineState
  <2>3. CASE service # Inline
    <3>1. shutting_down' = shutting_down /\ pending' = pending /\ UNCHANGED vars
      BY <1>1, <2>3 DEF vars
    <3> QED BY <1>0, <1>1, <2>3, <3>1, ServiceUntouched DEF InlineState
  <2> QED BY <1>1, <2>1, <2>2, <2>3 DEF ShutInline
<1> HIDE DEF service, old
<1>6. \A k, s : HeldAt(k, s)' <=> HeldAt(k, s)
  BY <1>1 DEF HeldAt, Registered
<1>7. WaitsAt(t, 1, service)
  <2>1. 1 \in 1..Len(old)
    BY <1>3
  <2> QED BY <1>3, <2>1 DEF WaitsAt, old
<1>8. ASSUME NEW i, NEW s PROVE WaitsAt(t, i, s)' <=> i \in Nat \ {0} /\ WaitsAt(t, i + 1, s)
  <2>1. WaitsAt(t, i, s)' <=> i \in 1..(Len(old) - 1) /\ Tail(old)[i] = s
    BY <1>3, <1>4 DEF WaitsAt
  <2>2. i \in 1..(Len(old) - 1) <=> i \in Nat \ {0} /\ i + 1 \in 1..Len(old)
    BY <1>3
  <2>3. WaitsAt(t, i + 1, s) <=> i + 1 \in 1..Len(old) /\ old[i + 1] = s
    BY DEF WaitsAt, old
  <2> QED BY <1>3, <2>1, <2>2, <2>3
<1>9. \A u, i, s : u # t => (WaitsAt(u, i, s)' <=> WaitsAt(u, i, s))
  BY <1>4 DEF WaitsAt
<1>10. ASSUME NEW u, NEW i, NEW s, WaitsAt(u, i, s)'
       PROVE  /\ s # service
              /\ IF u = t THEN i \in Nat /\ WaitsAt(u, i + 1, s) ELSE WaitsAt(u, i, s)
  <2>1. CASE u = t
    <3>1. i \in Nat \ {0} /\ WaitsAt(t, i + 1, s)
      BY <1>8, <1>10, <2>1
    <3>2. i + 1 # 1
      BY <3>1
    <3> QED BY <1>0, <1>7, <2>1, <3>1, <3>2 DEF WaitState
  <2>2. CASE u # t
    <3>1. WaitsAt(u, i, s)
      BY <1>9, <1>10, <2>2
    <3> QED BY <1>0, <1>7, <2>2, <3>1 DEF WaitState
  <2> QED BY <2>1, <2>2
<1>11. EntriesState'
  BY <1>0, <1>1, <1>4 DEF EntriesState, Registered
<1>12. HeldState'
  <2>1. \A k, s : HeldAt(k, s) => s # service
    BY <1>0, <1>7 DEF HeldState
  <2>2. \A k, s : HeldAt(k, s) => \A u, i : ~WaitsAt(u, i, s)'
    BY <1>0, <1>10 DEF HeldState
  <2> QED BY <1>0, <1>1, <1>6, <2>1, <2>2 DEF HeldState
<1>13. WaitState'
  <2>1. ASSUME NEW u, NEW i, NEW v, NEW j, NEW s, WaitsAt(u, i, s)', WaitsAt(v, j, s)' PROVE u = v /\ i = j
    <3>1. CASE u = t /\ v = t
      <4>1. i \in Nat /\ j \in Nat /\ i + 1 = j + 1
        BY <1>0, <1>10, <2>1, <3>1 DEF WaitState
      <4> QED BY <3>1, <4>1
    <3>2. CASE ~(u = t /\ v = t)
      BY <1>0, <1>10, <2>1, <3>2 DEF WaitState
    <3> QED BY <3>1, <3>2
  <2>2. \A u, i, s : WaitsAt(u, i, s)' => s \in used' /\ s \notin stopped' /\ s \notin released'
    BY <1>0, <1>1, <1>10 DEF WaitState
  <2>3. \A u \in Threads : ~shutdown'[u].active => shutdown'[u].left = <<>>
    <3>1. shutdown[t].active
      BY <1>0, <1>1 DEF WaitState, old
    <3> QED BY <1>0, <1>4, <3>1 DEF WaitState
  <2> QED BY <2>1, <2>2, <2>3 DEF WaitState
<1>14. Accounted'
  <2>1. ASSUME NEW s \in used, s # service
        PROVE  \/ \E k : HeldAt(k, s)'
               \/ \E u, i : WaitsAt(u, i, s)'
               \/ s \in stopped \/ s \in released
    <3>1. CASE \E u, i : WaitsAt(u, i, s)
      <4>1. PICK u, i : WaitsAt(u, i, s)
        BY <3>1
      <4>2. CASE u # t
        BY <1>9, <4>1, <4>2
      <4>3. CASE u = t
        <5>1. i \in Nat \ {0} /\ i # 1
          BY <1>3, <1>7, <2>1, <4>1, <4>3 DEF WaitsAt, old
        <5>2. i - 1 \in Nat \ {0} /\ (i - 1) + 1 = i
          BY <5>1
        <5>3. WaitsAt(t, i - 1, s)'
          BY <1>8, <4>1, <4>3, <5>2
        <5> QED BY <5>3
      <4> QED BY <4>2, <4>3
    <3> QED BY <1>0, <1>6, <3>1 DEF Accounted
  <2>2. service \in used /\ service \notin released
    BY <1>0, <1>7 DEF WaitState
  <2> QED BY <1>0, <1>1, <2>1, <2>2 DEF Accounted
<1> QED BY <1>5, <1>11, <1>12, <1>13, <1>14 DEF RegistryInvariant

\* A shutdown call returns when its list is empty.
LEMMA ShutdownReturnsStep ==
  ASSUME RegistryInvariant, NEW t \in Threads, ShutdownReturns(t)
  PROVE  RegistryInvariant'
<1>0. /\ ServiceInvariant /\ EntriesState /\ HeldState /\ WaitState /\ Accounted /\ InlineState
  BY DEF RegistryInvariant
<1>1. /\ shutdown[t].left = <<>> /\ shutdown' = [shutdown EXCEPT ![t] = NoCall]
      /\ UNCHANGED vars /\ shutting_down' = shutting_down /\ pending' = pending
      /\ entries' = entries /\ registration_sequence' = registration_sequence
      /\ instance' = instance /\ used' = used /\ released' = released /\ stopped' = stopped
  BY DEF ShutdownReturns, contextVars, vars
<1>2. ServiceInvariant'
  BY <1>0, <1>1, ServiceUntouched
<1>3. NoCall \in Calls /\ NoCall.left = <<>>
  <2>1. <<>> \in Seq(Services)
    OBVIOUS
  <2> QED BY <2>1 DEF NoCall, Calls
<1>4. \A u \in Threads : shutdown'[u] = IF u = t THEN NoCall ELSE shutdown[u]
  BY <1>0, <1>1 DEF EntriesState
<1>5. EntriesState'
  BY <1>0, <1>1, <1>3 DEF EntriesState, Registered
<1>6. /\ \A k, s : HeldAt(k, s)' <=> HeldAt(k, s)
      /\ \A u, i, s : WaitsAt(u, i, s)' <=> WaitsAt(u, i, s)
  <2>1. \A u \in Threads : shutdown'[u].left = shutdown[u].left
    BY <1>1, <1>3, <1>4
  <2> QED BY <1>1, <2>1 DEF HeldAt, WaitsAt, Registered
<1>7. HeldState' /\ Accounted'
  BY <1>0, <1>1, <1>6 DEF HeldState, Accounted
<1>8. WaitState'
  BY <1>0, <1>1, <1>3, <1>4, <1>6 DEF WaitState
<1>9. InlineState'
  BY <1>0, <1>1 DEF InlineState
<1> QED BY <1>2, <1>5, <1>7, <1>8, <1>9 DEF RegistryInvariant

\* Every step of the service, the registry and its shutdown loops keeps the invariant.
LEMMA RegistryStepKeeps ==
  ASSUME RegistryInvariant, [RegistryNext]_allVars
  PROVE  RegistryInvariant'
<1>1. CASE UNCHANGED allVars
  <2>1. UNCHANGED vars /\ UNCHANGED registryVars /\ shutting_down' = shutting_down /\ pending' = pending
    BY <1>1 DEF allVars, vars
  <2>2. ServiceInvariant'
    BY <2>1, ServiceUntouched DEF RegistryInvariant
  <2> QED BY <2>1, <2>2, RegistryUntouched DEF RegistryInvariant, InlineState
<1>2. CASE RegistryNext
  <2>1. PICK t \in Threads :
          \/ InClient(t) /\ RegistryStep(t)
          \/ ~shutdown[t].active /\ Step(t) /\ UNCHANGED registryVars
          \/ \E ok \in BOOLEAN : ShutdownNext(t, ok)
          \/ ShutdownReturns(t)
    BY <1>2 DEF RegistryNext
  <2>2. CASE InClient(t) /\ RegistryStep(t)
    <3>1. CASE \E k \in Keys, s \in Services, o \in Ownerships, r \in BOOLEAN : RegisterService(k, s, o, r)
      BY <3>1, RegisterServiceStep
    <3>2. CASE FreezeRegistry
      <4>1. /\ UNCHANGED vars /\ shutting_down' = shutting_down /\ pending' = pending
            /\ entries' = entries /\ registration_sequence' = registration_sequence
            /\ instance' = instance /\ shutdown' = shutdown
            /\ used' = used /\ released' = released /\ stopped' = stopped
        BY <3>2 DEF FreezeRegistry, Freeze, vars
      <4>2. ServiceInvariant'
        BY <4>1, ServiceUntouched DEF RegistryInvariant
      <4>3. (shutting_down => shutting_down') /\ (shutting_down' => pending' = <<>>)
        BY <4>1 DEF RegistryInvariant, InlineState
      <4> QED BY <4>1, <4>2, <4>3, RegistryFrozen
    <3>3. CASE ResetRegistry
      BY <3>3, ResetRegistryStep
    <3>4. CASE BeginRegistryShutdown(t)
      BY <2>2, <3>4, BeginRegistryShutdownStep
    <3> QED BY <2>2, <3>1, <3>2, <3>3, <3>4 DEF RegistryStep
  <2>3. CASE Step(t) /\ UNCHANGED registryVars
    <3>1. ServiceInvariant' /\ (shutting_down => shutting_down') /\ (shutting_down' => pending' = <<>>)
      BY <2>3, ServiceStep DEF RegistryInvariant, InlineState
    <3> QED BY <2>3, <3>1, RegistryUntouched
  <2>4. CASE \E ok \in BOOLEAN : ShutdownNext(t, ok)
    BY <2>4, ShutdownNextStep
  <2>5. CASE ShutdownReturns(t)
    BY <2>5, ShutdownReturnsStep
  <2> QED BY <2>1, <2>2, <2>3, <2>4, <2>5
<1> QED BY <1>1, <1>2

\* The invariant of the registry accounts for every service.
LEMMA NoneIsForgotten ==
  ASSUME RegistryInvariant
  PROVE  NoServiceForgotten
<1> DEFINE held == {instance[k] : k \in Registered}
           waiting(t) == ToSet(shutdown[t].left)
           leaving == UNION {waiting(t) : t \in Threads}
<1>0. /\ ServiceInvariant /\ EntriesState /\ HeldState /\ WaitState /\ Accounted /\ InlineState
  BY DEF RegistryInvariant
<1>1. \A s : s \in held <=> \E k : HeldAt(k, s)
  BY DEF HeldAt
<1>2. ASSUME NEW t \in Threads, NEW s PROVE s \in waiting(t) <=> \E i : WaitsAt(t, i, s)
  <2>1. DOMAIN shutdown[t].left = 1..Len(shutdown[t].left)
    BY <1>0, CallFields
  <2> QED BY <2>1 DEF ToSet, WaitsAt
<1>3. \A s : s \in leaving <=> \E t \in Threads : s \in waiting(t)
  OBVIOUS
<1> HIDE DEF held, waiting, leaving
<1>4. \A s : s \in leaving <=> \E t, i : WaitsAt(t, i, s)
  BY <1>2, <1>3 DEF WaitsAt
<1>5. used \subseteq held \cup leaving \cup stopped \cup released
  BY <1>0, <1>1, <1>4 DEF Accounted
<1>6. (held \cup leaving) \cap (stopped \cup released) = {} /\ stopped \cap released = {}
  BY <1>0, <1>1, <1>4 DEF HeldState, WaitState, Accounted
<1>7. \A t, u \in Threads : t # u => waiting(t) \cap waiting(u) = {}
  BY <1>0, <1>2 DEF WaitState
<1>8. Inline \in stopped => shutting_down /\ pending = <<>>
  BY <1>0 DEF InlineState
<1> QED BY <1>5, <1>6, <1>7, <1>8 DEF NoServiceForgotten, held, waiting, leaving

-----------------------------------------------------------------------------
(***************************************************************************)
(* The theorems, about the service, the registry and every thread that     *)
(* uses them; MCSpec only adds bounds, a log and fairness.                 *)
(***************************************************************************)
LEMMA RegistryInvariantHolds == RegistrySpec => []RegistryInvariant
<1>1. RegistryInit => RegistryInvariant
  BY RegistryInitial
<1>2. RegistryInvariant /\ [RegistryNext]_allVars => RegistryInvariant'
  BY RegistryStepKeeps
<1> QED BY <1>1, <1>2, PTL DEF RegistrySpec

\* The specification that the runs check takes only steps of the registry and the service.
THEOREM CheckedSpecIsRegistry == MCSpec => RegistrySpec
<1>1. MCInit => RegistryInit
  BY DEF MCInit
<1>2. [MCNext]_mcVars => [RegistryNext]_allVars
  BY DEF MCNext, mcVars
<1> QED BY <1>1, <1>2, PTL DEF MCSpec, RegistrySpec

\* The members of InlineExecutionService keep their types, ConfigurePolicy never leaves a policy
\* without a worker, and every id of a called task was handed out by SubmitTask.
THEOREM ServiceTypeCorrect == RegistrySpec => []TypeOK
<1>1. RegistryInvariant => TypeOK
  BY ServiceTypes DEF RegistryInvariant
<1> QED BY <1>1, RegistryInvariantHolds, PTL

\* However threads submit, cancel, drain (from inside tasks too) and shut down, every accepted
\* task is queued, held by exactly one Drain call or final, and the metrics count exactly that.
THEOREM MetricsAlwaysAddUp == RegistrySpec => []MetricsAddUp
<1>1. RegistryInvariant => MetricsAddUp
  BY ServiceCounts DEF RegistryInvariant
<1> QED BY <1>1, RegistryInvariantHolds, PTL

\* No interleaving of Drain, Cancel and shutdown calls a task twice or calls a cancelled one.
THEOREM NoTaskRunsTwice == RegistrySpec => []TasksRunAtMostOnce
<1>1. RegistryInvariant => TasksRunAtMostOnce
  BY DEF RegistryInvariant, ServiceInvariant, StartedState, TasksRunAtMostOnce
<1> QED BY <1>1, RegistryInvariantHolds, PTL

\* A registered service is always in exactly one place: an entry, one shutdown loop, or the
\* services stopped or released; so none is forgotten or shut down twice.
THEOREM NoServiceIsForgotten == RegistrySpec => []NoServiceForgotten
<1>1. RegistryInvariant => NoServiceForgotten
  BY NoneIsForgotten
<1> QED BY <1>1, RegistryInvariantHolds, PTL

-----------------------------------------------------------------------------
(***************************************************************************)
(* The order of the shutdown.                                              *)
(***************************************************************************)
\* Before a shutdown the log lists the registered keys, and their sequence numbers grow
\* along it: no two entries share one, although a replacement keeps the old number.
LogInvariant ==
  phase # "Teardown" =>
    /\ log \in Seq(Keys) /\ ToSet(log) = Registered
    /\ \A i, j \in 1..Len(log) : i < j => entries[log[i]].sequence < entries[log[j]].sequence
    /\ \A i \in 1..Len(log) : entries[log[i]].sequence < registration_sequence

\* What the log is extended by: nothing, or one new key.
LEMMA NewKeys ==
  /\ SetToSeq({}) = <<>>
  /\ \A k : SetToSeq({k}) \in Seq({k}) /\ Len(SetToSeq({k})) = 1 /\ SetToSeq({k})[1] = k
<1>1. SetToSeq({}) = <<>>
  <2>1. Cardinality({}) = 0
    BY FS_EmptySet
  <2> DEFINE f == [i \in 1..0 |-> i]
  <2>2. f \in [1..0 -> {}] /\ IsInjective(f)
    BY DEF IsInjective
  <2>3. SetToSeq({}) \in [1..0 -> {}]
    BY <2>1, <2>2 DEF SetToSeq
  <2>4. SetToSeq({}) \in Seq({}) /\ Len(SetToSeq({})) = 0
    BY <2>3, SeqDef
  <2> QED BY <2>4
<1>2. ASSUME NEW k PROVE SetToSeq({k}) \in Seq({k}) /\ Len(SetToSeq({k})) = 1 /\ SetToSeq({k})[1] = k
  <2>1. Cardinality({k}) = 1
    BY FS_Singleton
  <2> DEFINE f == [i \in 1..1 |-> k]
  <2>2. f \in [1..1 -> {k}] /\ IsInjective(f)
    BY DEF IsInjective
  <2>3. SetToSeq({k}) \in [1..1 -> {k}]
    BY <2>1, <2>2 DEF SetToSeq
  <2> DEFINE r == SetToSeq({k})
  <2> HIDE DEF r
  <2>4. r \in [1..1 -> {k}] /\ DOMAIN r = 1..1 /\ r[1] = k
    BY <2>3 DEF r
  <2>5. r \in Seq({k})
    <3>1. Seq({k}) = UNION {[1..n -> {k}] : n \in Nat}
      BY SeqDef
    <3>2. 1 \in Nat
      OBVIOUS
    <3> QED BY <2>4, <3>1, <3>2, Zenon
  <2>6. Len(r) = 1
    BY <2>4, <2>5, LenProperties
  <2> QED BY <2>4, <2>5, <2>6 DEF r
<1> QED BY <1>1, <1>2

\* A step that registers no key leaves the log alone.
LEMMA LogKept ==
  ASSUME EntriesState, LogInvariant, phase # "Teardown", DOMAIN entries' = Registered,
         log' = IF entries' = NoEntries THEN <<>> ELSE log \o SetToSeq(DOMAIN entries' \ Registered)
  PROVE  log' = log
<1>1. log \in Seq(Keys) /\ ToSet(log) = Registered
  BY DEF LogInvariant
<1>2. CASE entries' = NoEntries
  <2>1. Registered = {}
    BY <1>2 DEF NoEntries
  <2>2. log = <<>>
    BY <1>1, <2>1 DEF ToSet
  <2> QED BY <1>2, <2>2
<1>3. CASE entries' # NoEntries
  <2>1. DOMAIN entries' \ Registered = {}
    OBVIOUS
  <2>2. log' = log \o <<>>
    BY <1>3, <2>1, NewKeys
  <2> QED BY <1>1, <2>2, ConcatEmptySeq
<1> QED BY <1>2, <1>3

\* The keys and numbers stay as they are.
LEMMA LogUntouched ==
  ASSUME EntriesState, LogInvariant, UNCHANGED <<entries, registration_sequence>>, phase' # "Teardown" => phase # "Teardown",
         log' = IF entries' = NoEntries THEN <<>> ELSE log \o SetToSeq(DOMAIN entries' \ Registered)
  PROVE  LogInvariant'
<1> SUFFICES ASSUME phase' # "Teardown" PROVE LogInvariant'
  BY DEF LogInvariant
<1>1. log' = log
  BY LogKept DEF Registered
<1> QED BY <1>1 DEF LogInvariant, Registered

\* A first registration is logged last and has the largest number; a replacement keeps both.
LEMMA LogRegister ==
  ASSUME EntriesState, LogInvariant, NEW k \in Keys, NEW o, NEW r, Register(k, o, r),
         log' = IF entries' = NoEntries THEN <<>> ELSE log \o SetToSeq(DOMAIN entries' \ Registered)
  PROVE  LogInvariant'
<1>1. /\ phase # "Teardown" /\ phase' # "Teardown" /\ registration_sequence \in Nat
      /\ log \in Seq(Keys) /\ ToSet(log) = Registered
      /\ \A i, j \in 1..Len(log) : i < j => entries[log[i]].sequence < entries[log[j]].sequence
      /\ \A i \in 1..Len(log) : entries[log[i]].sequence < registration_sequence
  BY DEF Register, CanRegister, LogInvariant, EntriesState
<1>2. /\ DOMAIN entries' = Registered \cup {k}
      /\ \A x \in Registered : x # k => entries'[x] = entries[x]
      /\ entries'[k].sequence = IF k \in Registered THEN entries[k].sequence ELSE registration_sequence
  BY DEF Register, WithEntry, Registered
<1>3. \A x \in Registered : entries'[x].sequence = entries[x].sequence
  BY <1>2
<1>4. \A i \in 1..Len(log) : log[i] \in Registered
  BY <1>1 DEF ToSet
<1>5. \A i \in 1..Len(log) : entries'[log[i]].sequence = entries[log[i]].sequence
  BY <1>3, <1>4
<1>6. CASE k \in Registered
  <2>1. DOMAIN entries' = Registered /\ registration_sequence' = registration_sequence
    BY <1>2, <1>6 DEF Register
  <2>2. log' = log
    BY <1>1, <2>1, LogKept
  <2> QED BY <1>1, <1>5, <2>1, <2>2 DEF LogInvariant, Registered
<1>7. CASE k \notin Registered
  <2> DEFINE one == SetToSeq({k})
  <2>1. /\ registration_sequence' = registration_sequence + 1
        /\ DOMAIN entries' \ Registered = {k} /\ entries' # NoEntries
        /\ entries'[k].sequence = registration_sequence
    BY <1>2, <1>7 DEF Register, NoEntries
  <2>2. one \in Seq(Keys) /\ Len(one) = 1 /\ one[1] = k
    <3>1. one \in Seq({k}) /\ Len(one) = 1 /\ one[1] = k
      BY NewKeys
    <3> QED BY <3>1
  <2>3. log' = log \o one
    BY <2>1
  <2> HIDE DEF one
  <2>4. /\ log' \in Seq(Keys) /\ Len(log') = Len(log) + 1 /\ Len(log) \in Nat
        /\ log'[Len(log) + 1] = k /\ \A i \in 1..Len(log) : log'[i] = log[i]
    <3> DEFINE all == log \o one
    <3>1. Len(log) \in Nat
      BY <1>1
    <3>2. /\ all \in Seq(Keys) /\ Len(all) = Len(log) + Len(one)
          /\ \A i \in 1..(Len(log) + Len(one)) : all[i] = IF i <= Len(log) THEN log[i] ELSE one[i - Len(log)]
      BY <1>1, <2>2, ConcatProperties
    <3> HIDE DEF all
    <3>3. Len(log) + 1 \in 1..(Len(log) + 1) /\ ~(Len(log) + 1 <= Len(log)) /\ (Len(log) + 1) - Len(log) = 1
      BY <3>1
    <3>4. \A i \in 1..Len(log) : i \in 1..(Len(log) + 1) /\ i <= Len(log)
      BY <3>1
    <3>5. all[Len(log) + 1] = k /\ \A i \in 1..Len(log) : all[i] = log[i]
      BY <2>2, <3>2, <3>3, <3>4
    <3> QED BY <2>2, <2>3, <3>1, <3>2, <3>5 DEF all
  <2>5. 1..Len(log') = (1..Len(log)) \cup {Len(log) + 1} /\ DOMAIN log' = 1..Len(log') /\ DOMAIN log = 1..Len(log)
    BY <1>1, <2>4
  <2>6. ToSet(log') = DOMAIN entries'
    BY <1>1, <1>2, <2>4, <2>5 DEF ToSet
  <2>7. \A i \in 1..Len(log) : entries'[log'[i]].sequence < registration_sequence
    BY <1>1, <1>5, <2>4
  <2>8. \A i, j \in 1..Len(log) : i < j => entries'[log'[i]].sequence < entries'[log'[j]].sequence
    BY <1>1, <1>5, <2>4
  <2>9. entries'[log'[Len(log) + 1]].sequence = registration_sequence
    BY <2>1, <2>4
  <2>10. \A i, j \in 1..Len(log') : i < j => entries'[log'[i]].sequence < entries'[log'[j]].sequence
    <3> SUFFICES ASSUME NEW i \in 1..Len(log'), NEW j \in 1..Len(log'), i < j
                 PROVE  entries'[log'[i]].sequence < entries'[log'[j]].sequence
      OBVIOUS
    <3>1. i \in 1..Len(log)
      BY <2>4
    <3>2. CASE j \in 1..Len(log)
      BY <2>8, <3>1, <3>2
    <3>3. CASE j = Len(log) + 1
      BY <2>7, <2>9, <3>1, <3>3
    <3> QED BY <2>5, <3>2, <3>3
  <2>11. \A i \in 1..Len(log') : entries'[log'[i]].sequence < registration_sequence'
    <3> SUFFICES ASSUME NEW i \in 1..Len(log') PROVE entries'[log'[i]].sequence < registration_sequence'
      OBVIOUS
    <3>0. \A m \in 1..Len(log) : entries[log[m]].sequence \in Nat
      BY <1>4 DEF EntriesState
    <3>1. CASE i \in 1..Len(log)
      BY <1>1, <1>5, <2>1, <2>4, <2>7, <3>0, <3>1
    <3>2. CASE i = Len(log) + 1
      <4>1. entries'[log'[i]].sequence = registration_sequence
        BY <2>9, <3>2
      <4> QED BY <1>1, <2>1, <4>1
    <3> QED BY <2>5, <3>1, <3>2
  <2> QED BY <2>4, <2>6, <2>10, <2>11 DEF LogInvariant, Registered
<1> QED BY <1>6, <1>7

\* Every step keeps log and numbers in agreement.
LEMMA LogStep ==
  ASSUME RegistryInvariant, LogInvariant, [MCNext]_mcVars
  PROVE  LogInvariant'
<1>1. CASE UNCHANGED mcVars
  BY <1>1 DEF mcVars, allVars, registryVars, contextVars, LogInvariant, Registered
<1>2. CASE MCNext
  <2>1. EntriesState /\ log' = IF entries' = NoEntries THEN <<>> ELSE log \o SetToSeq(DOMAIN entries' \ Registered)
    BY <1>2 DEF MCNext, RegistryInvariant
  <2>2. ASSUME UNCHANGED contextVars PROVE LogInvariant'
    BY <2>1, <2>2, LogUntouched DEF contextVars
  <2>3. PICK t \in Threads :
          \/ InClient(t) /\ RegistryStep(t)
          \/ ~shutdown[t].active /\ Step(t) /\ UNCHANGED registryVars
          \/ \E ok \in BOOLEAN : ShutdownNext(t, ok)
          \/ ShutdownReturns(t)
    BY <1>2 DEF MCNext, RegistryNext
  <2>4. ASSUME NEW k \in Keys, NEW s \in Services, NEW o \in Ownerships, NEW r \in BOOLEAN,
               RegisterService(k, s, o, r)
        PROVE  LogInvariant'
    BY <2>1, <2>4, LogRegister DEF RegisterService
  <2>5. CASE FreezeRegistry
    BY <2>1, <2>5, LogUntouched DEF FreezeRegistry, Freeze
  <2>6. CASE ResetRegistry
    <3>1. entries' = NoEntries /\ log' = <<>> /\ DOMAIN entries' = {}
      BY <2>1, <2>6 DEF ResetRegistry, ResetForNextStartCycle, NoEntries
    <3> QED BY <3>1 DEF LogInvariant, Registered, ToSet
  <2>7. CASE BeginRegistryShutdown(t)
    BY <2>7 DEF BeginRegistryShutdown, BeginTeardown, LogInvariant
  <2>8. CASE RegistryStep(t)
    BY <2>4, <2>5, <2>6, <2>7, <2>8 DEF RegistryStep
  <2>9. CASE ~RegistryStep(t)
    BY <2>2, <2>3, <2>9 DEF registryVars, ShutdownNext, ShutdownReturns
  <2> QED BY <2>8, <2>9
<1> QED BY <1>1, <1>2

\* BeginShutdown records the context-owned services in the reverse of the order in which
\* their keys were first registered, whatever was replaced in between.
THEOREM TeardownAlwaysReversesRegistration == MCSpec => TeardownReversesRegistration
<1> DEFINE o == last_teardown_order'
           Reversed == /\ \A k \in Owned : \E i \in DOMAIN o : o[i] = k
                       /\ \A i \in DOMAIN o : o[i] \in Owned
                       /\ \A i, j \in DOMAIN o : i < j =>
                            \E m, n \in DOMAIN log : n < m /\ log[m] = o[i] /\ log[n] = o[j]
<1>1. ASSUME RegistryInvariant, LogInvariant, MCNext, phase # "Teardown", phase' = "Teardown"
      PROVE  Reversed
  <2>1. PICK t \in Threads : BeginRegistryShutdown(t)
    BY <1>1 DEF MCNext, RegistryNext, RegistryStep, RegisterService, Register, FreezeRegistry, Freeze, ResetRegistry,
                ResetForNextStartCycle, registryVars, contextVars, ShutdownNext, ShutdownReturns
  <2>2. EntriesState /\ BeginTeardown
    BY <1>1, <2>1 DEF RegistryInvariant, BeginRegistryShutdown
  <2> DEFINE c == Cardinality(Owned)
  <2>3. /\ o \in [1..c -> Owned] /\ DOMAIN o = 1..c
        /\ \A k \in Owned : \E i \in 1..c : o[i] = k
    BY <2>2, TeardownOrder
  <2>4. \A i, j \in 1..c : i < j => entries[o[i]].sequence > entries[o[j]].sequence
    BY <2>2, <2>3 DEF BeginTeardown, IsDescending
  <2>5. /\ log \in Seq(Keys) /\ ToSet(log) = Registered /\ DOMAIN log = 1..Len(log) /\ Len(log) \in Nat
        /\ \A i, j \in 1..Len(log) : i < j => entries[log[i]].sequence < entries[log[j]].sequence
    BY <1>1 DEF LogInvariant
  <2>6. \A k \in Registered : entries[k].sequence \in Nat
    BY <2>2 DEF EntriesState
  <2>7. \A k \in Owned : k \in Registered
    BY DEF Owned
  <2>8. \A k \in Registered : \E m \in 1..Len(log) : log[m] = k
    BY <2>5 DEF ToSet
  <2> HIDE DEF o, c
  <2>9. ASSUME NEW i \in 1..c, NEW j \in 1..c, i < j
        PROVE  \E m, n \in 1..Len(log) : n < m /\ log[m] = o[i] /\ log[n] = o[j]
    <3>1. o[i] \in Registered /\ o[j] \in Registered
      BY <2>3, <2>7
    <3>2. PICK m \in 1..Len(log) : log[m] = o[i]
      BY <2>8, <3>1
    <3>3. PICK n \in 1..Len(log) : log[n] = o[j]
      BY <2>8, <3>1
    <3>4. entries[log[n]].sequence < entries[log[m]].sequence
      BY <2>4, <2>6, <2>9, <3>1, <3>2, <3>3
    <3>5. ~(m < n) /\ m # n
      BY <2>5, <2>6, <3>1, <3>2, <3>3, <3>4
    <3> QED BY <2>5, <3>2, <3>3, <3>5
  <2>10. \A i \in DOMAIN o : o[i] \in Owned
    BY <2>3
  <2> QED BY <2>3, <2>5, <2>9, <2>10
<1>2. RegistryInvariant /\ LogInvariant /\ [MCNext]_mcVars =>
        [phase # "Teardown" /\ phase' = "Teardown" => Reversed]_mcVars
  BY <1>1
<1>3. MCInit => LogInvariant
  BY DEF MCInit, RegistryInit, ContextInit, NoEntries, LogInvariant, Registered, ToSet
<1>4. RegistryInvariant /\ LogInvariant /\ [MCNext]_mcVars => LogInvariant'
  BY LogStep
<1>5. MCSpec => []RegistryInvariant
  BY CheckedSpecIsRegistry, RegistryInvariantHolds, PTL
<1> QED BY <1>2, <1>3, <1>4, <1>5, PTL DEF MCSpec, TeardownReversesRegistration
=============================================================================
