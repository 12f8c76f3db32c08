------------------------------ MODULE EventBus ------------------------------
(***************************************************************************)
(* framekit::runtime::EventBus.  Every operation that touches the handler  *)
(* table or the three deferred queues runs under the bus mutex and is one  *)
(* step; handlers run outside it, so a dispatch is a sequence of steps     *)
(* that interleave with the other threads and with what the handler itself *)
(* calls back.  A thread is the stack of its DispatchImmediate and         *)
(* DrainDeferred calls: client code runs when the stack is empty or when   *)
(* the call on top is inside a handler.                                    *)
(*                                                                         *)
(* next_handler_id_ and next_handler_sequence_ start at the same value and *)
(* advance together under the mutex, so one counter stands for both.       *)
(***************************************************************************)
EXTENDS Naturals, Sequences, FiniteSets, SequencesExt, Subsequences

CONSTANTS
  Threads,         \* threads that share the bus
  Types,           \* event types
  Policies,        \* arguments of SetDeferredOverflowPolicy
  Capacities,      \* arguments of SetDeferredCapacity, and the initial capacity
  Limits,          \* arguments of DrainDeferred
  MaxHandlers,     \* bound on Subscribe calls
  MaxSequence,     \* bound on accepted deferred events
  MaxDepth         \* bound on nested dispatch calls of one thread

OverflowPolicies == {"DropNewest", "FailFast", "BackpressureSignaling"}

ASSUME PoliciesAssumption == Policies \subseteq OverflowPolicies
ASSUME NumbersAssumption ==
  /\ Capacities \subseteq Nat /\ Capacities # {} /\ Limits \subseteq Nat
  /\ MaxHandlers \in Nat /\ MaxSequence \in Nat /\ MaxDepth \in Nat

VARIABLES
  handlers,        \* type -> sequence of subscriptions
  next_handler_id,
  queue,           \* priority class -> sequence of deferred events
  next_sequence,   \* next_deferred_sequence_
  capacity, overflow_policy,
  dropped,         \* dropped_deferred_count_
  stack,           \* thread -> its calls, innermost first
  delivered,       \* history: the deferred events in the order their dispatch began
  overlapped,      \* history: has a drain begun while another had events to dispatch?
  discarded, lost  \* history: sequence numbers dropped by DiscardDeferred / by a throw

settings == <<capacity, overflow_policy>>
table    == <<handlers, next_handler_id>>
deferred == <<queue, next_sequence, dropped>>
history  == <<delivered, overlapped, discarded, lost>>
vars == <<table, deferred, settings, stack, history>>

Priorities == {"High", "Normal", "Low"}
Subscriptions == [id : Nat, monitor : BOOLEAN]
Events == [type : Types, priority : Priorities, sequence : Nat]
Immediate(type) == [type |-> type, priority |-> "Normal", sequence |-> 0]

\* A call of DispatchImmediate (a batch of one) or of DrainDeferred.  `running`
\* holds the handler being executed, `consumers` (history) the non-monitor handlers
\* that consumed the current event.
Calls == [batch : Seq(Events), dispatching : BOOLEAN, pending : Seq(Subscriptions),
          running : Seq(Subscriptions), consumed : BOOLEAN, consumed_before : BOOLEAN,
          consumers : SUBSET Nat]
Call(events) ==
  [batch |-> events, dispatching |-> FALSE, pending |-> <<>>, running |-> <<>>,
   consumed |-> FALSE, consumed_before |-> FALSE, consumers |-> {}]

Init ==
  /\ handlers = [t \in Types |-> <<>>] /\ next_handler_id = 1
  /\ queue = [p \in Priorities |-> <<>>] /\ next_sequence = 1 /\ dropped = 0
  /\ capacity \in Capacities /\ overflow_policy = "DropNewest"
  /\ stack = [t \in Threads |-> <<>>]
  /\ delivered = <<>> /\ overlapped = FALSE /\ discarded = {} /\ lost = {}

Top(t) == Head(stack[t])
ReplaceTop(t, call) == stack' = [stack EXCEPT ![t] = <<call>> \o Tail(@)]
Push(t, events) == stack' = [stack EXCEPT ![t] = <<Call(events)>> \o @]
Pop(t) == stack' = [stack EXCEPT ![t] = Tail(@)]

InHandler(t) == stack[t] # <<>> /\ Top(t).running # <<>>
ClientRuns(t) == stack[t] = <<>> \/ InHandler(t)

\* Sequence numbers of the deferred events of a sequence of events.
Numbers(events) == {e.sequence : e \in ToSet(events)} \ {0}
\* What each call in progress has still to dispatch.
InFlight == UNION {{stack[t][c].batch : c \in DOMAIN stack[t]} : t \in Threads}

-----------------------------------------------------------------------------
(***************************************************************************)
(* Operations under the mutex.                                             *)
(***************************************************************************)
Subscribe(t, type, monitor) ==
  /\ ClientRuns(t)
  /\ next_handler_id <= MaxHandlers
  /\ handlers' = [handlers EXCEPT ![type] =
                    Append(@, [id |-> next_handler_id, monitor |-> monitor])]
  /\ next_handler_id' = next_handler_id + 1
  /\ UNCHANGED <<deferred, settings, stack, history>>

Unsubscribe(t, type, id) ==
  /\ ClientRuns(t)
  /\ \E i \in DOMAIN handlers[type] : handlers[type][i].id = id
  /\ handlers' = [handlers EXCEPT ![type] = Keep(@, {h \in ToSet(@) : h.id # id})]
  /\ UNCHANGED <<next_handler_id, deferred, settings, stack, history>>

DeferredCount == Len(queue["High"]) + Len(queue["Normal"]) + Len(queue["Low"])
IsQueueFull == DeferredCount >= capacity

\* PushDeferred: the event is queued in its class.
EnqueueDeferred(t, type, priority) ==
  /\ ClientRuns(t)
  /\ next_sequence <= MaxSequence
  /\ ~IsQueueFull
  /\ queue' = [queue EXCEPT ![priority] =
                 Append(@, [type |-> type, priority |-> priority, sequence |-> next_sequence])]
  /\ next_sequence' = next_sequence + 1
  /\ UNCHANGED <<dropped, table, settings, stack, history>>

\* PushDeferred on a full queue: the call returns false or throws to its caller;
\* only kDropNewest records anything.
EnqueueRefused(t) ==
  /\ ClientRuns(t)
  /\ IsQueueFull
  /\ overflow_policy = "DropNewest"
  /\ dropped < MaxSequence
  /\ dropped' = dropped + 1
  /\ UNCHANGED <<queue, next_sequence, table, settings, stack, history>>

DiscardDeferred(t) ==
  /\ ClientRuns(t)
  /\ discarded' = discarded \cup (UNION {Numbers(queue[p]) : p \in Priorities})
  /\ queue' = [p \in Priorities |-> <<>>]
  /\ UNCHANGED <<next_sequence, dropped, table, settings, stack, delivered, overlapped, lost>>

SetDeferredCapacity(t, n) ==
  /\ ClientRuns(t)
  /\ capacity' = n
  /\ UNCHANGED <<overflow_policy, table, deferred, stack, history>>

SetDeferredOverflowPolicy(t, policy) ==
  /\ ClientRuns(t)
  /\ overflow_policy' = policy
  /\ UNCHANGED <<capacity, table, deferred, stack, history>>

-----------------------------------------------------------------------------
(***************************************************************************)
(* DrainDeferred: the batch is popped under the mutex, one event of each   *)
(* class per round, and dispatched after the mutex is released.            *)
(***************************************************************************)
ClassOrder == <<"High", "Normal", "Low">>

\* The while loop asks one class after the other for its next event.  Of those visits,
\* numbered from 1, these meet a class that has not run out.
ClassAt(visit) == ClassOrder[((visit - 1) % 3) + 1]
RoundAt(visit) == ((visit - 1) \div 3) + 1
Visits == {v \in 1..(3 * DeferredCount) : RoundAt(v) <= Len(queue[ClassAt(v)])}

\* Wrong version of EventAt: every class is popped from its back.
EventAtBack(visit) ==
  queue[ClassAt(visit)][(Len(queue[ClassAt(visit)]) + 1) - RoundAt(visit)]

EventAt(visit) == queue[ClassAt(visit)][RoundAt(visit)]

\* The limit cuts the batch wherever it is reached.
Popped(max_events) ==
  [k \in 1..Min({Cardinality(Visits), max_events}) |-> EventAt(Place(Visits, k))]

\* Wrong version of Remaining: copied events are not erased.
RemainingUnerased(batch) == queue

Remaining(batch) == [p \in Priorities |-> Keep(queue[p], ToSet(queue[p]) \ ToSet(batch))]

DrainDeferred(t, max_events) ==
  /\ ClientRuns(t)
  /\ Len(stack[t]) < MaxDepth
  /\ Push(t, Popped(max_events))
  /\ queue' = Remaining(Popped(max_events))
  /\ overlapped' = (overlapped \/ \E batch \in InFlight : Numbers(batch) # {})
  /\ UNCHANGED <<next_sequence, dropped, table, settings, delivered, discarded, lost>>

-----------------------------------------------------------------------------
(***************************************************************************)
(* DispatchImmediate, called by client code or by DrainDeferred.           *)
(***************************************************************************)
DispatchImmediate(t, type) ==
  /\ ClientRuns(t)
  /\ Len(stack[t]) < MaxDepth
  /\ Push(t, <<Immediate(type)>>)
  /\ UNCHANGED <<table, deferred, settings, history>>

\* The handler of that type with the k-th smallest id.
HandlerIds(type) == {h.id : h \in ToSet(handlers[type])}
HandlerAt(type, k) == CHOOSE h \in ToSet(handlers[type]) : h.id = Place(HandlerIds(type), k)

\* Wrong version of SnapshotHandlers: the latest subscription comes first.
SnapshotLatestFirst(type) ==
  LET n == Cardinality(HandlerIds(type)) IN [k \in 1..n |-> HandlerAt(type, (n + 1) - k)]

\* The copied handlers are sorted in the order of their registration.
SnapshotHandlers(type) == [k \in 1..Cardinality(HandlerIds(type)) |-> HandlerAt(type, k)]

\* The handler list is copied under the mutex; the event leaves the batch.
BeginDispatch(t) ==
  /\ stack[t] # <<>>
  /\ ~Top(t).dispatching /\ Top(t).batch # <<>>
  /\ LET event == Head(Top(t).batch)
     IN /\ ReplaceTop(t, [Call(Tail(Top(t).batch)) EXCEPT
                            !.dispatching = TRUE, !.pending = SnapshotHandlers(event.type)])
        /\ delivered' = IF event.sequence > 0 THEN Append(delivered, event) ELSE delivered
  /\ UNCHANGED <<table, deferred, settings, overlapped, discarded, lost>>

\* The loop over the copied handlers: a consumed event skips everything but monitors.
NextHandler(t) ==
  /\ stack[t] # <<>>
  /\ Top(t).dispatching /\ Top(t).running = <<>> /\ Top(t).pending # <<>>
  /\ LET call == Top(t)
         entry == Head(call.pending)
     IN ReplaceTop(t,
          IF call.consumed /\ ~entry.monitor
          THEN [call EXCEPT !.pending = Tail(@)]
          ELSE [call EXCEPT !.pending = Tail(@), !.running = <<entry>>,
                            !.consumed_before = call.consumed])
  /\ UNCHANGED <<table, deferred, settings, history>>

\* The handler calls EventContext::Consume.
Consume(t) ==
  /\ InHandler(t)
  /\ LET entry == Head(Top(t).running)
     IN ReplaceTop(t, [Top(t) EXCEPT
          !.consumed = TRUE, !.consumers = IF entry.monitor THEN @ ELSE @ \cup {entry.id}])
  /\ UNCHANGED <<table, deferred, settings, history>>

\* Wrong version of HandlerReturns: a monitor's Consume sticks.
HandlerReturnsUnrestored(t) ==
  /\ InHandler(t)
  /\ ReplaceTop(t, [Top(t) EXCEPT !.running = <<>>])
  /\ UNCHANGED <<table, deferred, settings, history>>

\* A monitor's effect on the consumed flag is undone.
HandlerReturns(t) ==
  /\ InHandler(t)
  /\ LET entry == Head(Top(t).running)
     IN ReplaceTop(t, [Top(t) EXCEPT
          !.running = <<>>, !.consumed = IF entry.monitor THEN Top(t).consumed_before ELSE @])
  /\ UNCHANGED <<table, deferred, settings, history>>

\* An exception leaves DispatchImmediate and the DrainDeferred loop around it: the
\* rest of the popped batch is destroyed with the call.
HandlerThrows(t) ==
  /\ InHandler(t)
  /\ lost' = lost \cup Numbers(Top(t).batch)
  /\ Pop(t)
  /\ UNCHANGED <<table, deferred, settings, delivered, overlapped, discarded>>

EndDispatch(t) ==
  /\ stack[t] # <<>>
  /\ Top(t).dispatching /\ Top(t).running = <<>> /\ Top(t).pending = <<>>
  /\ ReplaceTop(t, Call(Top(t).batch))
  /\ UNCHANGED <<table, deferred, settings, history>>

CallReturns(t) ==
  /\ stack[t] # <<>>
  /\ ~Top(t).dispatching /\ Top(t).batch = <<>>
  /\ Pop(t)
  /\ UNCHANGED <<table, deferred, settings, history>>

Next ==
  \E t \in Threads :
    \/ \E type \in Types, monitor \in BOOLEAN : Subscribe(t, type, monitor)
    \/ \E type \in Types, id \in 1..MaxHandlers : Unsubscribe(t, type, id)
    \/ \E type \in Types, priority \in Priorities : EnqueueDeferred(t, type, priority)
    \/ EnqueueRefused(t)
    \/ DiscardDeferred(t)
    \/ \E n \in Capacities : SetDeferredCapacity(t, n)
    \/ \E policy \in Policies : SetDeferredOverflowPolicy(t, policy)
    \/ \E n \in Limits : DrainDeferred(t, n)
    \/ \E type \in Types : DispatchImmediate(t, type)
    \/ BeginDispatch(t) \/ NextHandler(t) \/ Consume(t)
    \/ HandlerReturns(t) \/ HandlerThrows(t) \/ EndDispatch(t) \/ CallReturns(t)

Spec == Init /\ [][Next]_vars

-----------------------------------------------------------------------------
(***************************************************************************)
(* Properties.                                                             *)
(***************************************************************************)
\* The members have their types, at every point of every dispatch.
TypeOK ==
  /\ handlers \in [Types -> Seq(Subscriptions)] /\ next_handler_id \in Nat
  /\ queue \in [Priorities -> Seq(Events)] /\ next_sequence \in Nat /\ dropped \in Nat
  /\ capacity \in Capacities /\ overflow_policy \in OverflowPolicies
  /\ stack \in [Threads -> Seq(Calls)]
  /\ delivered \in Seq(Events) /\ overlapped \in BOOLEAN /\ discarded \subseteq Nat /\ lost \subseteq Nat

\* Where event number n is: its positions in the queues, in the batches of the calls in
\* progress and among the dispatched events, and the two ways for it to be dropped.
At(events, n) == {i \in DOMAIN events : events[i].sequence = n}
Whereabouts(n) ==
  (UNION {{<<"queue", p, i>> : i \in At(queue[p], n)} : p \in Priorities})
    \cup (UNION {UNION {{<<"batch", t, c, i>> : i \in At(stack[t][c].batch, n)} :
                        c \in DOMAIN stack[t]} : t \in Threads})
    \cup {<<"dispatched", i>> : i \in At(delivered, n)}
    \cup (IF n \in discarded THEN {<<"discarded">>} ELSE {})
    \cup (IF n \in lost THEN {<<"lost">>} ELSE {})

\* Whatever the threads, handlers and exceptions do, an accepted event is in
\* exactly one place: queued, in one drain's batch, dispatched, discarded or lost
\* to a throwing handler.  DrainDeferred neither duplicates nor drops events.
EveryEventAccountedFor ==
  /\ \A n \in 1..(next_sequence - 1) : \E place \in Whereabouts(n) : Whereabouts(n) = {place}
  /\ \A n \in next_sequence..MaxSequence : Whereabouts(n) = {}

\* Between two handlers the event is marked consumed exactly when a handler that
\* is not a monitor consumed it, and such a handler runs only while it is not
\* (monitors observe consumed events without mutating the consume state).
MonitorsOnlyObserve ==
  \A t \in Threads : \A i \in DOMAIN stack[t] :
    LET call == stack[t][i]
    IN /\ call.running = <<>> => (call.consumed <=> call.consumers # {})
       /\ \A entry \in ToSet(call.running) :
            ~entry.monitor => call.consumers \subseteq {entry.id}

\* Every dispatch calls its handlers in registration order, whatever was
\* subscribed or unsubscribed before or since it copied them.
HandlersInRegistrationOrder ==
  \A t \in Threads : \A i \in DOMAIN stack[t] :
    LET all == stack[t][i].running \o stack[t][i].pending
    IN \A j, k \in DOMAIN all : j < k => all[j].id < all[k].id

\* Deferred events of a class are dispatched in the order in which they were
\* enqueued (Within each class, events drain in FIFO enqueue order), as long as no
\* drain begins while another one, on any thread or further down the stack, still
\* has events to dispatch.
DeliveryIsFifo ==
  ~overlapped =>
    \A i, j \in DOMAIN delivered :
      i < j /\ delivered[i].priority = delivered[j].priority =>
        delivered[i].sequence < delivered[j].sequence

Rank == [High |-> 1, Normal |-> 2, Low |-> 3]

\* Higher priority classes drain before lower classes.
HigherClassesDrainFirst ==
  \A t \in Threads : \A c \in DOMAIN stack[t] : \A i, j \in DOMAIN stack[t][c].batch :
    i < j => Rank[stack[t][c].batch[i].priority] <= Rank[stack[t][c].batch[j].priority]
=============================================================================
