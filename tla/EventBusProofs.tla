--------------------------- MODULE EventBusProofs ---------------------------
(***************************************************************************)
(* Proofs about EventBus, for every number of threads, handlers, events    *)
(* and nested calls, and whatever handlers do and threads interleave.      *)
(***************************************************************************)
EXTENDS EventBus, OperatorLemmas

-----------------------------------------------------------------------------
(***************************************************************************)
(* The calls in progress.                                                  *)
(***************************************************************************)
\* What DispatchImmediate keeps true of its local variables between two steps.
ConsumeState(call) ==
  /\ Len(call.running) <= 1
  /\ call.running = <<>> => (call.consumed <=> call.consumers # {})
  /\ call.running # <<>> =>
       IF call.running[1].monitor THEN call.consumed_before <=> call.consumers # {}
       ELSE /\ call.consumed <=> call.consumers # {}
            /\ call.consumers \subseteq {call.running[1].id}

\* The handlers still to be called come in registration order, after the one running.
PendingState(call) ==
  /\ \A j, k \in 1..Len(call.pending) : j < k => call.pending[j].id < call.pending[k].id
  /\ call.running # <<>> => \A k \in 1..Len(call.pending) : call.running[1].id < call.pending[k].id

CallState == \A t \in Threads : \A c \in 1..Len(stack[t]) :
               ConsumeState(stack[t][c]) /\ PendingState(stack[t][c])

BusShape == stack \in [Threads -> Seq(Calls)] /\ handlers \in [Types -> Seq(Subscriptions)]

\* A call is entered.
LEMMA PushFacts ==
  ASSUME BusShape, NEW t \in Threads, NEW events \in Seq(Events), Push(t, events)
  PROVE  /\ stack' \in [Threads -> Seq(Calls)]
         /\ \A u \in Threads : u # t => stack'[u] = stack[u]
         /\ Len(stack'[t]) = Len(stack[t]) + 1 /\ Len(stack[t]) \in Nat
         /\ stack'[t][1] = Call(events)
         /\ \A c \in 1..Len(stack[t]) : stack'[t][c + 1] = stack[t][c]
<1>1. Call(events) \in Calls
  <2>1. <<>> \in Seq(Subscriptions) /\ {} \in SUBSET Nat
    OBVIOUS
  <2> QED BY <2>1 DEF Call, Calls
<1>2. stack[t] \in Seq(Calls)
  BY DEF BusShape
<1> DEFINE new == <<Call(events)>> \o stack[t]
<1>3. stack' = [stack EXCEPT ![t] = new]
  BY DEF Push
<1>4. /\ new \in Seq(Calls) /\ Len(new) = Len(stack[t]) + 1 /\ Len(stack[t]) \in Nat
      /\ new[1] = Call(events) /\ \A i \in 2..(Len(stack[t]) + 1) : new[i] = stack[t][i - 1]
  <2> HIDE DEF new
  <2> QED BY <1>1, <1>2, ConsFacts DEF new
<1> HIDE DEF new
<1>5. stack' \in [Threads -> Seq(Calls)] /\ stack'[t] = new /\ \A u \in Threads : u # t => stack'[u] = stack[u]
  BY <1>3, <1>4 DEF BusShape
<1>6. \A c \in 1..Len(stack[t]) : new[c + 1] = stack[t][c]
  <2> SUFFICES ASSUME NEW c \in 1..Len(stack[t]) PROVE new[c + 1] = stack[t][c]
    OBVIOUS
  <2>1. c + 1 \in 2..(Len(stack[t]) + 1) /\ (c + 1) - 1 = c
    BY <1>4
  <2> QED BY <1>4, <2>1
<1> QED BY <1>4, <1>5, <1>6

\* The innermost call goes on.
LEMMA ReplaceFacts ==
  ASSUME BusShape, NEW t \in Threads, stack[t] # <<>>, NEW call \in Calls, ReplaceTop(t, call)
  PROVE  /\ stack' \in [Threads -> Seq(Calls)]
         /\ \A u \in Threads : u # t => stack'[u] = stack[u]
         /\ Len(stack'[t]) = Len(stack[t]) /\ Len(stack[t]) \in Nat \ {0}
         /\ stack'[t][1] = call
         /\ \A c \in 2..Len(stack[t]) : stack'[t][c] = stack[t][c]
<1>1. stack[t] \in Seq(Calls)
  BY DEF BusShape
<1>2. /\ Tail(stack[t]) \in Seq(Calls) /\ Len(Tail(stack[t])) = Len(stack[t]) - 1
      /\ Len(stack[t]) \in Nat \ {0}
      /\ \A i \in 1..(Len(stack[t]) - 1) : Tail(stack[t])[i] = stack[t][i + 1]
  BY <1>1, TailFacts
<1> DEFINE rest == Tail(stack[t])
           new == <<call>> \o rest
<1>3. stack' = [stack EXCEPT ![t] = new]
  BY DEF ReplaceTop
<1> HIDE DEF rest
<1>4. /\ new \in Seq(Calls) /\ Len(new) = Len(rest) + 1
      /\ new[1] = call /\ \A i \in 2..(Len(rest) + 1) : new[i] = rest[i - 1]
  <2>1. rest \in Seq(Calls)
    BY <1>2 DEF rest
  <2> QED BY <2>1, ConsFacts
<1> HIDE DEF new
<1>5. stack' \in [Threads -> Seq(Calls)] /\ stack'[t] = new /\ \A u \in Threads : u # t => stack'[u] = stack[u]
  BY <1>3, <1>4 DEF BusShape
<1>6. Len(new) = Len(stack[t])
  BY <1>2, <1>4 DEF rest
<1>7. \A c \in 2..Len(stack[t]) : new[c] = stack[t][c]
  <2> SUFFICES ASSUME NEW c \in 2..Len(stack[t]) PROVE new[c] = stack[t][c]
    OBVIOUS
  <2>1. c - 1 \in 1..(Len(stack[t]) - 1) /\ (c - 1) + 1 = c /\ c \in 2..(Len(rest) + 1)
    BY <1>2 DEF rest
  <2>2. rest[c - 1] = stack[t][c]
    BY <1>2, <2>1 DEF rest
  <2> QED BY <1>4, <2>1, <2>2
<1> QED BY <1>2, <1>4, <1>5, <1>6, <1>7

\* The innermost call returns or is left by an exception.
LEMMA PopFacts ==
  ASSUME BusShape, NEW t \in Threads, stack[t] # <<>>, Pop(t)
  PROVE  /\ stack' \in [Threads -> Seq(Calls)]
         /\ \A u \in Threads : u # t => stack'[u] = stack[u]
         /\ Len(stack'[t]) = Len(stack[t]) - 1 /\ Len(stack[t]) \in Nat \ {0}
         /\ \A c \in 1..(Len(stack[t]) - 1) : stack'[t][c] = stack[t][c + 1]
<1>1. stack[t] \in Seq(Calls)
  BY DEF BusShape
<1>2. /\ Tail(stack[t]) \in Seq(Calls) /\ Len(Tail(stack[t])) = Len(stack[t]) - 1
      /\ Len(stack[t]) \in Nat \ {0}
      /\ \A i \in 1..(Len(stack[t]) - 1) : Tail(stack[t])[i] = stack[t][i + 1]
  BY <1>1, TailFacts
<1> DEFINE rest == Tail(stack[t])
<1>3. stack' = [stack EXCEPT ![t] = rest]
  BY DEF Pop
<1>4. rest \in Seq(Calls)
  BY <1>2
<1> HIDE DEF rest
<1>5. stack' \in [Threads -> Seq(Calls)] /\ stack'[t] = rest /\ \A u \in Threads : u # t => stack'[u] = stack[u]
  BY <1>3, <1>4 DEF BusShape
<1> QED BY <1>2, <1>5 DEF rest

\* The call on top of a stack has the type of a call.
LEMMA TopFacts ==
  ASSUME BusShape, NEW t \in Threads, stack[t] # <<>>
  PROVE  Top(t) \in Calls /\ Top(t) = stack[t][1] /\ 1 \in 1..Len(stack[t])
<1>1. stack[t] \in Seq(Calls)
  BY DEF BusShape
<1>2. Head(stack[t]) \in Calls /\ Head(stack[t]) = stack[t][1] /\ Len(stack[t]) \in Nat \ {0}
  BY <1>1, TailFacts
<1> QED BY <1>2 DEF Top

-----------------------------------------------------------------------------
\* The copied handlers have the type of handlers and increasing ids.
LEMMA SnapshotFacts ==
  ASSUME BusShape, NEW type \in Types
  PROVE  LET copy == SnapshotHandlers(type)
         IN copy \in Seq(Subscriptions) /\ \A j, k \in 1..Len(copy) : j < k => copy[j].id < copy[k].id
<1> DEFINE list == handlers[type]
           ids == HandlerIds(type)
           n == Cardinality(ids)
           copy == SnapshotHandlers(type)
<1>1. list \in Seq(Subscriptions) /\ Len(list) \in Nat /\ DOMAIN list = 1..Len(list)
  BY DEF BusShape
<1>2. ToSet(list) = {list[i] : i \in DOMAIN list}
  BY DEF ToSet
<1>3. \A h \in ToSet(list) : h \in Subscriptions
  BY <1>1, <1>2
<1>4. ids = {h.id : h \in ToSet(list)}
  BY DEF HandlerIds
<1>5. ids \in SUBSET Nat
  BY <1>3, <1>4 DEF Subscriptions
<1>6. IsFiniteSet(ids)
  <2>1. IsFiniteSet(1..Len(list))
    <3> HIDE DEF list
    <3> QED BY <1>1, FS_Interval
  <2> DEFINE f == [i \in 1..Len(list) |-> list[i].id]
  <2>2. f \in Surjection(1..Len(list), ids)
    <3>1. f \in [1..Len(list) -> ids]
      BY <1>1, <1>2, <1>4
    <3>2. \A x \in ids : \E i \in 1..Len(list) : f[i] = x
      BY <1>1, <1>2, <1>4
    <3> QED BY <3>1, <3>2 DEF Surjection
  <2> HIDE DEF f, ids
  <2> QED BY <2>1, <2>2, FS_Surjection
<1> HIDE DEF ids
<1>7. /\ n \in Nat /\ \A k \in 1..n : Place(ids, k) \in ids
      /\ \A k, l \in 1..n : k < l => Place(ids, k) < Place(ids, l)
  BY <1>5, <1>6, PlaceFacts
<1>8. copy = [k \in 1..n |-> HandlerAt(type, k)]
  BY DEF SnapshotHandlers, ids
<1>9. ASSUME NEW k \in 1..n
      PROVE  HandlerAt(type, k) \in Subscriptions /\ HandlerAt(type, k).id = Place(ids, k)
  <2>1. \E h \in ToSet(list) : h.id = Place(ids, k)
    BY <1>4, <1>7
  <2>2. HandlerAt(type, k) = CHOOSE h \in ToSet(list) : h.id = Place(ids, k)
    BY DEF HandlerAt, ids
  <2> QED BY <1>3, <2>1, <2>2
<1> HIDE DEF copy, n
<1>10. copy \in Seq(Subscriptions) /\ Len(copy) = n
  <2>1. copy \in [1..n -> Subscriptions]
    BY <1>8, <1>9
  <2> QED BY <1>7, <2>1, IsASeq, LenProperties
<1>11. ASSUME NEW j \in 1..Len(copy), NEW k \in 1..Len(copy), j < k PROVE copy[j].id < copy[k].id
  <2>1. j \in 1..n /\ k \in 1..n
    BY <1>10
  <2>2. copy[j].id = Place(ids, j) /\ copy[k].id = Place(ids, k)
    BY <1>8, <1>9, <2>1
  <2> QED BY <1>7, <1>11, <2>1, <2>2
<1> QED BY <1>10, <1>11 DEF copy

-----------------------------------------------------------------------------
\* A fresh call has called nobody.
LEMMA PushKeepsCalls ==
  ASSUME BusShape, CallState, NEW t \in Threads, NEW events \in Seq(Events), Push(t, events)
  PROVE  CallState'
<1>1. ConsumeState(Call(events)) /\ PendingState(Call(events))
  BY DEF ConsumeState, PendingState, Call
<1> DEFINE n == Len(stack[t])
<1>2. /\ \A u \in Threads : u # t => stack'[u] = stack[u]
      /\ Len(stack'[t]) = n + 1 /\ n \in Nat /\ stack'[t][1] = Call(events)
      /\ \A c \in 1..n : stack'[t][c + 1] = stack[t][c]
  BY PushFacts
<1>3. ASSUME NEW c \in 1..(n + 1)
      PROVE  ConsumeState(stack'[t][c]) /\ PendingState(stack'[t][c])
  <2>1. CASE c = 1
    BY <1>1, <1>2, <2>1
  <2>2. CASE c # 1
    <3>1. c - 1 \in 1..n /\ (c - 1) + 1 = c
      BY <1>2, <2>2
    <3>2. stack'[t][c] = stack[t][c - 1]
      BY <1>2, <3>1
    <3> QED BY <3>1, <3>2 DEF CallState
  <2> QED BY <2>1, <2>2
<1>4. \A u \in Threads : \A c \in 1..Len(stack'[u]) :
        ConsumeState(stack'[u][c]) /\ PendingState(stack'[u][c])
  BY <1>2, <1>3 DEF CallState
<1> QED BY <1>4 DEF CallState, ConsumeState, PendingState

\* A dispatch that changes its own locals leaves the other calls alone.
LEMMA ReplaceKeepsCalls ==
  ASSUME BusShape, CallState, NEW t \in Threads, stack[t] # <<>>, NEW call \in Calls,
         ReplaceTop(t, call), ConsumeState(call), PendingState(call)
  PROVE  CallState'
<1> DEFINE n == Len(stack[t])
<1>1. /\ \A u \in Threads : u # t => stack'[u] = stack[u]
      /\ Len(stack'[t]) = n /\ n \in Nat /\ stack'[t][1] = call
      /\ \A c \in 2..n : stack'[t][c] = stack[t][c]
  BY ReplaceFacts
<1>2. ASSUME NEW c \in 1..n
      PROVE  ConsumeState(stack'[t][c]) /\ PendingState(stack'[t][c])
  <2>1. c = 1 \/ c \in 2..n
    BY <1>1
  <2> QED BY <1>1, <2>1 DEF CallState
<1>3. \A u \in Threads : \A c \in 1..Len(stack'[u]) :
        ConsumeState(stack'[u][c]) /\ PendingState(stack'[u][c])
  BY <1>1, <1>2 DEF CallState
<1> QED BY <1>3 DEF CallState, ConsumeState, PendingState

\* A call that returns or is left by an exception leaves the calls below it as they were.
LEMMA PopKeepsCalls ==
  ASSUME BusShape, CallState, NEW t \in Threads, stack[t] # <<>>, Pop(t)
  PROVE  CallState'
<1> DEFINE n == Len(stack[t])
<1>1. /\ \A u \in Threads : u # t => stack'[u] = stack[u]
      /\ Len(stack'[t]) = n - 1 /\ n \in Nat \ {0}
      /\ \A c \in 1..(n - 1) : stack'[t][c] = stack[t][c + 1]
  BY PopFacts
<1>2. ASSUME NEW c \in 1..(n - 1)
      PROVE  ConsumeState(stack'[t][c]) /\ PendingState(stack'[t][c])
  <2>1. c + 1 \in 1..n
    BY <1>1
  <2> QED BY <1>1, <2>1 DEF CallState
<1>3. \A u \in Threads : \A c \in 1..Len(stack'[u]) :
        ConsumeState(stack'[u][c]) /\ PendingState(stack'[u][c])
  BY <1>1, <1>2 DEF CallState
<1> QED BY <1>3 DEF CallState, ConsumeState, PendingState

\* The loop of DispatchImmediate: the next handler is called or skipped.
LEMMA NextHandlerCalls ==
  ASSUME BusShape, CallState, NEW t \in Threads, NextHandler(t)
  PROVE  CallState' /\ stack' \in [Threads -> Seq(Calls)]
<1> DEFINE call == Top(t)
           entry == Head(call.pending)
           skipped == [call EXCEPT !.pending = Tail(@)]
           entered == [call EXCEPT !.pending = Tail(@), !.running = <<entry>>,
                                   !.consumed_before = call.consumed]
<1>1. stack[t] # <<>> /\ call.running = <<>> /\ call.pending # <<>>
  BY DEF NextHandler
<1>2. call \in Calls /\ ConsumeState(call) /\ PendingState(call)
  BY <1>1, TopFacts DEF CallState
<1>3. /\ call.pending \in Seq(Subscriptions) /\ call.running \in Seq(Subscriptions)
      /\ call.consumed \in BOOLEAN /\ call.consumed_before \in BOOLEAN /\ call.consumers \in SUBSET Nat
      /\ call.batch \in Seq(Events) /\ call.dispatching \in BOOLEAN
  BY <1>2 DEF Calls
<1> DEFINE n == Len(call.pending)
           rest == Tail(call.pending)
<1>4. /\ entry \in Subscriptions /\ entry = call.pending[1] /\ n \in Nat \ {0}
      /\ rest \in Seq(Subscriptions) /\ Len(rest) = n - 1
      /\ \A i \in 1..(n - 1) : rest[i] = call.pending[i + 1]
  BY <1>1, <1>3, TailFacts
<1> HIDE DEF call
<1>5. /\ \A j, k \in 1..Len(rest) : j < k => rest[j].id < rest[k].id
      /\ \A k \in 1..Len(rest) : entry.id < rest[k].id
  <2>1. ASSUME NEW j \in 1..Len(rest), NEW k \in 1..Len(rest), j < k PROVE rest[j].id < rest[k].id
    <3>1. j + 1 \in 1..n /\ k + 1 \in 1..n /\ j + 1 < k + 1 /\ j \in 1..(n - 1) /\ k \in 1..(n - 1)
      BY <1>4, <2>1
    <3>2. rest[j] = call.pending[j + 1] /\ rest[k] = call.pending[k + 1]
      BY <1>4, <3>1
    <3> QED BY <1>2, <3>1, <3>2 DEF PendingState
  <2>2. ASSUME NEW k \in 1..Len(rest) PROVE entry.id < rest[k].id
    <3>1. 1 \in 1..n /\ k + 1 \in 1..n /\ 1 < k + 1 /\ k \in 1..(n - 1)
      BY <1>4
    <3>2. rest[k] = call.pending[k + 1] /\ entry = call.pending[1]
      BY <1>4, <3>1
    <3> QED BY <1>2, <3>1, <3>2 DEF PendingState
  <2> QED BY <2>1, <2>2
<1>6. ReplaceTop(t, IF call.consumed /\ ~entry.monitor THEN skipped ELSE entered)
  BY DEF NextHandler, call
<1> HIDE DEF entry, rest
<1>7. CASE call.consumed /\ ~entry.monitor
  <2>1. /\ skipped \in Calls /\ skipped.pending = rest /\ skipped.running = call.running
        /\ skipped.consumed = call.consumed /\ skipped.consumers = call.consumers
    <3>1. skipped.pending = rest
      BY <1>2 DEF Calls, rest
    <3> QED BY <1>2, <1>4 DEF Calls, rest
  <2>2. ConsumeState(skipped)
    <3> HIDE DEF skipped
    <3> QED BY <1>1, <1>2, <2>1 DEF ConsumeState
  <2>3. PendingState(skipped)
    <3> HIDE DEF skipped
    <3> QED BY <1>1, <1>5, <2>1 DEF PendingState
  <2>4. ReplaceTop(t, skipped)
    BY <1>6, <1>7
  <2> HIDE DEF skipped
  <2> QED BY <1>1, <2>1, <2>2, <2>3, <2>4, ReplaceKeepsCalls, ReplaceFacts
<1>8. CASE ~(call.consumed /\ ~entry.monitor)
  <2>1. <<entry>> \in Seq(Subscriptions) /\ <<entry>> # <<>> /\ <<entry>>[1] = entry /\ Len(<<entry>>) = 1
    BY <1>4
  <2>2. /\ entered.pending = rest /\ entered.running = <<entry>>
        /\ entered.consumed = call.consumed /\ entered.consumers = call.consumers
        /\ entered.consumed_before = call.consumed
    BY <1>2 DEF Calls, rest
  <2>3. entered = [call EXCEPT !.pending = rest, !.running = <<entry>>, !.consumed_before = call.consumed]
    BY DEF rest
  <2>4. entered \in Calls
    <3> HIDE DEF entered
    <3> QED BY <1>2, <1>3, <1>4, <2>1, <2>3 DEF Calls
  <2>5. entry.monitor \in BOOLEAN
    BY <1>4 DEF Subscriptions
  <2>6. ConsumeState(entered)
    <3> HIDE DEF entered
    <3>1. call.consumed <=> call.consumers # {}
      BY <1>1, <1>2 DEF ConsumeState
    <3>2. ~entry.monitor => call.consumers = {}
      BY <1>8, <3>1
    <3>3. Len(entered.running) <= 1
      BY <2>1, <2>2
    <3>4. entered.running # <<>> /\ entered.running[1] = entry
      BY <2>1, <2>2
    <3>5. entry.monitor => (entered.consumed_before <=> entered.consumers # {})
      BY <2>2, <3>1
    <3>6. ~entry.monitor => (entered.consumed <=> entered.consumers # {})
      BY <2>2, <3>1
    <3>7. ~entry.monitor => entered.consumers \subseteq {entry.id}
      BY <2>2, <3>2
    <3> QED BY <3>3, <3>4, <3>5, <3>6, <3>7 DEF ConsumeState
  <2>7. PendingState(entered)
    <3> HIDE DEF entered
    <3> QED BY <1>5, <2>1, <2>2 DEF PendingState
  <2>8. ReplaceTop(t, entered)
    BY <1>6, <1>8
  <2> HIDE DEF entered
  <2> QED BY <1>1, <2>4, <2>6, <2>7, <2>8, ReplaceKeepsCalls, ReplaceFacts
<1> QED BY <1>7, <1>8

\* A running handler consumes the event.
LEMMA ConsumeCalls ==
  ASSUME BusShape, CallState, NEW t \in Threads, Consume(t)
  PROVE  CallState' /\ stack' \in [Threads -> Seq(Calls)]
<1> DEFINE call == Top(t)
           entry == Head(call.running)
           who == IF entry.monitor THEN call.consumers ELSE call.consumers \cup {entry.id}
           new == [call EXCEPT !.consumed = TRUE, !.consumers = who]
<1>1. stack[t] # <<>> /\ call.running # <<>>
  BY DEF Consume, InHandler
<1>2. call \in Calls /\ ConsumeState(call) /\ PendingState(call)
  BY <1>1, TopFacts DEF CallState
<1>3. call.running \in Seq(Subscriptions) /\ call.consumers \in SUBSET Nat /\ call.consumed \in BOOLEAN
  BY <1>2 DEF Calls
<1>4. entry \in Subscriptions /\ entry = call.running[1]
  BY <1>1, <1>3, TailFacts
<1>5. ReplaceTop(t, new)
  BY DEF Consume
<1> HIDE DEF call, entry
<1>6. entry.id \in Nat /\ entry.monitor \in BOOLEAN
  BY <1>4 DEF Subscriptions
<1>7. who \in SUBSET Nat
  BY <1>3, <1>6
<1> HIDE DEF who
<1>8. new \in Calls
  BY <1>2, <1>7 DEF Calls
<1>9. /\ new.running = call.running /\ new.pending = call.pending /\ new.consumed = TRUE
      /\ new.consumers = who /\ new.consumed_before = call.consumed_before
  BY <1>2 DEF Calls
<1> HIDE DEF new
<1>10. ConsumeState(new)
  <2>1. entry.monitor => who = call.consumers
    BY DEF who
  <2>2. ~entry.monitor => who # {} /\ who \subseteq {entry.id}
    <3>1. ~entry.monitor => call.consumers \subseteq {entry.id}
      BY <1>1, <1>2, <1>4 DEF ConsumeState
    <3> QED BY <3>1 DEF who
  <2>3. entry.monitor => (call.consumed_before <=> call.consumers # {})
    BY <1>1, <1>2, <1>4 DEF ConsumeState
  <2>4. Len(new.running) <= 1
    BY <1>2, <1>9 DEF ConsumeState
  <2>5. new.running # <<>> /\ new.running[1] = entry
    BY <1>1, <1>4, <1>9
  <2>6. entry.monitor => (new.consumed_before <=> new.consumers # {})
    BY <1>9, <2>1, <2>3
  <2>7. ~entry.monitor => (new.consumed <=> new.consumers # {}) /\ new.consumers \subseteq {entry.id}
    BY <1>9, <2>2
  <2> QED BY <2>4, <2>5, <2>6, <2>7 DEF ConsumeState
<1>11. PendingState(new)
  BY <1>2, <1>9 DEF PendingState
<1> QED BY <1>1, <1>5, <1>8, <1>10, <1>11, ReplaceKeepsCalls, ReplaceFacts

\* A handler returns; what a monitor did to the consumed flag is undone.
LEMMA HandlerReturnsCalls ==
  ASSUME BusShape, CallState, NEW t \in Threads, HandlerReturns(t)
  PROVE  CallState' /\ stack' \in [Threads -> Seq(Calls)]
<1> DEFINE call == Top(t)
           entry == Head(call.running)
           flag == IF entry.monitor THEN call.consumed_before ELSE call.consumed
           new == [call EXCEPT !.running = <<>>, !.consumed = flag]
<1>1. stack[t] # <<>> /\ call.running # <<>>
  BY DEF HandlerReturns, InHandler
<1>2. call \in Calls /\ ConsumeState(call) /\ PendingState(call)
  BY <1>1, TopFacts DEF CallState
<1>3. /\ call.running \in Seq(Subscriptions) /\ call.consumed \in BOOLEAN
      /\ call.consumed_before \in BOOLEAN
  BY <1>2 DEF Calls
<1>4. entry \in Subscriptions /\ entry = call.running[1]
  BY <1>1, <1>3, TailFacts
<1>5. ReplaceTop(t, new)
  BY DEF HandlerReturns
<1> HIDE DEF call, entry
<1>6. entry.monitor \in BOOLEAN
  BY <1>4 DEF Subscriptions
<1>7. flag \in BOOLEAN
  BY <1>3, <1>6
<1>8. flag <=> call.consumers # {}
  <2>1. entry.monitor => (call.consumed_before <=> call.consumers # {})
    BY <1>1, <1>2, <1>4 DEF ConsumeState
  <2>2. ~entry.monitor => (call.consumed <=> call.consumers # {})
    BY <1>1, <1>2, <1>4 DEF ConsumeState
  <2> QED BY <1>6, <2>1, <2>2
<1> HIDE DEF flag
<1>9. new \in Calls
  <2>1. <<>> \in Seq(Subscriptions)
    OBVIOUS
  <2> QED BY <1>2, <1>7, <2>1 DEF Calls
<1>10. /\ new.running = <<>> /\ new.pending = call.pending /\ new.consumed = flag
       /\ new.consumers = call.consumers
  BY <1>2 DEF Calls
<1> HIDE DEF new
<1>11. ConsumeState(new)
  <2>1. Len(new.running) <= 1
    BY <1>10
  <2>2. new.consumed <=> new.consumers # {}
    BY <1>8, <1>10
  <2> QED BY <1>10, <2>1, <2>2 DEF ConsumeState
<1>12. PendingState(new)
  BY <1>2, <1>10 DEF PendingState
<1> QED BY <1>1, <1>5, <1>9, <1>11, <1>12, ReplaceKeepsCalls, ReplaceFacts

\* The dispatch of an event begins with the handlers sorted, and ends with none left.
LEMMA DispatchCalls ==
  ASSUME BusShape, CallState, NEW t \in Threads, BeginDispatch(t) \/ EndDispatch(t)
  PROVE  CallState' /\ stack' \in [Threads -> Seq(Calls)]
<1> DEFINE call == Top(t)
<1>1. stack[t] # <<>>
  BY DEF BeginDispatch, EndDispatch
<1>2. call \in Calls
  BY <1>1, TopFacts
<1>3. call.batch \in Seq(Events)
  BY <1>2 DEF Calls
<1>4. <<>> \in Seq(Subscriptions) /\ {} \in SUBSET Nat
  OBVIOUS
<1>5. CASE BeginDispatch(t)
  <2> DEFINE event == Head(call.batch)
             rest == Tail(call.batch)
             copy == SnapshotHandlers(event.type)
             new == [Call(rest) EXCEPT !.dispatching = TRUE, !.pending = copy]
  <2>1. call.batch # <<>> /\ ReplaceTop(t, new)
    BY <1>5 DEF BeginDispatch
  <2>2. event \in Events /\ rest \in Seq(Events)
    BY <1>3, <2>1, TailFacts
  <2>3. event.type \in Types
    BY <2>2 DEF Events
  <2>4. copy \in Seq(Subscriptions) /\ \A j, k \in 1..Len(copy) : j < k => copy[j].id < copy[k].id
    BY <2>3, SnapshotFacts
  <2> HIDE DEF copy, rest
  <2>5. Call(rest) \in Calls
    BY <1>4, <2>2 DEF Call, Calls
  <2>6. new \in Calls
    BY <2>4, <2>5 DEF Calls
  <2>7. /\ new.running = <<>> /\ new.pending = copy /\ new.consumed = FALSE /\ new.consumers = {}
    BY DEF Call
  <2> HIDE DEF new
  <2>8. ConsumeState(new)
    BY <2>7 DEF ConsumeState
  <2>9. PendingState(new)
    BY <2>4, <2>7 DEF PendingState
  <2> QED BY <1>1, <2>1, <2>6, <2>8, <2>9, ReplaceKeepsCalls, ReplaceFacts
<1>6. CASE EndDispatch(t)
  <2> DEFINE new == Call(call.batch)
  <2>1. ReplaceTop(t, new)
    BY <1>6 DEF EndDispatch
  <2>2. new \in Calls
    BY <1>3, <1>4 DEF Call, Calls
  <2>3. ConsumeState(new) /\ PendingState(new)
    BY DEF ConsumeState, PendingState, Call
  <2> HIDE DEF new
  <2> QED BY <1>1, <2>1, <2>2, <2>3, ReplaceKeepsCalls, ReplaceFacts
<1> QED BY <1>5, <1>6

-----------------------------------------------------------------------------
\* The invariant gives the two properties about handler calls.
LEMMA CallsGiveHandlerProperties ==
  ASSUME BusShape, CallState
  PROVE  MonitorsOnlyObserve /\ HandlersInRegistrationOrder
<1>1. ASSUME NEW t \in Threads, NEW c \in DOMAIN stack[t]
      PROVE  LET call == stack[t][c]
                 all == call.running \o call.pending
             IN /\ call.running = <<>> => (call.consumed <=> call.consumers # {})
                /\ \A entry \in ToSet(call.running) : ~entry.monitor => call.consumers \subseteq {entry.id}
                /\ \A j, k \in DOMAIN all : j < k => all[j].id < all[k].id
  <2> DEFINE call == stack[t][c]
             run == call.running
             pend == call.pending
             all == run \o pend
  <2>1. stack[t] \in Seq(Calls)
    BY DEF BusShape
  <2>2. c \in 1..Len(stack[t]) /\ call \in Calls
    BY <2>1
  <2>3. ConsumeState(call) /\ PendingState(call)
    BY <2>2 DEF CallState
  <2>4. run \in Seq(Subscriptions) /\ pend \in Seq(Subscriptions)
    BY <2>2 DEF Calls
  <2> HIDE DEF call
  <2>5. (Len(run) = 0 \/ Len(run) = 1) /\ Len(run) \in Nat /\ Len(pend) \in Nat
    <3>1. Len(run) \in Nat /\ Len(pend) \in Nat
      BY <2>4
    <3>2. Len(run) <= 1
      BY <2>3 DEF ConsumeState
    <3>3. \A m \in Nat : m <= 1 => m = 0 \/ m = 1
      OBVIOUS
    <3> HIDE DEF run, pend
    <3> QED BY <3>1, <3>2, <3>3, Zenon
  <2>6. (Len(run) = 0 => run = <<>>) /\ (Len(run) # 0 => run # <<>>)
    BY <2>4, EmptySeq
  <2>7. ASSUME NEW entry \in ToSet(run), ~entry.monitor PROVE call.consumers \subseteq {entry.id}
    <3>1. PICK i \in DOMAIN run : entry = run[i]
      BY DEF ToSet
    <3>2. i = 1 /\ run # <<>>
      BY <2>4, <2>5, <2>6, <3>1
    <3> QED BY <2>3, <2>7, <3>1, <3>2 DEF ConsumeState
  <2>8. ASSUME NEW j \in DOMAIN all, NEW k \in DOMAIN all, j < k PROVE all[j].id < all[k].id
    <3>1. /\ all \in Seq(Subscriptions) /\ Len(all) = Len(run) + Len(pend)
          /\ \A i \in 1..Len(run) : all[i] = run[i]
          /\ \A i \in 1..Len(pend) : all[Len(run) + i] = pend[i]
      <4> HIDE DEF run, pend
      <4> QED BY <2>4, ConcatProperties
    <3> HIDE DEF run, pend
    <3>2. j \in 1..(Len(run) + Len(pend)) /\ k \in 1..(Len(run) + Len(pend))
      <4> HIDE DEF all
      <4> QED BY <3>1
    <3>3. CASE Len(run) = 0
      <4>1. j \in 1..Len(pend) /\ k \in 1..Len(pend) /\ Len(run) + j = j /\ Len(run) + k = k
        BY <2>5, <3>2, <3>3
      <4>2. all[j] = pend[j] /\ all[k] = pend[k]
        BY <3>1, <4>1
      <4> QED BY <2>3, <2>8, <4>1, <4>2 DEF PendingState, pend
    <3>4. CASE Len(run) = 1
      <4>1. k - 1 \in 1..Len(pend) /\ 1 + (k - 1) = k
        BY <2>5, <2>8, <3>2, <3>4
      <4>2. all[k] = pend[k - 1]
        BY <3>1, <3>4, <4>1
      <4>3. CASE j = 1
        <5>1. all[j] = run[1]
          BY <3>1, <3>4, <4>3
        <5> QED BY <2>3, <2>6, <3>4, <4>1, <4>2, <5>1 DEF PendingState, pend, run
      <4>4. CASE j # 1
        <5>1. j - 1 \in 1..Len(pend) /\ 1 + (j - 1) = j /\ j - 1 < k - 1
          BY <2>5, <2>8, <3>2, <3>4, <4>4
        <5>2. all[j] = pend[j - 1]
          BY <3>1, <3>4, <5>1
        <5> QED BY <2>3, <4>1, <4>2, <5>1, <5>2 DEF PendingState, pend
      <4> QED BY <4>3, <4>4
    <3> QED BY <2>5, <3>3, <3>4
  <2>9. run = <<>> => (call.consumed <=> call.consumers # {})
    BY <2>3 DEF ConsumeState
  <2> QED BY <2>7, <2>8, <2>9 DEF call
<1> QED BY <1>1 DEF MonitorsOnlyObserve, HandlersInRegistrationOrder

-----------------------------------------------------------------------------
(***************************************************************************)
(* Where the deferred events are.                                          *)
(***************************************************************************)
\* Event e is the i-th of class p, of the batch of the c-th call of thread t, or of those
\* dispatched.
QueuedAt(p, i, e) == p \in Priorities /\ i \in 1..Len(queue[p]) /\ queue[p][i] = e
HeldAt(t, c, i, e) ==
  /\ t \in Threads /\ c \in 1..Len(stack[t]) /\ i \in 1..Len(stack[t][c].batch)
  /\ stack[t][c].batch[i] = e /\ e.sequence # 0
DoneAt(i, e) == i \in 1..Len(delivered) /\ delivered[i] = e

\* A place in a batch is a number, and what is there is an event.
LEMMA HeldFacts ==
  ASSUME BusShape, NEW t, NEW c, NEW i, NEW e, HeldAt(t, c, i, e)
  PROVE  /\ t \in Threads /\ c \in Nat \ {0} /\ i \in Nat \ {0} /\ e \in Events /\ e.sequence # 0
         /\ c \in 1..Len(stack[t]) /\ i \in 1..Len(stack[t][c].batch)
         /\ stack[t][c] \in Calls /\ stack[t][c].batch[i] = e
<1>1. /\ t \in Threads /\ c \in 1..Len(stack[t]) /\ i \in 1..Len(stack[t][c].batch)
      /\ stack[t][c].batch[i] = e /\ e.sequence # 0
  BY DEF HeldAt
<1>2. stack[t] \in Seq(Calls)
  BY <1>1 DEF BusShape
<1>3. stack[t][c] \in Calls
  BY <1>1, <1>2
<1>4. stack[t][c].batch \in Seq(Events)
  BY <1>3 DEF Calls
<1>5. e \in Events /\ i \in Nat \ {0}
  BY <1>1, <1>4
<1> QED BY <1>1, <1>2, <1>3, <1>5

\* A new call holds its events; those below it move one down.
LEMMA PushHolds ==
  ASSUME BusShape, NEW t \in Threads, NEW events \in Seq(Events), Push(t, events)
  PROVE  /\ \A u, c, i, e : u # t => (HeldAt(u, c, i, e)' <=> HeldAt(u, c, i, e))
         /\ \A i, e : HeldAt(t, 1, i, e)' <=> i \in 1..Len(events) /\ events[i] = e /\ e.sequence # 0
         /\ \A c \in Nat \ {0} : \A i, e : HeldAt(t, c + 1, i, e)' <=> HeldAt(t, c, i, e)
         /\ \A c, i, e : HeldAt(t, c, i, e)' => c = 1 \/ (c - 1 \in Nat \ {0} /\ (c - 1) + 1 = c)
<1> DEFINE n == Len(stack[t])
<1>1. /\ \A u \in Threads : u # t => stack'[u] = stack[u]
      /\ Len(stack'[t]) = n + 1 /\ n \in Nat /\ stack'[t][1] = Call(events)
      /\ \A c \in 1..n : stack'[t][c + 1] = stack[t][c]
  BY PushFacts
<1>2. Call(events).batch = events
  BY DEF Call
<1>3. \A u, c, i, e : u # t => (HeldAt(u, c, i, e)' <=> HeldAt(u, c, i, e))
  BY <1>1 DEF HeldAt
<1>4. \A i, e : HeldAt(t, 1, i, e)' <=> i \in 1..Len(events) /\ events[i] = e /\ e.sequence # 0
  <2>1. 1 \in 1..(n + 1)
    BY <1>1
  <2> QED BY <1>1, <1>2, <2>1 DEF HeldAt
<1>5. ASSUME NEW c \in Nat \ {0}, NEW i, NEW e PROVE HeldAt(t, c + 1, i, e)' <=> HeldAt(t, c, i, e)
  <2>1. c + 1 \in 1..(n + 1) <=> c \in 1..n
    BY <1>1
  <2>2. CASE c \in 1..n
    BY <1>1, <2>1, <2>2 DEF HeldAt
  <2>3. CASE c \notin 1..n
    BY <1>1, <2>1, <2>3 DEF HeldAt
  <2> QED BY <2>2, <2>3
<1>6. ASSUME NEW c, NEW i, NEW e, HeldAt(t, c, i, e)'
      PROVE  c = 1 \/ (c - 1 \in Nat \ {0} /\ (c - 1) + 1 = c)
  <2>1. c \in 1..(n + 1)
    BY <1>1, <1>6 DEF HeldAt
  <2> QED BY <1>1, <2>1
<1> QED BY <1>3, <1>4, <1>5, <1>6

\* A call that ends holds nothing any more; those below it move one up.
LEMMA PopHolds ==
  ASSUME BusShape, NEW t \in Threads, stack[t] # <<>>, Pop(t)
  PROVE  /\ \A u, c, i, e : u # t => (HeldAt(u, c, i, e)' <=> HeldAt(u, c, i, e))
         /\ \A c \in Nat \ {0} : \A i, e : HeldAt(t, c, i, e)' <=> HeldAt(t, c + 1, i, e)
         /\ \A c, i, e : HeldAt(t, c, i, e)' => c \in Nat \ {0}
<1> DEFINE n == Len(stack[t])
<1>1. /\ \A u \in Threads : u # t => stack'[u] = stack[u]
      /\ Len(stack'[t]) = n - 1 /\ n \in Nat \ {0}
      /\ \A c \in 1..(n - 1) : stack'[t][c] = stack[t][c + 1]
  BY PopFacts
<1>2. \A u, c, i, e : u # t => (HeldAt(u, c, i, e)' <=> HeldAt(u, c, i, e))
  BY <1>1 DEF HeldAt
<1>3. ASSUME NEW c \in Nat \ {0}, NEW i, NEW e PROVE HeldAt(t, c, i, e)' <=> HeldAt(t, c + 1, i, e)
  <2>1. c \in 1..(n - 1) <=> c + 1 \in 1..n
    BY <1>1
  <2>2. CASE c \in 1..(n - 1)
    BY <1>1, <2>1, <2>2 DEF HeldAt
  <2>3. CASE c \notin 1..(n - 1)
    BY <1>1, <2>1, <2>3 DEF HeldAt
  <2> QED BY <2>2, <2>3
<1>4. ASSUME NEW c, NEW i, NEW e, HeldAt(t, c, i, e)' PROVE c \in Nat \ {0}
  <2>1. c \in 1..(n - 1)
    BY <1>1, <1>4 DEF HeldAt
  <2> QED BY <1>1, <2>1
<1> QED BY <1>2, <1>3, <1>4

\* The innermost call goes on with the same batch.
LEMMA ReplaceHolds ==
  ASSUME BusShape, NEW t \in Threads, stack[t] # <<>>, NEW call, ReplaceTop(t, call),
         stack' \in [Threads -> Seq(Calls)], call.batch = Top(t).batch
  PROVE  \A u, c, i, e : HeldAt(u, c, i, e)' <=> HeldAt(u, c, i, e)
<1> DEFINE n == Len(stack[t])
<1>1. /\ \A u \in Threads : u # t => stack'[u] = stack[u]
      /\ Len(stack'[t]) = n /\ n \in Nat \ {0} /\ stack'[t][1] = call
      /\ \A c \in 2..n : stack'[t][c] = stack[t][c]
  <2>1. stack \in [Threads -> Seq(Calls)] /\ stack[t] \in Seq(Calls)
    BY DEF BusShape
  <2> DEFINE new == <<call>> \o Tail(stack[t])
  <2>2. stack' = [stack EXCEPT ![t] = new]
    BY DEF ReplaceTop
  <2> HIDE DEF new
  <2>3. stack'[t] = new /\ \A u \in Threads : u # t => stack'[u] = stack[u]
    BY <2>1, <2>2
  <2>4. call \in Calls
    <3>1. new \in Seq(Calls)
      BY <2>3
    <3>2. Tail(stack[t]) \in Seq(Calls)
      BY <2>1, TailFacts
    <3>3. 1 \in DOMAIN new /\ new[1] = call
      BY <3>2 DEF new
    <3> QED BY <3>1, <3>3
  <2> QED BY <2>4, ReplaceFacts
<1>2. Top(t) = stack[t][1]
  BY TopFacts
<1>3. \A c \in 1..n : stack'[t][c].batch = stack[t][c].batch
  <2>1. \A c \in 1..n : c = 1 \/ c \in 2..n
    BY <1>1
  <2> QED BY <1>1, <1>2, <2>1
<1>4. \A u \in Threads : Len(stack'[u]) = Len(stack[u]) /\
                         \A c \in 1..Len(stack[u]) : stack'[u][c].batch = stack[u][c].batch
  BY <1>1, <1>3
<1> QED BY <1>4 DEF HeldAt

\* The innermost call takes the first event of its batch.
LEMMA TakeHolds ==
  ASSUME BusShape, NEW t \in Threads, stack[t] # <<>>, NEW call \in Calls, ReplaceTop(t, call),
         Top(t).batch # <<>>, call.batch = Tail(Top(t).batch)
  PROVE  /\ \A u, c, i, e : ~(u = t /\ c = 1) => (HeldAt(u, c, i, e)' <=> HeldAt(u, c, i, e))
         /\ \A i \in Nat \ {0} : \A e : HeldAt(t, 1, i, e)' <=> HeldAt(t, 1, i + 1, e)
         /\ \A i, e : HeldAt(t, 1, i, e)' => i \in Nat \ {0}
         /\ \A e : HeldAt(t, 1, 1, e) <=> e = Head(Top(t).batch) /\ e.sequence # 0
         /\ Head(Top(t).batch) \in Events
<1> DEFINE n == Len(stack[t])
           batch == stack[t][1].batch
           m == Len(batch)
<1>1. /\ \A u \in Threads : u # t => stack'[u] = stack[u]
      /\ Len(stack'[t]) = n /\ n \in Nat \ {0} /\ stack'[t][1] = call
      /\ \A c \in 2..n : stack'[t][c] = stack[t][c]
  BY ReplaceFacts
<1>2. Top(t) = stack[t][1] /\ Top(t) \in Calls
  BY TopFacts
<1>3. batch \in Seq(Events) /\ batch # <<>> /\ call.batch = Tail(batch) /\ Head(Top(t).batch) = Head(batch)
  BY <1>2 DEF Calls
<1> HIDE DEF batch
<1>4. /\ Head(batch) \in Events /\ Head(batch) = batch[1] /\ m \in Nat \ {0}
      /\ Len(Tail(batch)) = m - 1 /\ \A i \in 1..(m - 1) : Tail(batch)[i] = batch[i + 1]
  BY <1>3, TailFacts
<1>5. 1 \in 1..n /\ 1 \in 1..m
  BY <1>1, <1>4
<1>6. ASSUME NEW u, NEW c, NEW i, NEW e, ~(u = t /\ c = 1)
      PROVE  HeldAt(u, c, i, e)' <=> HeldAt(u, c, i, e)
  <2>1. CASE u # t
    BY <1>1, <2>1 DEF HeldAt
  <2>2. CASE u = t
    <3>1. c \in 1..n => c \in 2..n
      BY <1>1, <1>6, <2>2
    <3> QED BY <1>1, <2>2, <3>1 DEF HeldAt
  <2> QED BY <2>1, <2>2
<1>7. \A i, e : HeldAt(t, 1, i, e)' <=> i \in 1..(m - 1) /\ Tail(batch)[i] = e /\ e.sequence # 0
  BY <1>1, <1>3, <1>4, <1>5 DEF HeldAt
<1>8. \A i, e : HeldAt(t, 1, i, e) <=> i \in 1..m /\ batch[i] = e /\ e.sequence # 0
  BY <1>5 DEF HeldAt, batch
<1>9. ASSUME NEW i \in Nat \ {0}, NEW e PROVE HeldAt(t, 1, i, e)' <=> HeldAt(t, 1, i + 1, e)
  <2>1. i \in 1..(m - 1) <=> i + 1 \in 1..m
    BY <1>4
  <2> QED BY <1>4, <1>7, <1>8, <2>1
<1>10. \A i, e : HeldAt(t, 1, i, e)' => i \in Nat \ {0}
  BY <1>4, <1>7
<1>11. \A e : HeldAt(t, 1, 1, e) <=> e = Head(Top(t).batch) /\ e.sequence # 0
  BY <1>3, <1>4, <1>5, <1>8
<1> QED BY <1>3, <1>4, <1>6, <1>9, <1>10, <1>11

-----------------------------------------------------------------------------
(***************************************************************************)
(* The invariant about the events.                                         *)
(***************************************************************************)
EventShape ==
  /\ queue \in [Priorities -> Seq(Events)] /\ next_sequence \in Nat \ {0}
  /\ delivered \in Seq(Events) /\ overlapped \in BOOLEAN
  /\ discarded \subseteq Nat /\ lost \subseteq Nat

\* A queue holds events of its class, and every number was given out.
NumberState ==
  /\ \A p, i, e : QueuedAt(p, i, e) => e.priority = p /\ e.sequence \in 1..(next_sequence - 1)
  /\ \A t, c, i, e : HeldAt(t, c, i, e) => e.sequence \in 1..(next_sequence - 1)
  /\ \A i, e : DoneAt(i, e) => e.sequence \in 1..(next_sequence - 1)
  /\ discarded \subseteq 1..(next_sequence - 1) /\ lost \subseteq 1..(next_sequence - 1)

\* No number is in two places.
QueueUnique ==
  \A p, i, e, q, j, f : QueuedAt(p, i, e) /\ QueuedAt(q, j, f) /\ e.sequence = f.sequence => p = q /\ i = j
HeldUnique ==
  \A t, c, i, e, u, d, j, f : HeldAt(t, c, i, e) /\ HeldAt(u, d, j, f) /\ e.sequence = f.sequence =>
                                t = u /\ c = d /\ i = j
DoneUnique ==
  \A i, e, j, f : DoneAt(i, e) /\ DoneAt(j, f) /\ e.sequence = f.sequence => i = j
Apart ==
  /\ \A p, i, e, t, c, j, f : QueuedAt(p, i, e) /\ HeldAt(t, c, j, f) => e.sequence # f.sequence
  /\ \A p, i, e, j, f : QueuedAt(p, i, e) /\ DoneAt(j, f) => e.sequence # f.sequence
  /\ \A t, c, i, e, j, f : HeldAt(t, c, i, e) /\ DoneAt(j, f) => e.sequence # f.sequence
DroppedApart ==
  /\ \A p, i, e : QueuedAt(p, i, e) => e.sequence \notin discarded /\ e.sequence \notin lost
  /\ \A t, c, i, e : HeldAt(t, c, i, e) => e.sequence \notin discarded /\ e.sequence \notin lost
  /\ \A i, e : DoneAt(i, e) => e.sequence \notin discarded /\ e.sequence \notin lost
  /\ \A n \in discarded : n \notin lost

\* No number is in none.
Somewhere(n) ==
  \/ \E p, i, e : QueuedAt(p, i, e) /\ e.sequence = n
  \/ \E t, c, i, e : HeldAt(t, c, i, e) /\ e.sequence = n
  \/ \E i, e : DoneAt(i, e) /\ e.sequence = n
  \/ n \in discarded \/ n \in lost
CoverState == \A n \in 1..(next_sequence - 1) : Somewhere(n)

\* The queues are in the order of arrival.
QueueOrder == \A p, i, e, j, f : QueuedAt(p, i, e) /\ QueuedAt(p, j, f) /\ i < j => e.sequence < f.sequence

\* Before drains have overlapped one call holds deferred events, and in each class they are
\* between those dispatched and those queued.
FifoState ==
  ~overlapped =>
    /\ \A t, c, i, e, u, d, j, f : HeldAt(t, c, i, e) /\ HeldAt(u, d, j, f) => t = u /\ c = d
    /\ \A i, e, j, f : DoneAt(i, e) /\ DoneAt(j, f) /\ i < j /\ e.priority = f.priority =>
         e.sequence < f.sequence
    /\ \A i, e, t, c, j, f : DoneAt(i, e) /\ HeldAt(t, c, j, f) /\ e.priority = f.priority =>
         e.sequence < f.sequence
    /\ \A i, e, p, j, f : DoneAt(i, e) /\ QueuedAt(p, j, f) /\ e.priority = p => e.sequence < f.sequence
    /\ \A t, c, i, e, j, f : HeldAt(t, c, i, e) /\ HeldAt(t, c, j, f) /\ i < j /\ e.priority = f.priority =>
         e.sequence < f.sequence
    /\ \A t, c, i, e, p, j, f : HeldAt(t, c, i, e) /\ QueuedAt(p, j, f) /\ e.priority = p =>
         e.sequence < f.sequence

Account ==
  NumberState /\ QueueUnique /\ HeldUnique /\ DoneUnique /\ Apart /\ DroppedApart /\ CoverState
EventState == Account /\ QueueOrder /\ FifoState

\* A place in a queue or among the dispatched events is a number and holds an event.
LEMMA QueuedFacts ==
  ASSUME EventShape
  PROVE  /\ \A p, i, e : QueuedAt(p, i, e) => p \in Priorities /\ i \in Nat \ {0} /\ e \in Events
         /\ \A i, e : DoneAt(i, e) => i \in Nat \ {0} /\ e \in Events
<1>1. ASSUME NEW p, NEW i, NEW e, QueuedAt(p, i, e)
      PROVE  p \in Priorities /\ i \in Nat \ {0} /\ e \in Events
  <2>1. p \in Priorities /\ i \in 1..Len(queue[p]) /\ queue[p][i] = e
    BY <1>1 DEF QueuedAt
  <2>2. queue[p] \in Seq(Events)
    BY <2>1 DEF EventShape
  <2> QED BY <2>1, <2>2
<1>2. ASSUME NEW i, NEW e, DoneAt(i, e) PROVE i \in Nat \ {0} /\ e \in Events
  <2>1. i \in 1..Len(delivered) /\ delivered[i] = e /\ delivered \in Seq(Events)
    BY <1>2 DEF DoneAt, EventShape
  <2> QED BY <2>1
<1> QED BY <1>1, <1>2

\* Steps that move no event.
LEMMA EventsStay ==
  ASSUME EventState, \A t, c, i, e : HeldAt(t, c, i, e)' <=> HeldAt(t, c, i, e),
         UNCHANGED <<queue, next_sequence, delivered, overlapped, discarded, lost>>
  PROVE  EventState'
<1>1. /\ \A p, i, e : QueuedAt(p, i, e)' <=> QueuedAt(p, i, e)
      /\ \A i, e : DoneAt(i, e)' <=> DoneAt(i, e)
  BY DEF QueuedAt, DoneAt
<1>2. NumberState'
  BY <1>1 DEF EventState, Account, NumberState
<1>3. QueueUnique' /\ DoneUnique' /\ QueueOrder'
  BY <1>1 DEF EventState, Account, QueueUnique, DoneUnique, QueueOrder
<1>4. HeldUnique'
  BY <1>1 DEF EventState, Account, HeldUnique
<1>5. Apart'
  BY <1>1 DEF EventState, Account, Apart
<1>6. DroppedApart'
  BY <1>1 DEF EventState, Account, DroppedApart
<1>7. CoverState'
  BY <1>1 DEF EventState, Account, CoverState, Somewhere
<1>8. FifoState'
  BY <1>1 DEF EventState, FifoState
<1> QED BY <1>2, <1>3, <1>4, <1>5, <1>6, <1>7, <1>8 DEF EventState, Account

\* Calls of one thread move in its stack; what is gone from them is lost.
LEMMA ShiftKeepsEvents ==
  ASSUME EventState, NEW t, NEW k \in Int, NEW gone,
         \A u, c, i, e : HeldAt(u, c, i, e)' => c \in Nat /\ e.sequence \notin gone,
         \A u, c, i, e : HeldAt(u, c, i, e)' /\ u # t => HeldAt(u, c, i, e),
         \A c, i, e : HeldAt(t, c, i, e)' => HeldAt(t, c + k, i, e),
         \A u, c, i, e : HeldAt(u, c, i, e) => (\E d : HeldAt(u, d, i, e)') \/ e.sequence \in gone,
         \A n \in gone : \E u, c, i, e : HeldAt(u, c, i, e) /\ e.sequence = n,
         lost' = lost \cup gone,
         UNCHANGED <<queue, next_sequence, delivered, overlapped, discarded>>
  PROVE  EventState'
<1>0. /\ NumberState /\ QueueUnique /\ HeldUnique /\ DoneUnique /\ Apart /\ DroppedApart
      /\ CoverState /\ QueueOrder /\ FifoState
  BY DEF EventState, Account
<1>1. /\ \A p, i, e : QueuedAt(p, i, e)' <=> QueuedAt(p, i, e)
      /\ \A i, e : DoneAt(i, e)' <=> DoneAt(i, e)
  BY DEF QueuedAt, DoneAt
<1>2. \A u, c, i, e : HeldAt(u, c, i, e)' =>
        \E d : HeldAt(u, d, i, e) /\ (u # t => d = c) /\ (u = t => d = c + k)
  OBVIOUS
<1>3. NumberState'
  <2>1. \A n \in gone : n \in 1..(next_sequence - 1)
    BY <1>0 DEF NumberState
  <2>2. lost' \subseteq 1..(next_sequence - 1)
    BY <1>0, <2>1 DEF NumberState
  <2> QED BY <1>0, <1>1, <1>2, <2>2 DEF NumberState
<1>4. QueueUnique' /\ DoneUnique' /\ QueueOrder'
  BY <1>0, <1>1 DEF QueueUnique, DoneUnique, QueueOrder
<1>5. HeldUnique'
  <2> SUFFICES ASSUME NEW u, NEW c, NEW i, NEW e, NEW v, NEW d, NEW j, NEW f,
                      HeldAt(u, c, i, e)', HeldAt(v, d, j, f)', e.sequence = f.sequence
               PROVE  u = v /\ c = d /\ i = j
    BY DEF HeldUnique
  <2>1. PICK a : HeldAt(u, a, i, e) /\ (u # t => a = c) /\ (u = t => a = c + k)
    BY <1>2
  <2>2. PICK b : HeldAt(v, b, j, f) /\ (v # t => b = d) /\ (v = t => b = d + k)
    BY <1>2
  <2>3. u = v /\ a = b /\ i = j
    BY <1>0, <2>1, <2>2 DEF HeldUnique
  <2>4. c \in Nat /\ d \in Nat
    OBVIOUS
  <2>5. c = d
    BY <2>1, <2>2, <2>3, <2>4
  <2> QED BY <2>3, <2>5
<1>6. Apart'
  BY <1>0, <1>1, <1>2 DEF Apart
<1>7. DroppedApart'
  <2>1. \A p, i, e : QueuedAt(p, i, e) => e.sequence \notin gone
    BY <1>0 DEF Apart
  <2>2. \A i, e : DoneAt(i, e) => e.sequence \notin gone
    BY <1>0 DEF Apart
  <2>3. \A n \in gone : n \notin discarded
    BY <1>0 DEF DroppedApart
  <2>4. \A p, i, e : QueuedAt(p, i, e)' => e.sequence \notin discarded' /\ e.sequence \notin lost'
    BY <1>0, <1>1, <2>1 DEF DroppedApart
  <2>5. \A u, c, i, e : HeldAt(u, c, i, e)' => e.sequence \notin discarded' /\ e.sequence \notin lost'
    BY <1>0, <1>2 DEF DroppedApart
  <2>6. \A i, e : DoneAt(i, e)' => e.sequence \notin discarded' /\ e.sequence \notin lost'
    BY <1>0, <1>1, <2>2 DEF DroppedApart
  <2>7. \A n \in discarded' : n \notin lost'
    BY <1>0, <2>3 DEF DroppedApart
  <2> QED BY <2>4, <2>5, <2>6, <2>7 DEF DroppedApart
<1>8. CoverState'
  <2> SUFFICES ASSUME NEW n \in 1..(next_sequence - 1) PROVE Somewhere(n)'
    BY DEF CoverState
  <2>1. CASE \E u, c, i, e : HeldAt(u, c, i, e) /\ e.sequence = n
    <3>1. PICK u, c, i, e : HeldAt(u, c, i, e) /\ e.sequence = n
      BY <2>1
    <3>2. (\E d : HeldAt(u, d, i, e)') \/ n \in lost'
      BY <3>1
    <3> QED BY <3>1, <3>2 DEF Somewhere
  <2>2. CASE ~\E u, c, i, e : HeldAt(u, c, i, e) /\ e.sequence = n
    <3>1. Somewhere(n)
      BY <1>0 DEF CoverState
    <3> QED BY <1>1, <2>2, <3>1 DEF Somewhere
  <2> QED BY <2>1, <2>2
<1>9. FifoState'
  <2> SUFFICES ASSUME ~overlapped PROVE FifoState'
    BY DEF FifoState
  <2>1. ASSUME NEW u, NEW c, NEW i, NEW e, NEW v, NEW d, NEW j, NEW f,
               HeldAt(u, c, i, e)', HeldAt(v, d, j, f)'
        PROVE  u = v /\ c = d
    <3>1. PICK a : HeldAt(u, a, i, e) /\ (u # t => a = c) /\ (u = t => a = c + k)
      BY <1>2, <2>1
    <3>2. PICK b : HeldAt(v, b, j, f) /\ (v # t => b = d) /\ (v = t => b = d + k)
      BY <1>2, <2>1
    <3>3. u = v /\ a = b
      BY <1>0, <3>1, <3>2 DEF FifoState
    <3>4. c \in Nat /\ d \in Nat
      BY <2>1
    <3>5. c = d
      BY <3>1, <3>2, <3>3, <3>4
    <3> QED BY <3>3, <3>5
  <2>2. ASSUME NEW u, NEW c, NEW i, NEW e, NEW j, NEW f,
               HeldAt(u, c, i, e)', HeldAt(u, c, j, f)', i < j, e.priority = f.priority
        PROVE  e.sequence < f.sequence
    <3>1. PICK a : HeldAt(u, a, i, e) /\ (u # t => a = c) /\ (u = t => a = c + k)
      BY <1>2, <2>2
    <3>2. HeldAt(u, a, j, f)
      <4>1. PICK b : HeldAt(u, b, j, f) /\ (u # t => b = c) /\ (u = t => b = c + k)
        BY <1>2, <2>2
      <4>2. a = b
        BY <3>1, <4>1
      <4> QED BY <4>1, <4>2
    <3> QED BY <1>0, <2>2, <3>1, <3>2 DEF FifoState
  <2>3. \A i, e, u, c, j, f : DoneAt(i, e)' /\ HeldAt(u, c, j, f)' /\ e.priority = f.priority =>
          e.sequence < f.sequence
    BY <1>0, <1>1, <1>2 DEF FifoState
  <2>4. ASSUME NEW u, NEW c, NEW i, NEW e, NEW p, NEW j, NEW f,
               HeldAt(u, c, i, e)', QueuedAt(p, j, f)', e.priority = p
        PROVE  e.sequence < f.sequence
    <3>1. PICK a : HeldAt(u, a, i, e)
      BY <1>2, <2>4
    <3>2. QueuedAt(p, j, f)
      BY <1>1, <2>4
    <3> QED BY <1>0, <2>4, <3>1, <3>2 DEF FifoState
  <2>5. /\ \A i, e, j, f : DoneAt(i, e)' /\ DoneAt(j, f)' /\ i < j /\ e.priority = f.priority =>
             e.sequence < f.sequence
        /\ \A i, e, p, j, f : DoneAt(i, e)' /\ QueuedAt(p, j, f)' /\ e.priority = p =>
             e.sequence < f.sequence
    BY <1>0, <1>1 DEF FifoState
  <2> QED BY <2>1, <2>2, <2>3, <2>4, <2>5 DEF FifoState
<1> QED BY <1>3, <1>4, <1>5, <1>6, <1>7, <1>8, <1>9 DEF EventState, Account

\* A call of DispatchImmediate holds no deferred event.
LEMMA ImmediateEvents ==
  ASSUME BusShape, EventState, NEW t \in Threads, NEW type \in Types, Push(t, <<Immediate(type)>>),
         UNCHANGED <<queue, next_sequence, delivered, overlapped, discarded, lost>>
  PROVE  EventState'
<1> DEFINE events == <<Immediate(type)>>
<1>1. events \in Seq(Events) /\ Len(events) = 1 /\ events[1] = Immediate(type)
  BY DEF Immediate, Events, Priorities
<1>2. Immediate(type).sequence = 0
  BY DEF Immediate
<1> HIDE DEF events
<1>3. Push(t, events)
  BY DEF events
<1>4. /\ \A u, c, i, e : u # t => (HeldAt(u, c, i, e)' <=> HeldAt(u, c, i, e))
      /\ \A i, e : HeldAt(t, 1, i, e)' <=> i \in 1..Len(events) /\ events[i] = e /\ e.sequence # 0
      /\ \A c \in Nat \ {0} : \A i, e : HeldAt(t, c + 1, i, e)' <=> HeldAt(t, c, i, e)
      /\ \A c, i, e : HeldAt(t, c, i, e)' => c = 1 \/ (c - 1 \in Nat \ {0} /\ (c - 1) + 1 = c)
  BY <1>1, <1>3, PushHolds
<1>5. \A i, e : ~HeldAt(t, 1, i, e)'
  BY <1>1, <1>2, <1>4
<1>6. ASSUME NEW c, NEW i, NEW e, HeldAt(t, c, i, e)' PROVE c \in Nat /\ HeldAt(t, c + (-1), i, e)
  <2>1. c - 1 \in Nat \ {0} /\ (c - 1) + 1 = c
    BY <1>4, <1>5, <1>6
  <2>2. HeldAt(t, c - 1, i, e)
    BY <1>4, <1>6, <2>1
  <2>3. c = (c - 1) + 1
    BY <2>1
  <2>4. c \in Nat
    BY <2>1, <2>3
  <2>5. c - 1 = c + (-1)
    BY <2>4
  <2> QED BY <2>2, <2>4, <2>5
<1>7. ASSUME NEW u, NEW c, NEW i, NEW e, HeldAt(u, c, i, e) PROVE c \in Nat /\ \E d : HeldAt(u, d, i, e)'
  <2>1. c \in Nat \ {0}
    BY <1>7, HeldFacts
  <2> QED BY <1>4, <1>7, <2>1
<1>8. \A u, c, i, e : HeldAt(u, c, i, e)' => c \in Nat
  BY <1>4, <1>6, <1>7
<1> DEFINE gone == {}
           k == -1
<1>9. /\ lost' = lost \cup gone /\ k \in Int /\ \A n : n \notin gone
      /\ \A c, i, e : HeldAt(t, c, i, e)' => HeldAt(t, c + k, i, e)
      /\ \A u, c, i, e : HeldAt(u, c, i, e)' /\ u # t => HeldAt(u, c, i, e)
  BY <1>4, <1>6
<1> HIDE DEF gone, k
<1> QED BY <1>7, <1>8, <1>9, ShiftKeepsEvents

\* A call that ends with an empty batch takes no event with it; an exception loses the rest
\* of the batch.
LEMMA PopEvents ==
  ASSUME BusShape, EventState, NEW t \in Threads, stack[t] # <<>>, Pop(t),
         lost' = lost \cup Numbers(Top(t).batch),
         UNCHANGED <<queue, next_sequence, delivered, overlapped, discarded>>
  PROVE  EventState'
<1> DEFINE gone == Numbers(Top(t).batch)
<1>1. /\ \A u, c, i, e : u # t => (HeldAt(u, c, i, e)' <=> HeldAt(u, c, i, e))
      /\ \A c \in Nat \ {0} : \A i, e : HeldAt(t, c, i, e)' <=> HeldAt(t, c + 1, i, e)
      /\ \A c, i, e : HeldAt(t, c, i, e)' => c \in Nat \ {0}
  BY PopHolds
<1>2. \A n : n \in gone <=> \E i, e : HeldAt(t, 1, i, e) /\ e.sequence = n
  <2>1. Top(t) = stack[t][1] /\ Top(t) \in Calls /\ 1 \in 1..Len(stack[t])
    BY TopFacts
  <2>2. Top(t).batch \in Seq(Events)
    BY <2>1 DEF Calls
  <2>3. \A n : n \in gone <=> n # 0 /\ \E i \in DOMAIN Top(t).batch : Top(t).batch[i].sequence = n
    BY DEF Numbers, ToSet
  <2>4. DOMAIN Top(t).batch = 1..Len(stack[t][1].batch)
    BY <2>1, <2>2
  <2>5. \A i, e : HeldAt(t, 1, i, e) <=> i \in DOMAIN Top(t).batch /\ Top(t).batch[i] = e /\ e.sequence # 0
    BY <2>1, <2>4 DEF HeldAt
  <2> DEFINE batch == Top(t).batch
  <2> HIDE DEF gone, batch
  <2>6. /\ \A n : n \in gone <=> n # 0 /\ \E i \in DOMAIN batch : batch[i].sequence = n
        /\ \A i, e : HeldAt(t, 1, i, e) <=> i \in DOMAIN batch /\ batch[i] = e /\ e.sequence # 0
    BY <2>3, <2>5, Zenon DEF batch
  <2> QED BY <2>6, Zenon
<1> HIDE DEF gone
<1>3. HeldUnique
  BY DEF EventState, Account
<1>4. ASSUME NEW u, NEW c, NEW i, NEW e, HeldAt(u, c, i, e)' PROVE c \in Nat /\ e.sequence \notin gone
  <2>1. CASE u # t
    <3>1. HeldAt(u, c, i, e)
      BY <1>1, <1>4, <2>1
    <3>2. c \in Nat
      BY <3>1, HeldFacts
    <3> QED BY <1>2, <1>3, <2>1, <3>1, <3>2 DEF HeldUnique
  <2>2. CASE u = t
    <3>1. c \in Nat \ {0} /\ HeldAt(t, c + 1, i, e)
      BY <1>1, <1>4, <2>2
    <3>2. c + 1 # 1
      BY <3>1
    <3> QED BY <1>2, <1>3, <3>1, <3>2 DEF HeldUnique
  <2> QED BY <2>1, <2>2
<1>5. ASSUME NEW u, NEW c, NEW i, NEW e, HeldAt(u, c, i, e)
      PROVE  (\E d : HeldAt(u, d, i, e)') \/ e.sequence \in gone
  <2>1. CASE u # t
    BY <1>1, <1>5, <2>1
  <2>2. CASE u = t /\ c = 1
    BY <1>2, <1>5, <2>2
  <2>3. CASE u = t /\ c # 1
    <3>1. c \in Nat \ {0}
      BY <1>5, HeldFacts
    <3>2. c - 1 \in Nat \ {0} /\ (c - 1) + 1 = c
      BY <2>3, <3>1
    <3> QED BY <1>1, <1>5, <2>3, <3>2
  <2> QED BY <2>1, <2>2, <2>3
<1>6. \A n \in gone : \E u, c, i, e : HeldAt(u, c, i, e) /\ e.sequence = n
  BY <1>2
<1>7. lost' = lost \cup gone
  BY DEF gone
<1> DEFINE k == 1
<1>8. /\ k \in Int
      /\ \A u, c, i, e : HeldAt(u, c, i, e)' /\ u # t => HeldAt(u, c, i, e)
      /\ \A c, i, e : HeldAt(t, c, i, e)' => HeldAt(t, c + k, i, e)
  BY <1>1
<1> HIDE DEF k
<1> QED BY <1>4, <1>5, <1>6, <1>7, <1>8, ShiftKeepsEvents

\* The first event of a batch is dispatched.
LEMMA TakeEvents ==
  ASSUME BusShape, EventShape, EventState, NEW t \in Threads, stack[t] # <<>>, NEW call \in Calls,
         ReplaceTop(t, call), Top(t).batch # <<>>, call.batch = Tail(Top(t).batch),
         delivered' = IF Head(Top(t).batch).sequence > 0 THEN Append(delivered, Head(Top(t).batch))
                      ELSE delivered,
         UNCHANGED <<queue, next_sequence, overlapped, discarded, lost>>
  PROVE  EventState' /\ delivered' \in Seq(Events)
<1> DEFINE event == Head(Top(t).batch)
           n == Len(delivered)
<1>0. /\ NumberState /\ QueueUnique /\ HeldUnique /\ DoneUnique /\ Apart /\ DroppedApart
      /\ CoverState /\ QueueOrder /\ FifoState
  BY DEF EventState, Account
<1>1. /\ \A u, c, i, e : ~(u = t /\ c = 1) => (HeldAt(u, c, i, e)' <=> HeldAt(u, c, i, e))
      /\ \A i \in Nat \ {0} : \A e : HeldAt(t, 1, i, e)' <=> HeldAt(t, 1, i + 1, e)
      /\ \A i, e : HeldAt(t, 1, i, e)' => i \in Nat \ {0}
      /\ \A e : HeldAt(t, 1, 1, e) <=> e = event /\ e.sequence # 0
      /\ event \in Events
  BY TakeHolds
<1>2. event.sequence \in Nat
  BY <1>1 DEF Events
<1>3. delivered' = IF event.sequence > 0 THEN Append(delivered, event) ELSE delivered
  OBVIOUS
<1> HIDE DEF event
<1>4. /\ delivered' \in Seq(Events) /\ n \in Nat
      /\ \A i, e : DoneAt(i, e)' <=> DoneAt(i, e) \/ (event.sequence # 0 /\ i = n + 1 /\ e = event)
  <2>1. delivered \in Seq(Events) /\ n \in Nat
    BY DEF EventShape
  <2>2. CASE event.sequence > 0
    <3>1. delivered' = Append(delivered, event) /\ event.sequence # 0
      BY <1>2, <1>3, <2>2
    <3>2. /\ delivered' \in Seq(Events) /\ Len(delivered') = n + 1 /\ delivered'[n + 1] = event
          /\ \A i \in 1..n : delivered'[i] = delivered[i]
      BY <1>1, <2>1, <3>1, AppendFacts
    <3>3. \A i : i \in 1..(n + 1) <=> i \in 1..n \/ i = n + 1
      BY <2>1
    <3>4. n + 1 \notin 1..n
      BY <2>1
    <3> QED BY <2>1, <3>1, <3>2, <3>3, <3>4 DEF DoneAt
  <2>3. CASE ~(event.sequence > 0)
    <3>1. delivered' = delivered /\ event.sequence = 0
      BY <1>2, <1>3, <2>3
    <3> QED BY <2>1, <3>1 DEF DoneAt
  <2> QED BY <2>2, <2>3
<1>5. \A p, i, e : QueuedAt(p, i, e)' <=> QueuedAt(p, i, e)
  BY DEF QueuedAt
<1>6. ASSUME NEW u, NEW c, NEW i, NEW e, HeldAt(u, c, i, e)'
      PROVE  /\ e.sequence # event.sequence
             /\ \E j : /\ HeldAt(u, c, j, e)
                       /\ u = t /\ c = 1 => i \in Nat /\ j = i + 1
                       /\ ~(u = t /\ c = 1) => j = i
  <2>1. PICK j : HeldAt(u, c, j, e) /\ (u = t /\ c = 1 => i \in Nat \ {0} /\ j = i + 1)
                                    /\ (~(u = t /\ c = 1) => j = i)
    <3>1. CASE u = t /\ c = 1
      BY <1>1, <1>6, <3>1
    <3>2. CASE ~(u = t /\ c = 1)
      BY <1>1, <1>6, <3>2
    <3> QED BY <3>1, <3>2
  <2>2. ~(u = t /\ c = 1 /\ j = 1)
    BY <2>1
  <2>3. e.sequence # 0
    BY <1>6 DEF HeldAt
  <2>4. e.sequence # event.sequence
    <3> SUFFICES ASSUME e.sequence = event.sequence PROVE FALSE
      OBVIOUS
    <3>1. HeldAt(t, 1, 1, event)
      BY <1>1, <2>3
    <3> QED BY <1>0, <2>1, <2>2, <3>1 DEF HeldUnique
  <2> QED BY <2>1, <2>4
<1>7. ASSUME NEW u, NEW c, NEW i, NEW e, HeldAt(u, c, i, e)
      PROVE  (\E j : HeldAt(u, c, j, e)') \/ (\E j : DoneAt(j, e)')
  <2>1. CASE ~(u = t /\ c = 1)
    BY <1>1, <1>7, <2>1
  <2>2. CASE u = t /\ c = 1 /\ i = 1
    <3>1. HeldAt(t, 1, 1, e)
      BY <1>7, <2>2
    <3>2. e = event /\ event.sequence # 0
      BY <1>1, <3>1
    <3>3. n + 1 = n + 1 /\ e = event /\ event.sequence # 0
      BY <3>2
    <3>4. \E j : DoneAt(j, e)'
      BY <1>4, <3>3
    <3> QED BY <3>4
  <2>3. CASE u = t /\ c = 1 /\ i # 1
    <3>1. i \in Nat \ {0}
      BY <1>7, HeldFacts
    <3>2. i - 1 \in Nat \ {0} /\ (i - 1) + 1 = i
      BY <2>3, <3>1
    <3> QED BY <1>1, <1>7, <2>3, <3>2
  <2> QED BY <2>1, <2>2, <2>3
<1>8. event.sequence # 0 => HeldAt(t, 1, 1, event)
  BY <1>1
<1>9. \A i, e : DoneAt(i, e) => i \in Nat /\ i < n + 1
  BY <1>4 DEF DoneAt
<1>10. NumberState'
  <2>1. event.sequence # 0 => event.sequence \in 1..(next_sequence - 1)
    BY <1>0, <1>8 DEF NumberState
  <2>2. \A i, e : DoneAt(i, e)' => e.sequence \in 1..(next_sequence - 1)
    BY <1>0, <1>4, <2>1 DEF NumberState
  <2>3. \A u, c, i, e : HeldAt(u, c, i, e)' => e.sequence \in 1..(next_sequence - 1)
    BY <1>0, <1>6 DEF NumberState
  <2> QED BY <1>0, <1>5, <2>2, <2>3 DEF NumberState
<1>11. QueueUnique' /\ QueueOrder'
  BY <1>0, <1>5 DEF QueueUnique, QueueOrder
<1>12. HeldUnique'
  <2> SUFFICES ASSUME NEW u, NEW c, NEW i, NEW e, NEW v, NEW d, NEW j, NEW f,
                      HeldAt(u, c, i, e)', HeldAt(v, d, j, f)', e.sequence = f.sequence
               PROVE  u = v /\ c = d /\ i = j
    BY DEF HeldUnique
  <2>1. PICK a : HeldAt(u, c, a, e) /\ (u = t /\ c = 1 => i \in Nat /\ a = i + 1)
                                    /\ (~(u = t /\ c = 1) => a = i)
    BY <1>6
  <2>2. PICK b : HeldAt(v, d, b, f) /\ (v = t /\ d = 1 => j \in Nat /\ b = j + 1)
                                    /\ (~(v = t /\ d = 1) => b = j)
    BY <1>6
  <2>3. u = v /\ c = d /\ a = b
    BY <1>0, <2>1, <2>2 DEF HeldUnique
  <2>4. i = j
    BY <2>1, <2>2, <2>3
  <2> QED BY <2>3, <2>4
<1>13. DoneUnique'
  <2>1. \A i, e : event.sequence # 0 /\ DoneAt(i, e) => e.sequence # event.sequence
    BY <1>0, <1>8 DEF Apart
  <2> QED BY <1>0, <1>4, <2>1 DEF DoneUnique
<1>14. Apart'
  <2>1. \A p, i, e : event.sequence # 0 /\ QueuedAt(p, i, e) => e.sequence # event.sequence
    BY <1>0, <1>8 DEF Apart
  <2>2. \A p, i, e, u, c, j, f : QueuedAt(p, i, e)' /\ HeldAt(u, c, j, f)' => e.sequence # f.sequence
    BY <1>0, <1>5, <1>6 DEF Apart
  <2>3. \A p, i, e, j, f : QueuedAt(p, i, e)' /\ DoneAt(j, f)' => e.sequence # f.sequence
    BY <1>0, <1>4, <1>5, <2>1 DEF Apart
  <2>4. \A u, c, i, e, j, f : HeldAt(u, c, i, e)' /\ DoneAt(j, f)' => e.sequence # f.sequence
    BY <1>0, <1>4, <1>6 DEF Apart
  <2> QED BY <2>2, <2>3, <2>4 DEF Apart
<1>15. DroppedApart'
  <2>1. event.sequence # 0 => event.sequence \notin discarded /\ event.sequence \notin lost
    BY <1>0, <1>8 DEF DroppedApart
  <2>2. \A i, e : DoneAt(i, e)' => e.sequence \notin discarded' /\ e.sequence \notin lost'
    BY <1>0, <1>4, <2>1 DEF DroppedApart
  <2>3. \A u, c, i, e : HeldAt(u, c, i, e)' => e.sequence \notin discarded' /\ e.sequence \notin lost'
    BY <1>0, <1>6 DEF DroppedApart
  <2> QED BY <1>0, <1>5, <2>2, <2>3 DEF DroppedApart
<1>16. CoverState'
  <2> SUFFICES ASSUME NEW m \in 1..(next_sequence - 1) PROVE Somewhere(m)'
    BY DEF CoverState
  <2>1. CASE \E u, c, i, e : HeldAt(u, c, i, e) /\ e.sequence = m
    BY <1>7, <2>1 DEF Somewhere
  <2>2. CASE ~\E u, c, i, e : HeldAt(u, c, i, e) /\ e.sequence = m
    <3>1. Somewhere(m)
      BY <1>0 DEF CoverState
    <3> QED BY <1>4, <1>5, <2>2, <3>1 DEF Somewhere
  <2> QED BY <2>1, <2>2
<1>17. FifoState'
  <2> SUFFICES ASSUME ~overlapped PROVE FifoState'
    BY DEF FifoState
  <2>0. /\ \A u, c, i, e, v, d, j, f : HeldAt(u, c, i, e) /\ HeldAt(v, d, j, f) => u = v /\ c = d
        /\ \A i, e, j, f : DoneAt(i, e) /\ DoneAt(j, f) /\ i < j /\ e.priority = f.priority =>
             e.sequence < f.sequence
        /\ \A i, e, u, c, j, f : DoneAt(i, e) /\ HeldAt(u, c, j, f) /\ e.priority = f.priority =>
             e.sequence < f.sequence
        /\ \A i, e, p, j, f : DoneAt(i, e) /\ QueuedAt(p, j, f) /\ e.priority = p => e.sequence < f.sequence
        /\ \A u, c, i, e, j, f : HeldAt(u, c, i, e) /\ HeldAt(u, c, j, f) /\ i < j /\ e.priority = f.priority =>
             e.sequence < f.sequence
        /\ \A u, c, i, e, p, j, f : HeldAt(u, c, i, e) /\ QueuedAt(p, j, f) /\ e.priority = p =>
             e.sequence < f.sequence
    BY <1>0 DEF FifoState
  <2>1. \A u, c, i, e, v, d, j, f : HeldAt(u, c, i, e)' /\ HeldAt(v, d, j, f)' => u = v /\ c = d
    BY <1>6, <2>0
  <2>2. ASSUME NEW i, NEW e, NEW j, NEW f, DoneAt(i, e)', DoneAt(j, f)', i < j, e.priority = f.priority
        PROVE  e.sequence < f.sequence
    <3>1. DoneAt(i, e)
      <4>1. CASE i = n + 1
        <5>1. j = n + 1 \/ (j \in Nat /\ j < n + 1)
          BY <1>4, <1>9, <2>2
        <5> QED BY <1>4, <2>2, <4>1, <5>1
      <4> QED BY <1>4, <2>2, <4>1
    <3>2. CASE DoneAt(j, f)
      BY <2>0, <2>2, <3>1, <3>2
    <3>3. CASE event.sequence # 0 /\ f = event
      BY <1>8, <2>0, <2>2, <3>1, <3>3
    <3> QED BY <1>4, <2>2, <3>2, <3>3
  <2>3. ASSUME NEW i, NEW e, NEW u, NEW c, NEW j, NEW f, DoneAt(i, e)', HeldAt(u, c, j, f)',
               e.priority = f.priority
        PROVE  e.sequence < f.sequence
    <3>1. PICK b : HeldAt(u, c, b, f) /\ (u = t /\ c = 1 => j \in Nat /\ b = j + 1)
      BY <1>6, <2>3
    <3>2. CASE DoneAt(i, e)
      BY <2>0, <2>3, <3>1, <3>2
    <3>3. CASE event.sequence # 0 /\ e = event
      <4>1. HeldAt(t, 1, 1, event)
        BY <1>8, <3>3
      <4>2. u = t /\ c = 1
        BY <2>0, <3>1, <4>1
      <4>3. j \in Nat \ {0}
        BY <1>1, <2>3, <4>2
      <4>4. 1 < b
        BY <3>1, <4>2, <4>3
      <4> QED BY <2>0, <2>3, <3>1, <3>3, <4>1, <4>2, <4>4
    <3> QED BY <1>4, <2>3, <3>2, <3>3
  <2>4. ASSUME NEW i, NEW e, NEW p, NEW j, NEW f, DoneAt(i, e)', QueuedAt(p, j, f)', e.priority = p
        PROVE  e.sequence < f.sequence
    <3>1. QueuedAt(p, j, f)
      BY <1>5, <2>4
    <3>2. CASE DoneAt(i, e)
      BY <2>0, <2>4, <3>1, <3>2
    <3>3. CASE event.sequence # 0 /\ e = event
      BY <1>8, <2>0, <2>4, <3>1, <3>3
    <3> QED BY <1>4, <2>4, <3>2, <3>3
  <2>5. ASSUME NEW u, NEW c, NEW i, NEW e, NEW j, NEW f, HeldAt(u, c, i, e)', HeldAt(u, c, j, f)',
               i < j, e.priority = f.priority
        PROVE  e.sequence < f.sequence
    <3>1. PICK a : HeldAt(u, c, a, e) /\ (u = t /\ c = 1 => i \in Nat /\ a = i + 1)
                                      /\ (~(u = t /\ c = 1) => a = i)
      BY <1>6, <2>5
    <3>2. PICK b : HeldAt(u, c, b, f) /\ (u = t /\ c = 1 => j \in Nat /\ b = j + 1)
                                      /\ (~(u = t /\ c = 1) => b = j)
      BY <1>6, <2>5
    <3>3. a < b
      BY <2>5, <3>1, <3>2
    <3> QED BY <2>0, <2>5, <3>1, <3>2, <3>3
  <2>6. ASSUME NEW u, NEW c, NEW i, NEW e, NEW p, NEW j, NEW f, HeldAt(u, c, i, e)', QueuedAt(p, j, f)',
               e.priority = p
        PROVE  e.sequence < f.sequence
    <3>1. PICK a : HeldAt(u, c, a, e)
      BY <1>6, <2>6
    <3>2. QueuedAt(p, j, f)
      BY <1>5, <2>6
    <3> QED BY <2>0, <2>6, <3>1, <3>2
  <2> QED BY <2>1, <2>2, <2>3, <2>4, <2>5, <2>6 DEF FifoState
<1> QED BY <1>4, <1>10, <1>11, <1>12, <1>13, <1>14, <1>15, <1>16, <1>17 DEF EventState, Account

\* An event is queued: it is the last of its class and has a new number.
LEMMA EnqueueEvents ==
  ASSUME EventShape, EventState, NEW type \in Types, NEW priority \in Priorities,
         queue' = [queue EXCEPT ![priority] =
                     Append(@, [type |-> type, priority |-> priority, sequence |-> next_sequence])],
         next_sequence' = next_sequence + 1,
         UNCHANGED <<stack, delivered, overlapped, discarded, lost>>
  PROVE  EventState' /\ queue' \in [Priorities -> Seq(Events)]
<1> DEFINE event == [type |-> type, priority |-> priority, sequence |-> next_sequence]
           n == Len(queue[priority])
<1>0. /\ NumberState /\ QueueUnique /\ HeldUnique /\ DoneUnique /\ Apart /\ DroppedApart
      /\ CoverState /\ QueueOrder /\ FifoState
  BY DEF EventState, Account
<1>1. /\ queue \in [Priorities -> Seq(Events)] /\ next_sequence \in Nat \ {0}
      /\ discarded' = discarded /\ lost' = lost /\ overlapped' = overlapped
  BY DEF EventShape
<1>2. /\ event \in Events /\ event.sequence = next_sequence /\ event.priority = priority
      /\ queue' = [queue EXCEPT ![priority] = Append(queue[priority], event)]
  BY <1>1 DEF Events
<1> HIDE DEF event
<1> DEFINE new == Append(queue[priority], event)
<1>3. /\ new \in Seq(Events) /\ n \in Nat /\ Len(new) = n + 1 /\ new[n + 1] = event
      /\ \A i \in 1..n : new[i] = queue[priority][i]
  <2>1. queue[priority] \in Seq(Events)
    BY <1>1
  <2> QED BY <1>2, <2>1, AppendFacts
<1> HIDE DEF new, n
<1>4. /\ queue' \in [Priorities -> Seq(Events)] /\ queue'[priority] = new
      /\ \A p \in Priorities : p # priority => queue'[p] = queue[p]
  BY <1>1, <1>2, <1>3 DEF new
<1>5. /\ \A t, c, i, e : HeldAt(t, c, i, e)' <=> HeldAt(t, c, i, e)
      /\ \A i, e : DoneAt(i, e)' <=> DoneAt(i, e)
  BY DEF HeldAt, DoneAt
<1>6. \A p, i, e : QueuedAt(p, i, e)' <=> QueuedAt(p, i, e) \/ (p = priority /\ i = n + 1 /\ e = event)
  <2> SUFFICES ASSUME NEW p, NEW i, NEW e
               PROVE  QueuedAt(p, i, e)' <=> QueuedAt(p, i, e) \/ (p = priority /\ i = n + 1 /\ e = event)
    OBVIOUS
  <2>1. CASE p # priority
    BY <1>4, <2>1 DEF QueuedAt
  <2>2. CASE p = priority
    <3>1. i \in 1..(n + 1) <=> i \in 1..n \/ i = n + 1
      BY <1>3
    <3>2. QueuedAt(p, i, e)' <=> i \in 1..(n + 1) /\ new[i] = e
      BY <1>3, <1>4, <2>2 DEF QueuedAt
    <3>3. QueuedAt(p, i, e) <=> i \in 1..n /\ queue[priority][i] = e
      BY <2>2 DEF QueuedAt, n
    <3> QED BY <1>3, <2>2, <3>1, <3>2, <3>3
  <2> QED BY <2>1, <2>2
<1>7. /\ \A p, i, e : QueuedAt(p, i, e) => e.sequence \in Nat /\ e.sequence < event.sequence
      /\ \A t, c, i, e : HeldAt(t, c, i, e) => e.sequence \in Nat /\ e.sequence < event.sequence
      /\ \A i, e : DoneAt(i, e) => e.sequence \in Nat /\ e.sequence < event.sequence
      /\ \A m \in discarded \cup lost : m \in Nat /\ m < event.sequence
  <2>1. \A m \in 1..(next_sequence - 1) : m \in Nat /\ m < event.sequence
    BY <1>1, <1>2
  <2>2. /\ \A p, i, e : QueuedAt(p, i, e) => e.sequence \in 1..(next_sequence - 1)
        /\ \A t, c, i, e : HeldAt(t, c, i, e) => e.sequence \in 1..(next_sequence - 1)
        /\ \A i, e : DoneAt(i, e) => e.sequence \in 1..(next_sequence - 1)
        /\ \A m \in discarded \cup lost : m \in 1..(next_sequence - 1)
    BY <1>0 DEF NumberState
  <2> QED BY <2>1, <2>2, Zenon
<1>8. /\ \A m \in 1..(next_sequence - 1) : m \in 1..(next_sequence' - 1)
      /\ event.sequence \in 1..(next_sequence' - 1)
      /\ \A m \in 1..(next_sequence' - 1) : m \in 1..(next_sequence - 1) \/ m = event.sequence
  BY <1>1, <1>2
<1>9. NumberState'
  <2>1. \A p, i, e : QueuedAt(p, i, e)' => e.priority = p /\ e.sequence \in 1..(next_sequence' - 1)
    BY <1>0, <1>2, <1>6, <1>8 DEF NumberState
  <2>2. \A t, c, i, e : HeldAt(t, c, i, e)' => e.sequence \in 1..(next_sequence' - 1)
    BY <1>0, <1>5, <1>8 DEF NumberState
  <2>3. \A i, e : DoneAt(i, e)' => e.sequence \in 1..(next_sequence' - 1)
    BY <1>0, <1>5, <1>8 DEF NumberState
  <2>4. discarded' \subseteq 1..(next_sequence' - 1) /\ lost' \subseteq 1..(next_sequence' - 1)
    BY <1>0, <1>1, <1>8 DEF NumberState
  <2> QED BY <2>1, <2>2, <2>3, <2>4 DEF NumberState
<1>10. \A p, i, e : QueuedAt(p, i, e) => e.sequence # event.sequence
  <2>1. event.sequence \in Nat
    BY <1>1, <1>2
  <2> QED BY <1>7, <2>1
<1>11. QueueUnique'
  BY <1>0, <1>6, <1>10 DEF QueueUnique
<1>12. HeldUnique' /\ DoneUnique'
  BY <1>0, <1>5 DEF HeldUnique, DoneUnique
<1>13. /\ \A t, c, i, e : HeldAt(t, c, i, e) => e.sequence # event.sequence
       /\ \A i, e : DoneAt(i, e) => e.sequence # event.sequence
       /\ event.sequence \notin discarded /\ event.sequence \notin lost
  <2>1. event.sequence \in Nat
    BY <1>1, <1>2
  <2> QED BY <1>7, <2>1
<1>14. Apart'
  BY <1>0, <1>5, <1>6, <1>13 DEF Apart
<1>15. DroppedApart'
  BY <1>0, <1>1, <1>5, <1>6, <1>13 DEF DroppedApart
<1>16. CoverState'
  <2> SUFFICES ASSUME NEW m \in 1..(next_sequence' - 1) PROVE Somewhere(m)'
    BY DEF CoverState
  <2>1. CASE m \in 1..(next_sequence - 1)
    <3>1. Somewhere(m)
      BY <1>0, <2>1 DEF CoverState
    <3> QED BY <1>1, <1>5, <1>6, <3>1 DEF Somewhere
  <2>2. CASE m = event.sequence
    <3>1. \E p, i, e : QueuedAt(p, i, e)' /\ e.sequence = m
      BY <1>6, <2>2
    <3> QED BY <3>1 DEF Somewhere
  <2> QED BY <1>8, <2>1, <2>2
<1>17. QueueOrder'
  <2> SUFFICES ASSUME NEW p, NEW i, NEW e, NEW j, NEW f,
                      QueuedAt(p, i, e)', QueuedAt(p, j, f)', i < j
               PROVE  e.sequence < f.sequence
    BY DEF QueueOrder
  <2>1. QueuedAt(p, i, e)
    <3> SUFFICES ASSUME p = priority, i = n + 1 PROVE FALSE
      BY <1>6
    <3>1. j \in 1..(n + 1)
      BY <1>3, <1>4 DEF QueuedAt
    <3> QED BY <1>3, <3>1
  <2>2. CASE QueuedAt(p, j, f)
    BY <1>0, <2>1, <2>2 DEF QueueOrder
  <2>3. CASE f = event
    BY <1>7, <2>1, <2>3
  <2> QED BY <1>6, <2>2, <2>3
<1>18. FifoState'
  <2> SUFFICES ASSUME ~overlapped PROVE FifoState'
    BY DEF FifoState
  <2>1. /\ \A t, c, i, e, u, d, j, f : HeldAt(t, c, i, e)' /\ HeldAt(u, d, j, f)' => t = u /\ c = d
        /\ \A i, e, j, f : DoneAt(i, e)' /\ DoneAt(j, f)' /\ i < j /\ e.priority = f.priority =>
             e.sequence < f.sequence
        /\ \A i, e, t, c, j, f : DoneAt(i, e)' /\ HeldAt(t, c, j, f)' /\ e.priority = f.priority =>
             e.sequence < f.sequence
        /\ \A t, c, i, e, j, f : HeldAt(t, c, i, e)' /\ HeldAt(t, c, j, f)' /\ i < j /\ e.priority = f.priority =>
             e.sequence < f.sequence
    BY <1>0, <1>5 DEF FifoState
  <2>2. \A i, e, p, j, f : DoneAt(i, e)' /\ QueuedAt(p, j, f)' /\ e.priority = p => e.sequence < f.sequence
    BY <1>0, <1>5, <1>6, <1>7 DEF FifoState
  <2>3. ASSUME NEW t, NEW c, NEW i, NEW e, NEW p, NEW j, NEW f, HeldAt(t, c, i, e)', QueuedAt(p, j, f)',
               e.priority = p
        PROVE  e.sequence < f.sequence
    <3>1. HeldAt(t, c, i, e)
      BY <1>5, <2>3
    <3>2. CASE QueuedAt(p, j, f)
      BY <1>0, <2>3, <3>1, <3>2 DEF FifoState
    <3>3. CASE f = event
      BY <1>7, <3>1, <3>3
    <3> QED BY <1>6, <2>3, <3>2, <3>3
  <2> QED BY <2>1, <2>2, <2>3 DEF FifoState
<1> QED BY <1>4, <1>9, <1>11, <1>12, <1>14, <1>15, <1>16, <1>17, <1>18 DEF EventState, Account

\* The queues are emptied.
LEMMA DiscardEvents ==
  ASSUME EventShape, EventState,
         discarded' = discarded \cup UNION {Numbers(queue[p]) : p \in Priorities},
         queue' = [p \in Priorities |-> <<>>],
         UNCHANGED <<next_sequence, stack, delivered, overlapped, lost>>
  PROVE  EventState' /\ queue' \in [Priorities -> Seq(Events)]
<1> DEFINE gone == UNION {Numbers(queue[p]) : p \in Priorities}
<1>0. /\ NumberState /\ QueueUnique /\ HeldUnique /\ DoneUnique /\ Apart /\ DroppedApart
      /\ CoverState /\ QueueOrder /\ FifoState
  BY DEF EventState, Account
<1>1. /\ \A t, c, i, e : HeldAt(t, c, i, e)' <=> HeldAt(t, c, i, e)
      /\ \A i, e : DoneAt(i, e)' <=> DoneAt(i, e)
  BY DEF HeldAt, DoneAt
<1>2. queue' \in [Priorities -> Seq(Events)] /\ \A p, i, e : ~QueuedAt(p, i, e)'
  <2>1. <<>> \in Seq(Events) /\ \A i : i \notin 1..Len(<<>>)
    OBVIOUS
  <2>2. \A p \in Priorities : queue'[p] = <<>>
    OBVIOUS
  <2> QED BY <2>1, <2>2 DEF QueuedAt
<1>3. \A n : n \in gone <=> \E p, i, e : QueuedAt(p, i, e) /\ e.sequence = n
  <2>1. \A n : n \in gone <=> \E p \in Priorities : n \in Numbers(queue[p])
    OBVIOUS
  <2>2. \A p \in Priorities : DOMAIN queue[p] = 1..Len(queue[p])
    BY DEF EventShape
  <2>3. \A p \in Priorities : \A n : n \in Numbers(queue[p]) <=>
          n # 0 /\ \E i \in DOMAIN queue[p] : queue[p][i].sequence = n
    BY DEF Numbers, ToSet
  <2>4. \A p, i, e : QueuedAt(p, i, e) => e.sequence # 0
    <3>1. next_sequence \in Nat /\ 0 \notin 1..(next_sequence - 1)
      BY DEF EventShape
    <3> QED BY <1>0, <3>1 DEF NumberState
  <2> HIDE DEF gone
  <2>5. ASSUME NEW n, n \in gone PROVE \E p, i, e : QueuedAt(p, i, e) /\ e.sequence = n
    <3>1. PICK p \in Priorities : n \in Numbers(queue[p])
      BY <2>1, <2>5
    <3>2. PICK i \in DOMAIN queue[p] : queue[p][i].sequence = n
      BY <2>3, <3>1
    <3>3. QueuedAt(p, i, queue[p][i])
      BY <2>2, <3>2 DEF QueuedAt
    <3> QED BY <3>2, <3>3
  <2>6. ASSUME NEW p, NEW i, NEW e, QueuedAt(p, i, e) PROVE e.sequence \in gone
    <3>1. p \in Priorities /\ i \in DOMAIN queue[p] /\ queue[p][i].sequence = e.sequence /\ e.sequence # 0
      BY <2>2, <2>4, <2>6 DEF QueuedAt
    <3>2. e.sequence \in Numbers(queue[p])
      BY <2>3, <3>1
    <3> QED BY <2>1, <3>1, <3>2
  <2> QED BY <2>5, <2>6
<1>4. discarded' = discarded \cup gone
  OBVIOUS
<1> HIDE DEF gone
<1>5. NumberState'
  <2>1. \A n \in gone : n \in 1..(next_sequence - 1)
    BY <1>0, <1>3 DEF NumberState
  <2>2. discarded' \subseteq 1..(next_sequence - 1)
    BY <1>0, <1>4, <2>1 DEF NumberState
  <2> QED BY <1>0, <1>1, <1>2, <2>2 DEF NumberState
<1>6. QueueUnique' /\ HeldUnique' /\ DoneUnique' /\ QueueOrder'
  BY <1>0, <1>1, <1>2 DEF QueueUnique, HeldUnique, DoneUnique, QueueOrder
<1>7. Apart'
  BY <1>0, <1>1, <1>2 DEF Apart
<1>8. DroppedApart'
  <2>1. \A t, c, i, e : HeldAt(t, c, i, e) => e.sequence \notin gone
    BY <1>0, <1>3 DEF Apart
  <2>2. \A i, e : DoneAt(i, e) => e.sequence \notin gone
    BY <1>0, <1>3 DEF Apart
  <2>3. \A n \in gone : n \notin lost
    BY <1>0, <1>3 DEF DroppedApart
  <2>4. \A n \in discarded' : n \notin lost'
    BY <1>0, <1>4, <2>3 DEF DroppedApart
  <2>5. \A t, c, i, e : HeldAt(t, c, i, e)' => e.sequence \notin discarded' /\ e.sequence \notin lost'
    BY <1>0, <1>1, <1>4, <2>1 DEF DroppedApart
  <2>6. \A i, e : DoneAt(i, e)' => e.sequence \notin discarded' /\ e.sequence \notin lost'
    BY <1>0, <1>1, <1>4, <2>2 DEF DroppedApart
  <2> QED BY <1>2, <2>4, <2>5, <2>6 DEF DroppedApart
<1>9. CoverState'
  <2> SUFFICES ASSUME NEW n \in 1..(next_sequence - 1) PROVE Somewhere(n)'
    BY DEF CoverState
  <2>1. Somewhere(n)
    BY <1>0 DEF CoverState
  <2> QED BY <1>1, <1>3, <1>4, <2>1 DEF Somewhere
<1>10. FifoState'
  BY <1>0, <1>1, <1>2 DEF FifoState
<1> QED BY <1>2, <1>5, <1>6, <1>7, <1>8, <1>9, <1>10 DEF EventState, Account

-----------------------------------------------------------------------------
(***************************************************************************)
(* DrainDeferred.                                                          *)
(***************************************************************************)
\* The visits of one class go through its rounds.
LEMMA VisitFacts ==
  /\ \A v \in Nat \ {0} : ClassAt(v) \in Priorities /\ RoundAt(v) \in Nat \ {0}
  /\ \A v, w \in Nat \ {0} : v < w /\ ClassAt(v) = ClassAt(w) => RoundAt(v) < RoundAt(w)
  /\ \A v \in Nat \ {0} : \A i \in 1..RoundAt(v) :
       i < RoundAt(v) => \E w \in Nat \ {0} : w < v /\ ClassAt(w) = ClassAt(v) /\ RoundAt(w) = i
<1>1. \A x \in Nat : x \div 3 \in Nat /\ x % 3 \in 0..2 /\ x = 3 * (x \div 3) + (x % 3)
  BY SMT
<1>2. \A q \in Nat, r \in 0..2 : (3 * q + r) \div 3 = q /\ (3 * q + r) % 3 = r
  BY SMT
<1>3. /\ ClassOrder[1] = "High" /\ ClassOrder[2] = "Normal" /\ ClassOrder[3] = "Low"
      /\ "High" # "Normal" /\ "Normal" # "Low" /\ "High" # "Low"
  BY DEF ClassOrder
<1>4. ASSUME NEW v \in Nat \ {0} PROVE ClassAt(v) \in Priorities /\ RoundAt(v) \in Nat \ {0}
  <2>1. v - 1 \in Nat
    OBVIOUS
  <2>2. (v - 1) \div 3 \in Nat /\ (v - 1) % 3 \in 0..2
    BY <1>1, <2>1
  <2> QED BY <1>3, <2>2 DEF ClassAt, RoundAt, Priorities
<1>5. ASSUME NEW v \in Nat \ {0}, NEW w \in Nat \ {0}, v < w, ClassAt(v) = ClassAt(w)
      PROVE  RoundAt(v) < RoundAt(w)
  <2> DEFINE q == (v - 1) \div 3
             r == (v - 1) % 3
             qw == (w - 1) \div 3
             rw == (w - 1) % 3
  <2>1. v - 1 \in Nat /\ w - 1 \in Nat
    OBVIOUS
  <2>2. q \in Nat /\ r \in 0..2 /\ v - 1 = 3 * q + r /\ qw \in Nat /\ rw \in 0..2 /\ w - 1 = 3 * qw + rw
    BY <1>1, <2>1
  <2>3. RoundAt(v) = q + 1 /\ RoundAt(w) = qw + 1 /\ ClassOrder[r + 1] = ClassOrder[rw + 1]
    BY <1>5 DEF ClassAt, RoundAt
  <2> HIDE DEF q, r, qw, rw
  <2>4. r = rw
    <3>1. r \in {0, 1, 2} /\ rw \in {0, 1, 2}
      BY <2>2
    <3> QED BY <1>3, <2>3, <3>1
  <2>5. q < qw
    BY <1>5, <2>2, <2>4
  <2> QED BY <2>2, <2>3, <2>5
<1>6. ASSUME NEW v \in Nat \ {0}, NEW i \in 1..RoundAt(v), i < RoundAt(v)
      PROVE  \E w \in Nat \ {0} : w < v /\ ClassAt(w) = ClassAt(v) /\ RoundAt(w) = i
  <2> DEFINE q == (v - 1) \div 3
             r == (v - 1) % 3
             w == (3 * (i - 1) + r) + 1
  <2>1. v - 1 \in Nat
    OBVIOUS
  <2>2. q \in Nat /\ r \in 0..2 /\ v - 1 = 3 * q + r
    BY <1>1, <2>1
  <2>3. RoundAt(v) = q + 1 /\ ClassAt(v) = ClassOrder[r + 1]
    BY DEF ClassAt, RoundAt
  <2> HIDE DEF q, r
  <2>4. i - 1 \in Nat /\ i \in Nat /\ i - 1 < q
    BY <1>6, <2>2, <2>3
  <2>5. w \in Nat \ {0} /\ w - 1 = 3 * (i - 1) + r /\ w < v
    BY <2>2, <2>4
  <2>6. (w - 1) \div 3 = i - 1 /\ (w - 1) % 3 = r
    BY <1>2, <2>2, <2>4, <2>5
  <2>7. RoundAt(w) = i /\ ClassAt(w) = ClassOrder[r + 1]
    BY <2>4, <2>6 DEF RoundAt, ClassAt
  <2> QED BY <2>3, <2>5, <2>7
<1> QED BY <1>4, <1>5, <1>6

\* The batch takes a prefix of each class, in its order.
LEMMA PoppedFacts ==
  ASSUME EventShape, NEW max \in Nat
  PROVE  /\ Popped(max) \in Seq(Events) /\ Len(Popped(max)) \in Nat
         /\ \A k \in 1..Len(Popped(max)) :
              QueuedAt(ClassAt(Place(Visits, k)), RoundAt(Place(Visits, k)), Popped(max)[k])
         /\ \A k, l \in 1..Len(Popped(max)) :
              k < l /\ ClassAt(Place(Visits, k)) = ClassAt(Place(Visits, l)) =>
                RoundAt(Place(Visits, k)) < RoundAt(Place(Visits, l))
         /\ \A l \in 1..Len(Popped(max)) : \A i, e :
              QueuedAt(ClassAt(Place(Visits, l)), i, e) /\ i < RoundAt(Place(Visits, l)) =>
                \E k \in 1..Len(Popped(max)) : Popped(max)[k] = e
<1> DEFINE at(k) == Place(Visits, k)
           n == Cardinality(Visits)
           m == Min({n, max})
           batch == Popped(max)
<1>1. queue \in [Priorities -> Seq(Events)] /\ \A p \in Priorities : Len(queue[p]) \in Nat
  BY DEF EventShape
<1>2. DeferredCount \in Nat
  BY <1>1 DEF DeferredCount, Priorities
<1>3. Visits \in SUBSET Nat /\ 0 \notin Visits /\ IsFiniteSet(Visits)
  <2>1. Visits \subseteq 1..(3 * DeferredCount)
    BY DEF Visits
  <2>2. 3 * DeferredCount \in Nat /\ 1 \in Int
    BY <1>2
  <2>3. IsFiniteSet(1..(3 * DeferredCount))
    BY <2>2, FS_Interval
  <2>4. IsFiniteSet(Visits)
    BY <2>1, <2>3, FS_Subset
  <2>5. \A v \in 1..(3 * DeferredCount) : v \in Nat /\ v # 0
    BY <2>2
  <2> QED BY <2>1, <2>4, <2>5
<1>4. /\ n \in Nat
      /\ \A k \in 1..n : at(k) \in Visits
      /\ \A k, l \in 1..n : k < l => at(k) < at(l)
      /\ \A i \in Visits : \E k \in 1..n : at(k) = i
  BY <1>3, PlaceFacts
<1>5. m \in Nat /\ m <= n
  <2>1. {n, max} \in SUBSET Nat /\ {n, max} # {}
    BY <1>4
  <2>2. m \in {n, max} /\ \A y \in {n, max} : m <= y
    BY <2>1, MinFacts
  <2> QED BY <1>4, <2>2
<1>6. \A v \in Visits : v \in Nat \ {0} /\ v \in 1..(3 * DeferredCount) /\ RoundAt(v) <= Len(queue[ClassAt(v)])
  BY <1>3 DEF Visits
<1>7. ASSUME NEW v \in Visits
      PROVE  ClassAt(v) \in Priorities /\ RoundAt(v) \in 1..Len(queue[ClassAt(v)]) /\ EventAt(v) \in Events
             /\ QueuedAt(ClassAt(v), RoundAt(v), EventAt(v))
  <2>1. ClassAt(v) \in Priorities /\ RoundAt(v) \in Nat \ {0}
    BY <1>6, VisitFacts
  <2>2. RoundAt(v) \in 1..Len(queue[ClassAt(v)])
    BY <1>1, <1>6, <2>1
  <2>3. queue[ClassAt(v)] \in Seq(Events)
    BY <1>1, <2>1
  <2> HIDE DEF EventAt
  <2>4. EventAt(v) = queue[ClassAt(v)][RoundAt(v)]
    BY DEF EventAt
  <2>5. EventAt(v) \in Events
    BY <2>2, <2>3, <2>4
  <2> QED BY <2>1, <2>2, <2>4, <2>5 DEF QueuedAt
<1>8. batch = [k \in 1..m |-> EventAt(at(k))]
  BY DEF Popped
<1> HIDE DEF batch, m, n, at
<1>9. \A k \in 1..m : k \in 1..n /\ at(k) \in Visits
  <2>1. \A k \in 1..m : k \in 1..n
    BY <1>4, <1>5
  <2> QED BY <1>4, <2>1
<1>10. batch \in Seq(Events) /\ Len(batch) = m /\ \A k \in 1..m : batch[k] = EventAt(at(k))
  <2>1. \A k \in 1..m : EventAt(at(k)) \in Events
    BY <1>7, <1>9
  <2>2. batch \in [1..m -> Events]
    BY <1>8, <2>1
  <2>3. batch \in Seq(Events) /\ Len(batch) = m
    BY <1>5, <2>2
  <2> QED BY <1>8, <2>3
<1>11. \A k \in 1..m : QueuedAt(ClassAt(at(k)), RoundAt(at(k)), batch[k])
  BY <1>7, <1>9, <1>10
<1>12. ASSUME NEW k \in 1..m, NEW l \in 1..m, k < l, ClassAt(at(k)) = ClassAt(at(l))
       PROVE  RoundAt(at(k)) < RoundAt(at(l))
  <2>1. at(k) < at(l) /\ at(k) \in Nat \ {0} /\ at(l) \in Nat \ {0}
    BY <1>4, <1>6, <1>9, <1>12
  <2> QED BY <1>12, <2>1, VisitFacts
<1>13. ASSUME NEW l \in 1..m, NEW i, NEW e, QueuedAt(ClassAt(at(l)), i, e), i < RoundAt(at(l))
       PROVE  \E k \in 1..m : batch[k] = e
  <2> DEFINE v == at(l)
  <2>1. v \in Visits /\ v \in Nat \ {0} /\ l \in 1..n
    BY <1>6, <1>9
  <2>2. ClassAt(v) \in Priorities /\ RoundAt(v) \in 1..Len(queue[ClassAt(v)])
    BY <1>7, <2>1
  <2>3. i \in 1..Len(queue[ClassAt(v)]) /\ queue[ClassAt(v)][i] = e /\ i < RoundAt(v)
    BY <1>13 DEF QueuedAt
  <2> HIDE DEF v
  <2>4. Len(queue[ClassAt(v)]) \in Nat
    BY <1>1, <2>2
  <2>5. i \in 1..RoundAt(v)
    BY <2>2, <2>3, <2>4
  <2>6. PICK w \in Nat \ {0} : w < v /\ ClassAt(w) = ClassAt(v) /\ RoundAt(w) = i
    BY <2>1, <2>3, <2>5, VisitFacts
  <2>7. w \in Visits
    <3>1. v \in 1..(3 * DeferredCount)
      BY <1>6, <2>1
    <3>2. w \in 1..(3 * DeferredCount)
      BY <1>2, <2>6, <3>1
    <3>3. RoundAt(w) <= Len(queue[ClassAt(w)])
      BY <2>3, <2>4, <2>6
    <3> QED BY <3>2, <3>3 DEF Visits
  <2>8. PICK k \in 1..n : at(k) = w
    BY <1>4, <2>7
  <2>9. k < l
    <3> SUFFICES ASSUME ~(k < l) PROVE FALSE
      OBVIOUS
    <3>1. k = l \/ l < k
      BY <1>4, <2>1, <2>8
    <3>2. CASE k = l
      BY <2>1, <2>6, <2>8, <3>2 DEF v
    <3>3. CASE l < k
      <4>1. v < w
        BY <1>4, <2>1, <2>8, <3>3 DEF v
      <4> QED BY <2>1, <2>6, <4>1
    <3> QED BY <3>1, <3>2, <3>3
  <2>10. k \in 1..m
    BY <1>4, <1>5, <2>8, <2>9
  <2>11. batch[k] = e
    BY <1>10, <2>3, <2>6, <2>8, <2>10 DEF EventAt
  <2> QED BY <2>10, <2>11
<1>14. /\ batch \in Seq(Events) /\ Len(batch) \in Nat
       /\ \A k \in 1..Len(batch) : QueuedAt(ClassAt(at(k)), RoundAt(at(k)), batch[k])
       /\ \A k, l \in 1..Len(batch) :
            k < l /\ ClassAt(at(k)) = ClassAt(at(l)) => RoundAt(at(k)) < RoundAt(at(l))
       /\ \A l \in 1..Len(batch) : \A i, e :
            QueuedAt(ClassAt(at(l)), i, e) /\ i < RoundAt(at(l)) => \E k \in 1..Len(batch) : batch[k] = e
  BY <1>5, <1>10, <1>11, <1>12, <1>13
<1> QED BY <1>14 DEF batch, at

\* Where the i-th event that stays in class p was.
From(batch, p, i) == Place(Places(queue[p], ToSet(queue[p]) \ ToSet(batch)), i)

\* What is not popped stays, in its order.
LEMMA RemainingFacts ==
  ASSUME EventShape, NEW batch, queue' = Remaining(batch)
  PROVE  /\ queue' \in [Priorities -> Seq(Events)]
         /\ \A p, i, e : QueuedAt(p, i, e)' => QueuedAt(p, From(batch, p, i), e) /\ e \notin ToSet(batch)
         /\ \A p, i, e, j, f : QueuedAt(p, i, e)' /\ QueuedAt(p, j, f)' /\ i < j =>
              From(batch, p, i) < From(batch, p, j)
         /\ \A p, i, e : QueuedAt(p, i, e) /\ e \notin ToSet(batch) => \E j : QueuedAt(p, j, e)'
<1> DEFINE kept(p) == ToSet(queue[p]) \ ToSet(batch)
<1>1. \A p \in Priorities : queue[p] \in Seq(Events) /\ DOMAIN queue[p] = 1..Len(queue[p])
  BY DEF EventShape
<1>2. ASSUME NEW p \in Priorities
      PROVE  LET r == Keep(queue[p], kept(p))
                 I == Places(queue[p], kept(p))
             IN /\ r \in Seq(Events) /\ Len(r) \in Nat /\ DOMAIN r = 1..Len(r)
                /\ \A k \in DOMAIN r : /\ Place(I, k) \in DOMAIN queue[p]
                                       /\ r[k] = queue[p][Place(I, k)] /\ r[k] \in kept(p)
                /\ \A k, l \in DOMAIN r : k < l => Place(I, k) < Place(I, l)
                /\ \A i \in DOMAIN queue[p] : queue[p][i] \in kept(p) => \E k \in DOMAIN r : Place(I, k) = i
  <2> HIDE DEF kept
  <2>1. queue[p] \in Seq(Events)
    BY <1>1
  <2> QED BY <2>1, KeepFacts
<1>3. \A p \in Priorities : queue'[p] = Keep(queue[p], kept(p))
  BY DEF Remaining
<1>4. ASSUME NEW p \in Priorities
      PROVE  /\ queue'[p] \in Seq(Events) /\ Len(queue'[p]) \in Nat /\ DOMAIN queue'[p] = 1..Len(queue'[p])
             /\ \A k \in 1..Len(queue'[p]) : /\ From(batch, p, k) \in 1..Len(queue[p])
                                             /\ queue'[p][k] = queue[p][From(batch, p, k)]
                                             /\ queue'[p][k] \in kept(p)
             /\ \A k, l \in 1..Len(queue'[p]) : k < l => From(batch, p, k) < From(batch, p, l)
             /\ \A i \in 1..Len(queue[p]) : queue[p][i] \in kept(p) =>
                  \E k \in 1..Len(queue'[p]) : From(batch, p, k) = i
  <2> DEFINE I == Places(queue[p], kept(p))
             r == Keep(queue[p], kept(p))
  <2>1. /\ r \in Seq(Events) /\ Len(r) \in Nat /\ DOMAIN r = 1..Len(r)
        /\ \A k \in DOMAIN r : /\ Place(I, k) \in DOMAIN queue[p]
                               /\ r[k] = queue[p][Place(I, k)] /\ r[k] \in kept(p)
        /\ \A k, l \in DOMAIN r : k < l => Place(I, k) < Place(I, l)
        /\ \A i \in DOMAIN queue[p] : queue[p][i] \in kept(p) => \E k \in DOMAIN r : Place(I, k) = i
    BY <1>2
  <2>2. \A k : From(batch, p, k) = Place(I, k)
    BY DEF From
  <2>3. queue'[p] = r /\ DOMAIN queue[p] = 1..Len(queue[p])
    BY <1>1, <1>3
  <2> HIDE DEF I, r, kept
  <2>4. /\ \A k \in 1..Len(r) : /\ From(batch, p, k) \in 1..Len(queue[p])
                               /\ r[k] = queue[p][From(batch, p, k)] /\ r[k] \in kept(p)
        /\ \A k, l \in 1..Len(r) : k < l => From(batch, p, k) < From(batch, p, l)
    BY <2>1, <2>2, <2>3
  <2>5. \A i \in 1..Len(queue[p]) : queue[p][i] \in kept(p) => \E k \in 1..Len(r) : From(batch, p, k) = i
    BY <2>1, <2>2, <2>3, Zenon
  <2> QED BY <2>1, <2>3, <2>4, <2>5, Zenon
<1>5. queue' \in [Priorities -> Seq(Events)]
  <2>1. queue' = [p \in Priorities |-> Keep(queue[p], kept(p))]
    BY DEF Remaining
  <2>2. \A p \in Priorities : Keep(queue[p], kept(p)) \in Seq(Events)
    BY <1>2
  <2> QED BY <2>1, <2>2
<1>6. \A p : \A e \in kept(p) : e \notin ToSet(batch)
  OBVIOUS
<1>7. \A p \in Priorities : \A i \in 1..Len(queue[p]) : queue[p][i] \notin ToSet(batch) => queue[p][i] \in kept(p)
  BY <1>1 DEF ToSet
<1> HIDE DEF kept
<1>8. ASSUME NEW p, NEW i, NEW e, QueuedAt(p, i, e)'
      PROVE  QueuedAt(p, From(batch, p, i), e) /\ e \notin ToSet(batch)
  <2>1. p \in Priorities /\ i \in 1..Len(queue'[p]) /\ queue'[p][i] = e
    BY <1>8 DEF QueuedAt
  <2> QED BY <1>4, <1>6, <2>1 DEF QueuedAt
<1>9. ASSUME NEW p, NEW i, NEW e, NEW j, NEW f, QueuedAt(p, i, e)', QueuedAt(p, j, f)', i < j
      PROVE  From(batch, p, i) < From(batch, p, j)
  <2>1. p \in Priorities /\ i \in 1..Len(queue'[p]) /\ j \in 1..Len(queue'[p])
    BY <1>9 DEF QueuedAt
  <2> QED BY <1>4, <1>9, <2>1
<1>10. ASSUME NEW p, NEW i, NEW e, QueuedAt(p, i, e), e \notin ToSet(batch)
       PROVE  \E j : QueuedAt(p, j, e)'
  <2>1. p \in Priorities /\ i \in 1..Len(queue[p]) /\ queue[p][i] = e
    BY <1>10 DEF QueuedAt
  <2>2. PICK k \in 1..Len(queue'[p]) : From(batch, p, k) = i
    BY <1>4, <1>7, <1>10, <2>1
  <2>3. queue'[p][k] = e
    BY <1>4, <2>1, <2>2
  <2>4. QueuedAt(p, k, e)'
    BY <2>1, <2>2, <2>3 DEF QueuedAt
  <2> QED BY <2>4
<1> QED BY <1>5, <1>8, <1>9, <1>10

\* No call holds a deferred event when no batch in flight has a number.
LEMMA InFlightFacts ==
  ASSUME BusShape, ~(\E batch \in InFlight : Numbers(batch) # {})
  PROVE  \A t, c, i, e : ~HeldAt(t, c, i, e)
<1> SUFFICES ASSUME NEW t, NEW c, NEW i, NEW e, HeldAt(t, c, i, e) PROVE FALSE
  OBVIOUS
<1>1. /\ t \in Threads /\ c \in 1..Len(stack[t]) /\ i \in 1..Len(stack[t][c].batch)
      /\ stack[t][c] \in Calls /\ stack[t][c].batch[i] = e /\ e.sequence # 0
  BY HeldFacts
<1>2. stack[t] \in Seq(Calls) /\ stack[t][c].batch \in Seq(Events)
  BY <1>1 DEF BusShape, Calls
<1>3. c \in DOMAIN stack[t] /\ i \in DOMAIN stack[t][c].batch
  BY <1>1, <1>2
<1>4. stack[t][c].batch \in InFlight
  BY <1>1, <1>3 DEF InFlight
<1>5. e.sequence \in Numbers(stack[t][c].batch)
  BY <1>1, <1>3 DEF Numbers, ToSet
<1> QED BY <1>4, <1>5

\* Events move from the queues to the batch of a new call.
LEMMA DrainEvents ==
  ASSUME BusShape, EventShape, EventState, NEW t \in Threads, NEW max \in Nat,
         Push(t, Popped(max)), queue' = Remaining(Popped(max)),
         overlapped' = (overlapped \/ \E batch \in InFlight : Numbers(batch) # {}),
         UNCHANGED <<next_sequence, delivered, discarded, lost>>
  PROVE  EventState' /\ queue' \in [Priorities -> Seq(Events)]
<1> DEFINE batch == Popped(max)
           class(k) == ClassAt(Place(Visits, k))
           round(k) == RoundAt(Place(Visits, k))
           from(p, i) == From(batch, p, i)
<1>0. /\ NumberState /\ QueueUnique /\ HeldUnique /\ DoneUnique /\ Apart /\ DroppedApart
      /\ CoverState /\ QueueOrder /\ FifoState
  BY DEF EventState, Account
<1>1. /\ batch \in Seq(Events) /\ Len(batch) \in Nat
      /\ \A k \in 1..Len(batch) : QueuedAt(class(k), round(k), batch[k])
      /\ \A k, l \in 1..Len(batch) : k < l /\ class(k) = class(l) => round(k) < round(l)
      /\ \A l \in 1..Len(batch) : \A i, e :
           QueuedAt(class(l), i, e) /\ i < round(l) => \E k \in 1..Len(batch) : batch[k] = e
  BY PoppedFacts
<1> HIDE DEF batch, class, round
<1>2. Push(t, batch) /\ queue' = Remaining(batch)
  BY DEF batch
<1>3. /\ queue' \in [Priorities -> Seq(Events)]
      /\ \A p, i, e : QueuedAt(p, i, e)' => QueuedAt(p, from(p, i), e) /\ e \notin ToSet(batch)
      /\ \A p, i, e, j, f : QueuedAt(p, i, e)' /\ QueuedAt(p, j, f)' /\ i < j => from(p, i) < from(p, j)
      /\ \A p, i, e : QueuedAt(p, i, e) /\ e \notin ToSet(batch) => \E j : QueuedAt(p, j, e)'
  BY <1>2, RemainingFacts
<1> HIDE DEF from
<1>4. \A e : e \in ToSet(batch) <=> \E k \in 1..Len(batch) : batch[k] = e
  <2>1. DOMAIN batch = 1..Len(batch)
    BY <1>1
  <2> QED BY <2>1 DEF ToSet
<1>5. /\ \A u, c, i, e : u # t => (HeldAt(u, c, i, e)' <=> HeldAt(u, c, i, e))
      /\ \A i, e : HeldAt(t, 1, i, e)' <=> i \in 1..Len(batch) /\ batch[i] = e /\ e.sequence # 0
      /\ \A c \in Nat \ {0} : \A i, e : HeldAt(t, c + 1, i, e)' <=> HeldAt(t, c, i, e)
      /\ \A c, i, e : HeldAt(t, c, i, e)' => c = 1 \/ (c - 1 \in Nat \ {0} /\ (c - 1) + 1 = c)
  BY <1>1, <1>2, PushHolds
<1>6. \A i, e : DoneAt(i, e)' <=> DoneAt(i, e)
  BY DEF DoneAt
<1>7. ASSUME NEW k \in 1..Len(batch)
      PROVE  batch[k].sequence # 0 /\ batch[k].priority = class(k) /\ \A e : batch[k] = e => HeldAt(t, 1, k, e)'
  <2>1. QueuedAt(class(k), round(k), batch[k])
    BY <1>1
  <2>2. batch[k].priority = class(k) /\ batch[k].sequence \in 1..(next_sequence - 1)
    BY <1>0, <2>1 DEF NumberState
  <2>3. batch[k].sequence # 0
    BY <2>2 DEF EventShape
  <2> QED BY <1>5, <2>2, <2>3
\* What is held was held before, or was queued.
<1>8. ASSUME NEW u, NEW c, NEW i, NEW e, HeldAt(u, c, i, e)'
      PROVE  \/ u = t /\ c = 1 /\ i \in 1..Len(batch) /\ batch[i] = e
             \/ u # t /\ HeldAt(u, c, i, e)
             \/ u = t /\ c # 1 /\ c - 1 \in Nat \ {0} /\ (c - 1) + 1 = c /\ HeldAt(t, c - 1, i, e)
  <2>1. CASE u # t
    BY <1>5, <1>8, <2>1
  <2>2. CASE u = t /\ c = 1
    BY <1>5, <1>8, <2>2
  <2>3. CASE u = t /\ c # 1
    <3>1. c - 1 \in Nat \ {0} /\ (c - 1) + 1 = c
      BY <1>5, <1>8, <2>3
    <3>2. HeldAt(t, c - 1, i, e)
      BY <1>5, <1>8, <2>3, <3>1
    <3> QED BY <2>3, <3>1, <3>2
  <2> QED BY <2>1, <2>2, <2>3
<1>9. \A u, c, i, e : HeldAt(u, c, i, e)' =>
        \/ i \in 1..Len(batch) /\ batch[i] = e /\ QueuedAt(class(i), round(i), e)
        \/ \E d : HeldAt(u, d, i, e)
  BY <1>1, <1>8
<1>10. NumberState'
  <2>1. \A p, i, e : QueuedAt(p, i, e)' => e.priority = p /\ e.sequence \in 1..(next_sequence - 1)
    BY <1>0, <1>3 DEF NumberState
  <2>2. \A u, c, i, e : HeldAt(u, c, i, e)' => e.sequence \in 1..(next_sequence - 1)
    BY <1>0, <1>9 DEF NumberState
  <2> QED BY <1>0, <1>6, <2>1, <2>2 DEF NumberState
<1>11. ASSUME NEW p, NEW i, NEW e, QueuedAt(p, i, e)' PROVE i \in Nat
  <2>1. p \in Priorities /\ i \in 1..Len(queue'[p])
    BY <1>11 DEF QueuedAt
  <2>2. Len(queue'[p]) \in Nat
    BY <1>3, <2>1
  <2> QED BY <2>1, <2>2
<1>12. QueueUnique'
  <2> SUFFICES ASSUME NEW p, NEW i, NEW e, NEW q, NEW j, NEW f,
                      QueuedAt(p, i, e)', QueuedAt(q, j, f)', e.sequence = f.sequence
               PROVE  p = q /\ i = j
    BY DEF QueueUnique
  <2>1. p = q /\ from(p, i) = from(q, j)
    BY <1>0, <1>3 DEF QueueUnique
  <2>2. i \in Nat /\ j \in Nat
    BY <1>11
  <2>3. from(p, i) \in Nat
    <3>1. QueuedAt(p, from(p, i), e)
      BY <1>3
    <3> QED BY <3>1, QueuedFacts
  <2>4. ~(i < j)
    BY <1>3, <2>1, <2>3
  <2>5. ~(j < i)
    BY <1>3, <2>1, <2>3
  <2> QED BY <2>1, <2>2, <2>4, <2>5
<1>13. ASSUME NEW i \in 1..Len(batch), NEW j \in 1..Len(batch), batch[i].sequence = batch[j].sequence
       PROVE  i = j
  <2>1. class(i) = class(j) /\ round(i) = round(j)
    BY <1>0, <1>1, <1>13 DEF QueueUnique
  <2>2. round(i) \in Nat
    BY <1>1, QueuedFacts
  <2>3. ~(i < j) /\ ~(j < i)
    BY <1>1, <2>1, <2>2
  <2> QED BY <1>1, <2>3
<1>14. \A i \in 1..Len(batch) : \A u, c, j, f : HeldAt(u, c, j, f) => batch[i].sequence # f.sequence
  BY <1>0, <1>1 DEF Apart
<1>15. HeldUnique'
  <2> SUFFICES ASSUME NEW u, NEW c, NEW i, NEW e, NEW v, NEW d, NEW j, NEW f,
                      HeldAt(u, c, i, e)', HeldAt(v, d, j, f)', e.sequence = f.sequence
               PROVE  u = v /\ c = d /\ i = j
    BY DEF HeldUnique
  <2>1. CASE u = t /\ c = 1 /\ i \in 1..Len(batch) /\ batch[i] = e
    <3>1. v = t /\ d = 1 /\ j \in 1..Len(batch) /\ batch[j] = f
      BY <1>8, <1>14, <2>1
    <3> QED BY <1>13, <2>1, <3>1
  <2>2. CASE u # t /\ HeldAt(u, c, i, e)
    <3>1. v # t /\ HeldAt(v, d, j, f)
      <4>1. ~(v = t /\ d = 1 /\ j \in 1..Len(batch) /\ batch[j] = f)
        BY <1>14, <2>2
      <4>2. ~HeldAt(t, d - 1, j, f)
        BY <1>0, <2>2 DEF HeldUnique
      <4> QED BY <1>8, <4>1, <4>2
    <3> QED BY <1>0, <2>2, <3>1 DEF HeldUnique
  <2>3. CASE u = t /\ c # 1 /\ c - 1 \in Nat \ {0} /\ (c - 1) + 1 = c /\ HeldAt(t, c - 1, i, e)
    <3>1. v = t /\ (d - 1) + 1 = d /\ HeldAt(t, d - 1, j, f)
      <4>1. ~(v = t /\ d = 1 /\ j \in 1..Len(batch) /\ batch[j] = f)
        BY <1>14, <2>3
      <4>2. ~(v # t /\ HeldAt(v, d, j, f))
        BY <1>0, <2>3 DEF HeldUnique
      <4> QED BY <1>8, <4>1, <4>2
    <3>2. c - 1 = d - 1 /\ i = j
      BY <1>0, <2>3, <3>1 DEF HeldUnique
    <3>3. c = d
      BY <2>3, <3>1, <3>2
    <3> QED BY <2>3, <3>1, <3>2, <3>3
  <2> QED BY <1>8, <2>1, <2>2, <2>3
<1>16. DoneUnique'
  BY <1>0, <1>6 DEF DoneUnique
<1>17. Apart'
  <2>1. ASSUME NEW p, NEW i, NEW e, NEW u, NEW c, NEW j, NEW f, QueuedAt(p, i, e)', HeldAt(u, c, j, f)'
        PROVE  e.sequence # f.sequence
    <3>1. QueuedAt(p, from(p, i), e) /\ e \notin ToSet(batch)
      BY <1>3, <2>1
    <3>2. CASE j \in 1..Len(batch) /\ batch[j] = f /\ QueuedAt(class(j), round(j), f)
      <4> SUFFICES ASSUME e.sequence = f.sequence PROVE FALSE
        OBVIOUS
      <4>1. p = class(j) /\ from(p, i) = round(j)
        BY <1>0, <3>1, <3>2 DEF QueueUnique
      <4>2. e = f
        BY <3>1, <3>2, <4>1 DEF QueuedAt
      <4> QED BY <1>4, <3>1, <3>2, <4>2
    <3>3. CASE \E d : HeldAt(u, d, j, f)
      BY <1>0, <3>1, <3>3 DEF Apart
    <3> QED BY <1>9, <2>1, <3>2, <3>3
  <2>2. \A p, i, e, j, f : QueuedAt(p, i, e)' /\ DoneAt(j, f)' => e.sequence # f.sequence
    BY <1>0, <1>3, <1>6 DEF Apart
  <2>3. \A u, c, i, e, j, f : HeldAt(u, c, i, e)' /\ DoneAt(j, f)' => e.sequence # f.sequence
    BY <1>0, <1>6, <1>9 DEF Apart
  <2> QED BY <2>1, <2>2, <2>3 DEF Apart
<1>18. DroppedApart'
  <2>1. \A p, i, e : QueuedAt(p, i, e)' => e.sequence \notin discarded' /\ e.sequence \notin lost'
    BY <1>0, <1>3 DEF DroppedApart
  <2>2. \A u, c, i, e : HeldAt(u, c, i, e)' => e.sequence \notin discarded' /\ e.sequence \notin lost'
    BY <1>0, <1>9 DEF DroppedApart
  <2>3. \A i, e : DoneAt(i, e)' => e.sequence \notin discarded' /\ e.sequence \notin lost'
    BY <1>0, <1>6 DEF DroppedApart
  <2>4. \A n \in discarded' : n \notin lost'
    BY <1>0 DEF DroppedApart
  <2> QED BY <2>1, <2>2, <2>3, <2>4 DEF DroppedApart
<1>19. CoverState'
  <2> SUFFICES ASSUME NEW n \in 1..(next_sequence - 1) PROVE Somewhere(n)'
    BY DEF CoverState
  <2>1. CASE \E p, i, e : QueuedAt(p, i, e) /\ e.sequence = n
    <3>1. PICK p, i, e : QueuedAt(p, i, e) /\ e.sequence = n
      BY <2>1
    <3>2. CASE e \in ToSet(batch)
      <4>1. \E k : HeldAt(t, 1, k, e)'
        BY <1>4, <1>7, <3>2
      <4> QED BY <3>1, <4>1 DEF Somewhere
    <3>3. CASE e \notin ToSet(batch)
      BY <1>3, <3>1, <3>3 DEF Somewhere
    <3> QED BY <3>2, <3>3
  <2>2. CASE \E u, c, i, e : HeldAt(u, c, i, e) /\ e.sequence = n
    <3>1. PICK u, c, i, e : HeldAt(u, c, i, e) /\ e.sequence = n
      BY <2>2
    <3>2. c \in Nat \ {0}
      BY <3>1, HeldFacts
    <3>3. \E d : HeldAt(u, d, i, e)'
      BY <1>5, <3>1, <3>2
    <3> QED BY <3>1, <3>3 DEF Somewhere
  <2>3. CASE (\E i, e : DoneAt(i, e) /\ e.sequence = n) \/ n \in discarded \/ n \in lost
    BY <1>6, <2>3 DEF Somewhere
  <2>4. Somewhere(n)
    BY <1>0 DEF CoverState
  <2> QED BY <2>1, <2>2, <2>3, <2>4 DEF Somewhere
<1>20. QueueOrder'
  <2> SUFFICES ASSUME NEW p, NEW i, NEW e, NEW j, NEW f,
                      QueuedAt(p, i, e)', QueuedAt(p, j, f)', i < j
               PROVE  e.sequence < f.sequence
    BY DEF QueueOrder
  <2>1. QueuedAt(p, from(p, i), e) /\ QueuedAt(p, from(p, j), f) /\ from(p, i) < from(p, j)
    BY <1>3
  <2> QED BY <1>0, <2>1 DEF QueueOrder
<1>21. FifoState'
  <2> SUFFICES ASSUME ~overlapped' PROVE FifoState'
    BY DEF FifoState
  <2>1. ~overlapped /\ ~\E b \in InFlight : Numbers(b) # {}
    OBVIOUS
  <2>2. \A u, c, i, e : ~HeldAt(u, c, i, e)
    BY <2>1, InFlightFacts
  <2>3. /\ \A i, e, j, f : DoneAt(i, e) /\ DoneAt(j, f) /\ i < j /\ e.priority = f.priority =>
             e.sequence < f.sequence
        /\ \A i, e, p, j, f : DoneAt(i, e) /\ QueuedAt(p, j, f) /\ e.priority = p => e.sequence < f.sequence
    BY <1>0, <2>1 DEF FifoState
  <2>4. \A u, c, i, e : HeldAt(u, c, i, e)' =>
          /\ u = t /\ c = 1 /\ i \in 1..Len(batch) /\ batch[i] = e
          /\ QueuedAt(class(i), round(i), e) /\ e.priority = class(i)
    BY <1>1, <1>7, <1>8, <2>2
  <2>5. \A u, c, i, e, v, d, j, f : HeldAt(u, c, i, e)' /\ HeldAt(v, d, j, f)' => u = v /\ c = d
    BY <2>4
  <2>6. /\ \A i, e, j, f : DoneAt(i, e)' /\ DoneAt(j, f)' /\ i < j /\ e.priority = f.priority =>
             e.sequence < f.sequence
        /\ \A i, e, p, j, f : DoneAt(i, e)' /\ QueuedAt(p, j, f)' /\ e.priority = p => e.sequence < f.sequence
    BY <1>3, <1>6, <2>3
  <2>7. \A i, e, u, c, j, f : DoneAt(i, e)' /\ HeldAt(u, c, j, f)' /\ e.priority = f.priority =>
          e.sequence < f.sequence
    BY <1>6, <2>3, <2>4
  <2>8. ASSUME NEW u, NEW c, NEW i, NEW e, NEW j, NEW f, HeldAt(u, c, i, e)', HeldAt(u, c, j, f)',
               i < j, e.priority = f.priority
        PROVE  e.sequence < f.sequence
    <3>1. /\ i \in 1..Len(batch) /\ QueuedAt(class(i), round(i), e) /\ e.priority = class(i)
          /\ j \in 1..Len(batch) /\ QueuedAt(class(j), round(j), f) /\ f.priority = class(j)
      BY <2>4, <2>8
    <3>2. class(i) = class(j)
      BY <2>8, <3>1
    <3>3. round(i) < round(j)
      BY <1>1, <2>8, <3>1, <3>2
    <3> QED BY <1>0, <3>1, <3>2, <3>3 DEF QueueOrder
  <2>9. ASSUME NEW u, NEW c, NEW i, NEW e, NEW p, NEW j, NEW f, HeldAt(u, c, i, e)', QueuedAt(p, j, f)',
               e.priority = p
        PROVE  e.sequence < f.sequence
    <3>1. /\ i \in 1..Len(batch) /\ batch[i] = e /\ class(i) = p /\ QueuedAt(p, round(i), e)
      BY <2>4, <2>9
    <3>2. QueuedAt(p, from(p, j), f) /\ f \notin ToSet(batch)
      BY <1>3, <2>9
    <3>3. round(i) \in Nat /\ from(p, j) \in Nat
      BY <3>1, <3>2, QueuedFacts
    <3>4. ~(from(p, j) < round(i))
      BY <1>1, <1>4, <3>1, <3>2
    <3>5. from(p, j) # round(i)
      <4> SUFFICES ASSUME from(p, j) = round(i) PROVE FALSE
        OBVIOUS
      <4>1. e = f
        BY <3>1, <3>2 DEF QueuedAt
      <4> QED BY <1>4, <3>1, <3>2, <4>1
    <3>6. round(i) < from(p, j)
      BY <3>3, <3>4, <3>5
    <3> QED BY <1>0, <3>1, <3>2, <3>6 DEF QueueOrder
  <2> QED BY <2>5, <2>6, <2>7, <2>8, <2>9 DEF FifoState
<1> QED BY <1>3, <1>10, <1>12, <1>15, <1>16, <1>17, <1>18, <1>19, <1>20, <1>21 DEF EventState, Account

-----------------------------------------------------------------------------
(***************************************************************************)
(* The inductive invariant.                                                *)
(***************************************************************************)
SettingsShape ==
  /\ next_handler_id \in Nat /\ dropped \in Nat
  /\ capacity \in Capacities /\ overflow_policy \in OverflowPolicies

BusInv == BusShape /\ EventShape /\ SettingsShape /\ CallState /\ EventState

\* The bus starts with no handler, no event and no call.
LEMMA BusStarts == Init => BusInv
<1> SUFFICES ASSUME Init PROVE BusInv
  OBVIOUS
<1>1. <<>> \in Seq(Subscriptions) /\ <<>> \in Seq(Events) /\ <<>> \in Seq(Calls) /\ Len(<<>>) = 0
  OBVIOUS
<1>2. BusShape /\ EventShape /\ SettingsShape
  <2>1. BusShape
    BY <1>1 DEF Init, BusShape
  <2>2. EventShape
    <3>1. queue \in [Priorities -> Seq(Events)]
      BY <1>1 DEF Init
    <3>2. next_sequence \in Nat \ {0} /\ delivered \in Seq(Events)
      BY <1>1 DEF Init
    <3>4. overlapped \in BOOLEAN
      BY Zenon DEF Init
    <3>3. discarded \subseteq Nat /\ lost \subseteq Nat
      BY DEF Init
    <3> QED BY <3>1, <3>2, <3>3, <3>4 DEF EventShape
  <2>3. SettingsShape
    BY DEF Init, SettingsShape, OverflowPolicies
  <2> QED BY <2>1, <2>2, <2>3
<1>3. \A i : i \notin 1..0
  OBVIOUS
<1>4. \A t \in Threads : stack[t] = <<>> /\ Len(stack[t]) = 0
  BY <1>1 DEF Init
<1>5. \A p \in Priorities : queue[p] = <<>> /\ Len(queue[p]) = 0
  BY <1>1 DEF Init
<1>6. CallState
  BY <1>3, <1>4 DEF CallState
<1>7. /\ \A p, i, e : ~QueuedAt(p, i, e)
      /\ \A t, c, i, e : ~HeldAt(t, c, i, e)
      /\ \A i, e : ~DoneAt(i, e)
  BY <1>1, <1>3, <1>4, <1>5 DEF Init, QueuedAt, HeldAt, DoneAt
<1>8. discarded = {} /\ lost = {} /\ \A n : n \notin 1..(next_sequence - 1)
  BY DEF Init
<1>9. NumberState
  BY <1>7, <1>8 DEF NumberState
<1>10. QueueUnique /\ HeldUnique /\ DoneUnique /\ Apart /\ QueueOrder /\ FifoState
  BY <1>7 DEF QueueUnique, HeldUnique, DoneUnique, Apart, QueueOrder, FifoState
<1>11. DroppedApart /\ CoverState
  BY <1>7, <1>8 DEF DroppedApart, CoverState
<1> QED BY <1>2, <1>6, <1>9, <1>10, <1>11 DEF BusInv, EventState, Account

\* Steps that touch neither a call nor an event.
LEMMA StackQuiet ==
  ASSUME CallState, EventState, EventShape,
         UNCHANGED <<stack, queue, next_sequence, delivered, overlapped, discarded, lost>>
  PROVE  CallState' /\ EventState' /\ EventShape'
<1>1. CallState'
  BY DEF CallState
<1>2. EventShape'
  BY DEF EventShape
<1>3. \A t, c, i, e : HeldAt(t, c, i, e)' <=> HeldAt(t, c, i, e)
  BY DEF HeldAt
<1>4. EventState'
  BY <1>3, EventsStay
<1> QED BY <1>1, <1>2, <1>4

\* The operations on the handler table and the settings.
LEMMA TableSteps ==
  ASSUME BusInv, NEW t \in Threads,
         \/ \E type \in Types, monitor \in BOOLEAN : Subscribe(t, type, monitor)
         \/ \E type \in Types, id \in 1..MaxHandlers : Unsubscribe(t, type, id)
         \/ EnqueueRefused(t)
         \/ \E n \in Capacities : SetDeferredCapacity(t, n)
         \/ \E policy \in Policies : SetDeferredOverflowPolicy(t, policy)
  PROVE  BusInv'
<1>0. BusShape /\ EventShape /\ SettingsShape /\ CallState /\ EventState
  BY DEF BusInv
<1>1. UNCHANGED <<stack, queue, next_sequence, delivered, overlapped, discarded, lost>>
  BY DEF Subscribe, Unsubscribe, EnqueueRefused, SetDeferredCapacity, SetDeferredOverflowPolicy,
         deferred, history
<1>2. CallState' /\ EventState' /\ EventShape'
  BY <1>0, <1>1, StackQuiet
<1>3. stack' \in [Threads -> Seq(Calls)] /\ handlers \in [Types -> Seq(Subscriptions)]
  BY <1>0, <1>1 DEF BusShape
<1>4. ASSUME NEW type \in Types, NEW monitor \in BOOLEAN, Subscribe(t, type, monitor)
      PROVE  BusShape' /\ SettingsShape'
  <2> DEFINE entry == [id |-> next_handler_id, monitor |-> monitor]
             new == Append(handlers[type], entry)
  <2>1. entry \in Subscriptions
    BY <1>0 DEF SettingsShape, Subscriptions
  <2>2. handlers[type] \in Seq(Subscriptions)
    BY <1>3
  <2> HIDE DEF entry
  <2>3. new \in Seq(Subscriptions)
    BY <2>1, <2>2, AppendFacts
  <2>4. handlers' = [handlers EXCEPT ![type] = new]
    BY <1>4 DEF Subscribe, entry
  <2> HIDE DEF new
  <2>5. BusShape'
    BY <1>3, <2>3, <2>4 DEF BusShape
  <2>6. SettingsShape'
    BY <1>0, <1>4 DEF Subscribe, SettingsShape, deferred, settings
  <2> QED BY <2>5, <2>6
<1>5. ASSUME NEW type \in Types, NEW id \in 1..MaxHandlers, Unsubscribe(t, type, id)
      PROVE  BusShape' /\ SettingsShape'
  <2> DEFINE others == {h \in ToSet(handlers[type]) : h.id # id}
             new == Keep(handlers[type], others)
  <2>1. handlers[type] \in Seq(Subscriptions)
    BY <1>3
  <2>2. handlers' = [handlers EXCEPT ![type] = new]
    BY <1>5 DEF Unsubscribe
  <2> HIDE DEF others
  <2>3. new \in Seq(Subscriptions)
    BY <2>1, KeepFacts
  <2> HIDE DEF new
  <2>4. BusShape'
    BY <1>3, <2>2, <2>3 DEF BusShape
  <2>5. SettingsShape'
    BY <1>0, <1>5 DEF Unsubscribe, SettingsShape, deferred, settings
  <2> QED BY <2>4, <2>5
<1>6. ASSUME EnqueueRefused(t) PROVE BusShape' /\ SettingsShape'
  BY <1>0, <1>3, <1>6 DEF EnqueueRefused, BusShape, SettingsShape, table, settings
<1>7. ASSUME NEW n \in Capacities, SetDeferredCapacity(t, n) PROVE BusShape' /\ SettingsShape'
  BY <1>0, <1>3, <1>7 DEF SetDeferredCapacity, BusShape, SettingsShape, table, deferred
<1>8. ASSUME NEW policy \in Policies, SetDeferredOverflowPolicy(t, policy) PROVE BusShape' /\ SettingsShape'
  BY <1>0, <1>3, <1>8, PoliciesAssumption DEF SetDeferredOverflowPolicy, BusShape, SettingsShape, table, deferred
<1> QED BY <1>2, <1>4, <1>5, <1>6, <1>7, <1>8 DEF BusInv

\* The operations on the queues.
LEMMA QueueSteps ==
  ASSUME BusInv, NEW t \in Threads,
         \/ \E type \in Types, priority \in Priorities : EnqueueDeferred(t, type, priority)
         \/ DiscardDeferred(t)
         \/ \E n \in Limits : DrainDeferred(t, n)
  PROVE  BusInv'
<1>0. BusShape /\ EventShape /\ SettingsShape /\ CallState /\ EventState
  BY DEF BusInv
<1>1. ASSUME NEW type \in Types, NEW priority \in Priorities, EnqueueDeferred(t, type, priority)
      PROVE  BusInv'
  <2>1. /\ queue' = [queue EXCEPT ![priority] =
                       Append(@, [type |-> type, priority |-> priority, sequence |-> next_sequence])]
        /\ next_sequence' = next_sequence + 1
        /\ UNCHANGED <<stack, delivered, overlapped, discarded, lost>>
        /\ UNCHANGED <<handlers, next_handler_id, dropped, capacity, overflow_policy>>
    BY <1>1 DEF EnqueueDeferred, table, settings, history
  <2>2. EventState' /\ queue' \in [Priorities -> Seq(Events)]
    BY <1>0, <2>1, EnqueueEvents
  <2>3. EventShape'
    BY <1>0, <2>1, <2>2 DEF EventShape
  <2>4. BusShape' /\ SettingsShape' /\ CallState'
    BY <1>0, <2>1 DEF BusShape, SettingsShape, CallState
  <2> QED BY <2>2, <2>3, <2>4 DEF BusInv
<1>2. ASSUME DiscardDeferred(t) PROVE BusInv'
  <2>1. /\ discarded' = discarded \cup UNION {Numbers(queue[p]) : p \in Priorities}
        /\ queue' = [p \in Priorities |-> <<>>]
        /\ UNCHANGED <<next_sequence, stack, delivered, overlapped, lost>>
        /\ UNCHANGED <<handlers, next_handler_id, dropped, capacity, overflow_policy>>
    BY <1>2 DEF DiscardDeferred, table, settings
  <2>2. EventState' /\ queue' \in [Priorities -> Seq(Events)]
    BY <1>0, <2>1, DiscardEvents
  <2>3. EventShape'
    <3>1. discarded' \subseteq Nat
      <4>1. next_sequence' \in Nat /\ \A n \in 1..(next_sequence' - 1) : n \in Nat
        BY <1>0, <2>1 DEF EventShape
      <4> QED BY <2>2, <4>1 DEF EventState, Account, NumberState
    <3> QED BY <1>0, <2>1, <2>2, <3>1 DEF EventShape
  <2>4. BusShape' /\ SettingsShape' /\ CallState'
    BY <1>0, <2>1 DEF BusShape, SettingsShape, CallState
  <2> QED BY <2>2, <2>3, <2>4 DEF BusInv
<1>3. ASSUME NEW n \in Limits, DrainDeferred(t, n) PROVE BusInv'
  <2>1. /\ Push(t, Popped(n)) /\ queue' = Remaining(Popped(n))
        /\ overlapped' = (overlapped \/ \E batch \in InFlight : Numbers(batch) # {})
        /\ UNCHANGED <<next_sequence, delivered, discarded, lost>>
        /\ UNCHANGED <<handlers, next_handler_id, dropped, capacity, overflow_policy>>
    BY <1>3 DEF DrainDeferred, table, settings
  <2>2. n \in Nat
    BY NumbersAssumption
  <2>3. EventState' /\ queue' \in [Priorities -> Seq(Events)]
    BY <1>0, <2>1, <2>2, DrainEvents
  <2>4. Popped(n) \in Seq(Events)
    BY <1>0, <2>2, PoppedFacts
  <2>5. CallState' /\ stack' \in [Threads -> Seq(Calls)]
    BY <1>0, <2>1, <2>4, PushKeepsCalls, PushFacts
  <2>6. EventShape'
    <3>1. overlapped' \in BOOLEAN
      BY <1>0, <2>1 DEF EventShape
    <3> QED BY <1>0, <2>1, <2>3, <3>1 DEF EventShape
  <2>7. BusShape' /\ SettingsShape'
    BY <1>0, <2>1, <2>5 DEF BusShape, SettingsShape
  <2> QED BY <2>3, <2>5, <2>6, <2>7 DEF BusInv
<1> QED BY <1>1, <1>2, <1>3

\* The steps of a dispatch that move no event.
LEMMA HandlerSteps ==
  ASSUME BusInv, NEW t \in Threads,
         NextHandler(t) \/ Consume(t) \/ HandlerReturns(t) \/ EndDispatch(t)
  PROVE  BusInv'
<1>0. BusShape /\ EventShape /\ SettingsShape /\ CallState /\ EventState
  BY DEF BusInv
<1>1. CallState' /\ stack' \in [Threads -> Seq(Calls)]
  BY <1>0, NextHandlerCalls, ConsumeCalls, HandlerReturnsCalls, DispatchCalls
<1>2. /\ UNCHANGED <<queue, next_sequence, delivered, overlapped, discarded, lost>>
      /\ UNCHANGED <<handlers, next_handler_id, dropped, capacity, overflow_policy>>
  BY DEF NextHandler, Consume, HandlerReturns, EndDispatch, table, deferred, settings, history
<1>3. stack[t] # <<>>
  BY DEF NextHandler, Consume, HandlerReturns, EndDispatch, InHandler
<1>4. Top(t) \in Calls
  BY <1>0, <1>3, TopFacts
<1>5. \E call : ReplaceTop(t, call) /\ call.batch = Top(t).batch
  <2> DEFINE call == Top(t)
             entry == Head(call.pending)
             ran == Head(call.running)
  <2>1. CASE NextHandler(t)
    <3> DEFINE skipped == [call EXCEPT !.pending = Tail(@)]
               entered == [call EXCEPT !.pending = Tail(@), !.running = <<entry>>,
                                       !.consumed_before = call.consumed]
    <3>1. skipped.batch = call.batch /\ entered.batch = call.batch
      BY <1>4 DEF Calls
    <3>2. ReplaceTop(t, IF call.consumed /\ ~entry.monitor THEN skipped ELSE entered)
      BY <2>1 DEF NextHandler
    <3> HIDE DEF skipped, entered
    <3> QED BY <3>1, <3>2
  <2>2. CASE Consume(t)
    <3> DEFINE new == [call EXCEPT !.consumed = TRUE, !.consumers = IF ran.monitor THEN @ ELSE @ \cup {ran.id}]
    <3>1. new.batch = call.batch
      BY <1>4 DEF Calls
    <3>2. ReplaceTop(t, new)
      BY <2>2 DEF Consume
    <3> QED BY <3>1, <3>2
  <2>3. CASE HandlerReturns(t)
    <3> DEFINE new == [call EXCEPT !.running = <<>>, !.consumed = IF ran.monitor THEN call.consumed_before ELSE @]
    <3>1. new.batch = call.batch
      BY <1>4 DEF Calls
    <3>2. ReplaceTop(t, new)
      BY <2>3 DEF HandlerReturns
    <3> QED BY <3>1, <3>2
  <2>4. CASE EndDispatch(t)
    <3>1. Call(call.batch).batch = call.batch
      BY DEF Call
    <3>2. ReplaceTop(t, Call(call.batch))
      BY <2>4 DEF EndDispatch
    <3> QED BY <3>1, <3>2
  <2> QED BY <2>1, <2>2, <2>3, <2>4
<1>6. \A u, c, i, e : HeldAt(u, c, i, e)' <=> HeldAt(u, c, i, e)
  BY <1>0, <1>1, <1>3, <1>5, ReplaceHolds
<1>7. EventState'
  BY <1>0, <1>2, <1>6, EventsStay
<1>8. BusShape' /\ EventShape' /\ SettingsShape'
  BY <1>0, <1>1, <1>2 DEF BusShape, EventShape, SettingsShape
<1> QED BY <1>1, <1>7, <1>8 DEF BusInv

\* A call is entered or left, or takes the next event of its batch.
LEMMA DispatchSteps ==
  ASSUME BusInv, NEW t \in Threads,
         \/ \E type \in Types : DispatchImmediate(t, type)
         \/ BeginDispatch(t) \/ HandlerThrows(t) \/ CallReturns(t)
  PROVE  BusInv'
<1>0. BusShape /\ EventShape /\ SettingsShape /\ CallState /\ EventState
  BY DEF BusInv
<1>1. ASSUME NEW type \in Types, DispatchImmediate(t, type) PROVE BusInv'
  <2>1. /\ Push(t, <<Immediate(type)>>)
        /\ UNCHANGED <<queue, next_sequence, delivered, overlapped, discarded, lost>>
        /\ UNCHANGED <<handlers, next_handler_id, dropped, capacity, overflow_policy>>
    BY <1>1 DEF DispatchImmediate, table, deferred, settings, history
  <2>2. <<Immediate(type)>> \in Seq(Events)
    BY DEF Immediate, Events, Priorities
  <2>3. CallState' /\ stack' \in [Threads -> Seq(Calls)]
    BY <1>0, <2>1, <2>2, PushKeepsCalls, PushFacts
  <2>4. EventState'
    BY <1>0, <2>1, ImmediateEvents
  <2>5. BusShape' /\ EventShape' /\ SettingsShape'
    BY <1>0, <2>1, <2>3 DEF BusShape, EventShape, SettingsShape
  <2> QED BY <2>3, <2>4, <2>5 DEF BusInv
<1>2. ASSUME BeginDispatch(t) PROVE BusInv'
  <2> DEFINE event == Head(Top(t).batch)
             new == [Call(Tail(Top(t).batch)) EXCEPT !.dispatching = TRUE, !.pending = SnapshotHandlers(event.type)]
  <2>1. /\ stack[t] # <<>> /\ Top(t).batch # <<>> /\ ReplaceTop(t, new)
        /\ delivered' = IF event.sequence > 0 THEN Append(delivered, event) ELSE delivered
        /\ UNCHANGED <<queue, next_sequence, overlapped, discarded, lost>>
        /\ UNCHANGED <<handlers, next_handler_id, dropped, capacity, overflow_policy>>
    BY <1>2 DEF BeginDispatch, table, deferred, settings
  <2>2. CallState' /\ stack' \in [Threads -> Seq(Calls)]
    BY <1>0, <1>2, DispatchCalls
  <2>3. new.batch = Tail(Top(t).batch)
    BY DEF Call
  <2>4. new \in Calls
    <3>1. Top(t) \in Calls
      BY <1>0, <2>1, TopFacts
    <3>2. Top(t).batch \in Seq(Events)
      BY <3>1 DEF Calls
    <3>3. event \in Events /\ Tail(Top(t).batch) \in Seq(Events)
      BY <2>1, <3>2, TailFacts
    <3>4. event.type \in Types
      BY <3>3 DEF Events
    <3>5. SnapshotHandlers(event.type) \in Seq(Subscriptions)
      BY <1>0, <3>4, SnapshotFacts
    <3>6. <<>> \in Seq(Subscriptions) /\ {} \in SUBSET Nat
      OBVIOUS
    <3> QED BY <3>3, <3>5, <3>6 DEF Call, Calls
  <2> HIDE DEF new
  <2>5. EventState' /\ delivered' \in Seq(Events)
    BY <1>0, <2>1, <2>3, <2>4, TakeEvents
  <2>6. BusShape' /\ EventShape' /\ SettingsShape'
    BY <1>0, <2>1, <2>2, <2>5 DEF BusShape, EventShape, SettingsShape
  <2> QED BY <2>2, <2>5, <2>6 DEF BusInv
<1>3. ASSUME HandlerThrows(t) \/ CallReturns(t) PROVE BusInv'
  <2>1. /\ stack[t] # <<>> /\ Pop(t)
        /\ UNCHANGED <<queue, next_sequence, delivered, overlapped, discarded>>
        /\ UNCHANGED <<handlers, next_handler_id, dropped, capacity, overflow_policy>>
    BY <1>3 DEF HandlerThrows, CallReturns, InHandler, table, deferred, settings, history
  <2>2. lost' = lost \cup Numbers(Top(t).batch)
    <3>1. CASE HandlerThrows(t)
      BY <3>1 DEF HandlerThrows
    <3>2. CASE CallReturns(t)
      <4>1. Top(t).batch = <<>> /\ lost' = lost
        BY <3>2 DEF CallReturns, history
      <4>2. Numbers(<<>>) = {}
        BY DEF Numbers, ToSet
      <4> QED BY <4>1, <4>2
    <3> QED BY <1>3, <3>1, <3>2
  <2>3. EventState'
    BY <1>0, <2>1, <2>2, PopEvents
  <2>4. CallState' /\ stack' \in [Threads -> Seq(Calls)]
    BY <1>0, <2>1, PopKeepsCalls, PopFacts
  <2>5. EventShape'
    <3>1. lost' \subseteq Nat
      <4>1. next_sequence' \in Nat /\ \A n \in 1..(next_sequence' - 1) : n \in Nat
        BY <1>0, <2>1 DEF EventShape
      <4> QED BY <2>3, <4>1 DEF EventState, Account, NumberState
    <3> QED BY <1>0, <2>1, <3>1 DEF EventShape
  <2>6. BusShape' /\ SettingsShape'
    BY <1>0, <2>1, <2>4 DEF BusShape, SettingsShape
  <2> QED BY <2>3, <2>4, <2>5, <2>6 DEF BusInv
<1> QED BY <1>1, <1>2, <1>3

\* Every step keeps the invariant.
LEMMA BusStep == BusInv /\ [Next]_vars => BusInv'
<1> SUFFICES ASSUME BusInv, [Next]_vars PROVE BusInv'
  OBVIOUS
<1>1. CASE Next
  <2>1. PICK t \in Threads :
          \/ \E type \in Types, monitor \in BOOLEAN : Subscribe(t, type, monitor)
          \/ \E type \in Types, id \in 1..MaxHandlers : Unsubscribe(t, type, id)
          \/ \E type \in Types, priority \in Priorities : EnqueueDeferred(t, type, priority)
          \/ EnqueueRefused(t)
          \/ DiscardDeferred(t)
          \/ \E n \in Capacities : SetDeferredCapacity(t, n)
          \/ \E policy \in Policies : SetDeferredOverflowPolicy(t, policy)
          \/ \E n \in Limits : DrainDeferred(t, n)
          \/ \E type \in Types : DispatchImmediate(t, type)
          \/ BeginDispatch(t) \/ NextHandler(t) \/ Consume(t)
          \/ HandlerReturns(t) \/ HandlerThrows(t) \/ EndDispatch(t) \/ CallReturns(t)
    BY <1>1, Zenon DEF Next
  <2> QED BY <2>1, TableSteps, QueueSteps, HandlerSteps, DispatchSteps, Zenon
<1>2. CASE UNCHANGED vars
  <2>1. /\ UNCHANGED <<stack, queue, next_sequence, delivered, overlapped, discarded, lost>>
        /\ UNCHANGED <<handlers, next_handler_id, dropped, capacity, overflow_policy>>
    BY <1>2 DEF vars, table, deferred, settings, history
  <2>2. CallState' /\ EventState' /\ EventShape'
    BY <2>1, StackQuiet DEF BusInv
  <2>3. BusShape' /\ SettingsShape'
    BY <2>1 DEF BusInv, BusShape, SettingsShape
  <2> QED BY <2>2, <2>3 DEF BusInv
<1> QED BY <1>1, <1>2

-----------------------------------------------------------------------------
(***************************************************************************)
(* What the invariant says.                                                *)
(***************************************************************************)
\* The elements of Whereabouts.
LEMMA WhereaboutsFacts ==
  ASSUME BusInv, NEW n, n # 0, NEW x
  PROVE  x \in Whereabouts(n) <=>
           \/ \E p, i, e : QueuedAt(p, i, e) /\ e.sequence = n /\ x = <<"queue", p, i>>
           \/ \E t, c, i, e : HeldAt(t, c, i, e) /\ e.sequence = n /\ x = <<"batch", t, c, i>>
           \/ \E i, e : DoneAt(i, e) /\ e.sequence = n /\ x = <<"dispatched", i>>
           \/ n \in discarded /\ x = <<"discarded">>
           \/ n \in lost /\ x = <<"lost">>
<1> DEFINE queued == UNION {{<<"queue", p, i>> : i \in At(queue[p], n)} : p \in Priorities}
           held == UNION {UNION {{<<"batch", t, c, i>> : i \in At(stack[t][c].batch, n)} :
                                 c \in DOMAIN stack[t]} : t \in Threads}
           done == {<<"dispatched", i>> : i \in At(delivered, n)}
<1>1. /\ \A p \in Priorities : DOMAIN queue[p] = 1..Len(queue[p])
      /\ DOMAIN delivered = 1..Len(delivered)
      /\ \A t \in Threads : DOMAIN stack[t] = 1..Len(stack[t])
  BY DEF BusInv, BusShape, EventShape
<1>2. \A t \in Threads : \A c \in DOMAIN stack[t] : DOMAIN stack[t][c].batch = 1..Len(stack[t][c].batch)
  <2>1. \A t \in Threads : \A c \in DOMAIN stack[t] : stack[t][c] \in Calls
    BY DEF BusInv, BusShape
  <2>2. \A call \in Calls : DOMAIN call.batch = 1..Len(call.batch)
    BY DEF Calls
  <2> QED BY <2>1, <2>2, Zenon
<1>3. x \in queued <=> \E p, i, e : QueuedAt(p, i, e) /\ e.sequence = n /\ x = <<"queue", p, i>>
  <2> DEFINE class(p) == {<<"queue", p, i>> : i \in At(queue[p], n)}
  <2>0. queued = UNION {class(p) : p \in Priorities}
    BY Zenon
  <2>1. x \in queued <=> \E p \in Priorities : \E i \in At(queue[p], n) : x = <<"queue", p, i>>
    <3>1. \A p \in Priorities : x \in class(p) <=> \E i \in At(queue[p], n) : x = <<"queue", p, i>>
      BY Zenon
    <3> HIDE DEF class, queued
    <3>2. x \in queued <=> \E p \in Priorities : x \in class(p)
      BY <2>0
    <3> QED BY <3>1, <3>2, Zenon
  <2>2. \A p \in Priorities : \A i : i \in At(queue[p], n) <=> i \in 1..Len(queue[p]) /\ queue[p][i].sequence = n
    BY <1>1, Zenon DEF At
  <2>3. \A p \in Priorities : \A i : i \in At(queue[p], n) <=> \E e : QueuedAt(p, i, e) /\ e.sequence = n
    BY <2>2, Zenon DEF QueuedAt
  <2>4. \A p, i, e : QueuedAt(p, i, e) => p \in Priorities
    BY DEF QueuedAt
  <2> HIDE DEF queued
  <2> QED BY <2>1, <2>3, <2>4, Zenon
<1>4. x \in held <=> \E t, c, i, e : HeldAt(t, c, i, e) /\ e.sequence = n /\ x = <<"batch", t, c, i>>
  <2>1. x \in held <=> \E t \in Threads : \E c \in DOMAIN stack[t] :
                         \E i \in At(stack[t][c].batch, n) : x = <<"batch", t, c, i>>
    <3> DEFINE call(t, c) == {<<"batch", t, c, i>> : i \in At(stack[t][c].batch, n)}
               thread(t) == UNION {call(t, c) : c \in DOMAIN stack[t]}
    <3>0. held = UNION {thread(t) : t \in Threads}
      BY Zenon
    <3>1. \A t, c : x \in call(t, c) <=> \E i \in At(stack[t][c].batch, n) : x = <<"batch", t, c, i>>
      BY Zenon
    <3> HIDE DEF call
    <3>2. \A t : x \in thread(t) <=> \E c \in DOMAIN stack[t] : x \in call(t, c)
      OBVIOUS
    <3> HIDE DEF thread, held
    <3>3. x \in held <=> \E t \in Threads : x \in thread(t)
      BY <3>0
    <3> QED BY <3>1, <3>2, <3>3, Zenon
  <2>2. \A t \in Threads : \A c \in DOMAIN stack[t] : \A i : i \in At(stack[t][c].batch, n) <=>
          i \in 1..Len(stack[t][c].batch) /\ stack[t][c].batch[i].sequence = n
    BY <1>2, Zenon DEF At
  <2>3. \A t \in Threads : \A c \in DOMAIN stack[t] : \A i : i \in At(stack[t][c].batch, n) <=>
          \E e : HeldAt(t, c, i, e) /\ e.sequence = n
    <3> SUFFICES ASSUME NEW t \in Threads, NEW c \in DOMAIN stack[t], NEW i
                 PROVE  i \in At(stack[t][c].batch, n) <=> \E e : HeldAt(t, c, i, e) /\ e.sequence = n
      OBVIOUS
    <3>1. c \in 1..Len(stack[t])
      BY <1>1
    <3> DEFINE batch == stack[t][c].batch
    <3>2. i \in At(batch, n) <=> i \in 1..Len(batch) /\ batch[i].sequence = n
      BY <2>2
    <3>3. \A e : HeldAt(t, c, i, e) <=> i \in 1..Len(batch) /\ batch[i] = e /\ e.sequence # 0
      BY <3>1 DEF HeldAt
    <3> HIDE DEF batch
    <3>4. i \in At(batch, n) <=> \E e : HeldAt(t, c, i, e) /\ e.sequence = n
      BY <3>2, <3>3
    <3> QED BY <3>4 DEF batch
  <2>4. \A t, c, i, e : HeldAt(t, c, i, e) => t \in Threads /\ c \in DOMAIN stack[t]
    BY <1>1, Zenon DEF HeldAt
  <2> HIDE DEF held
  <2> QED BY <2>1, <2>3, <2>4, Zenon
<1>5. x \in done <=> \E i, e : DoneAt(i, e) /\ e.sequence = n /\ x = <<"dispatched", i>>
  <2>1. \A i : i \in At(delivered, n) <=> \E e : DoneAt(i, e) /\ e.sequence = n
    BY <1>1, Zenon DEF At, DoneAt
  <2>2. x \in done <=> \E i \in At(delivered, n) : x = <<"dispatched", i>>
    BY Zenon
  <2> HIDE DEF done
  <2> QED BY <2>1, <2>2, Zenon
<1>6. x \in Whereabouts(n) <=> \/ x \in queued \/ x \in held \/ x \in done
                               \/ n \in discarded /\ x = <<"discarded">>
                               \/ n \in lost /\ x = <<"lost">>
  <2>1. Whereabouts(n) = queued \cup held \cup done \cup (IF n \in discarded THEN {<<"discarded">>} ELSE {})
                           \cup (IF n \in lost THEN {<<"lost">>} ELSE {})
    BY Zenon DEF Whereabouts
  <2> HIDE DEF queued, held, done
  <2> QED BY <2>1
<1> HIDE DEF queued, held, done
<1> QED BY <1>3, <1>4, <1>5, <1>6, Zenon

\* No number has two places.
LEMMA OnePlace ==
  ASSUME BusInv, NEW n, n # 0, NEW x, NEW y, x \in Whereabouts(n), y \in Whereabouts(n)
  PROVE  x = y
<1> DEFINE Q(z) == \E p, i, e : QueuedAt(p, i, e) /\ e.sequence = n /\ z = <<"queue", p, i>>
           H(z) == \E t, c, i, e : HeldAt(t, c, i, e) /\ e.sequence = n /\ z = <<"batch", t, c, i>>
           D(z) == \E i, e : DoneAt(i, e) /\ e.sequence = n /\ z = <<"dispatched", i>>
           X(z) == n \in discarded /\ z = <<"discarded">>
           L(z) == n \in lost /\ z = <<"lost">>
<1>0. QueueUnique /\ HeldUnique /\ DoneUnique /\ Apart /\ DroppedApart
  BY DEF BusInv, EventState, Account
<1>1. (Q(x) \/ H(x) \/ D(x) \/ X(x) \/ L(x)) /\ (Q(y) \/ H(y) \/ D(y) \/ X(y) \/ L(y))
  BY WhereaboutsFacts
<1>2. Q(x) /\ Q(y) => x = y
  BY <1>0, Zenon DEF QueueUnique
<1>3. H(x) /\ H(y) => x = y
  BY <1>0, Zenon DEF HeldUnique
<1>4. D(x) /\ D(y) => x = y
  BY <1>0, Zenon DEF DoneUnique
<1>5. \A z, w : ~(Q(z) /\ H(w)) /\ ~(Q(z) /\ D(w)) /\ ~(H(z) /\ D(w))
  BY <1>0, Zenon DEF Apart
<1>6. \A z, w : /\ ~(Q(z) /\ X(w)) /\ ~(Q(z) /\ L(w)) /\ ~(H(z) /\ X(w)) /\ ~(H(z) /\ L(w))
                /\ ~(D(z) /\ X(w)) /\ ~(D(z) /\ L(w)) /\ ~(X(z) /\ L(w))
  BY <1>0, Zenon DEF DroppedApart
<1>7. (X(x) /\ X(y) => x = y) /\ (L(x) /\ L(y) => x = y)
  OBVIOUS
<1> HIDE DEF Q, H, D, X, L
<1> QED BY <1>1, <1>2, <1>3, <1>4, <1>5, <1>6, <1>7, Zenon

\* The invariant gives the accounting and the order of the events.
LEMMA EventsGiveProperties == BusInv => EveryEventAccountedFor /\ DeliveryIsFifo
<1> SUFFICES ASSUME BusInv PROVE EveryEventAccountedFor /\ DeliveryIsFifo
  OBVIOUS
<1>0. NumberState /\ CoverState /\ FifoState /\ next_sequence \in Nat \ {0} /\ delivered \in Seq(Events)
  BY DEF BusInv, EventState, Account, EventShape
<1>1. ASSUME NEW n \in 1..(next_sequence - 1) PROVE \E place \in Whereabouts(n) : Whereabouts(n) = {place}
  <2>1. n # 0 /\ Somewhere(n)
    BY <1>0 DEF CoverState
  <2>2. \E x : x \in Whereabouts(n)
    <3>1. \A x : x \in Whereabouts(n) <=>
            \/ \E p, i, e : QueuedAt(p, i, e) /\ e.sequence = n /\ x = <<"queue", p, i>>
            \/ \E t, c, i, e : HeldAt(t, c, i, e) /\ e.sequence = n /\ x = <<"batch", t, c, i>>
            \/ \E i, e : DoneAt(i, e) /\ e.sequence = n /\ x = <<"dispatched", i>>
            \/ n \in discarded /\ x = <<"discarded">>
            \/ n \in lost /\ x = <<"lost">>
      BY <2>1, WhereaboutsFacts
    <3>2. \A p, i, e : QueuedAt(p, i, e) /\ e.sequence = n => <<"queue", p, i>> \in Whereabouts(n)
      BY <3>1, Zenon
    <3>3. \A t, c, i, e : HeldAt(t, c, i, e) /\ e.sequence = n => <<"batch", t, c, i>> \in Whereabouts(n)
      BY <3>1, Zenon
    <3>4. \A i, e : DoneAt(i, e) /\ e.sequence = n => <<"dispatched", i>> \in Whereabouts(n)
      BY <3>1, Zenon
    <3>5. (n \in discarded => <<"discarded">> \in Whereabouts(n)) /\ (n \in lost => <<"lost">> \in Whereabouts(n))
      BY <3>1, Zenon
    <3> QED BY <2>1, <3>2, <3>3, <3>4, <3>5, Zenon DEF Somewhere
  <2>3. \A x, y : x \in Whereabouts(n) /\ y \in Whereabouts(n) => x = y
    BY <2>1, OnePlace
  <2> QED BY <2>2, <2>3
<1>2. ASSUME NEW n \in next_sequence..MaxSequence PROVE Whereabouts(n) = {}
  <2>1. n # 0 /\ n \notin 1..(next_sequence - 1)
    BY <1>0, NumbersAssumption
  <2>2. \A x : x \notin Whereabouts(n)
    BY <1>0, <2>1, WhereaboutsFacts DEF NumberState
  <2> QED BY <2>2
<1>3. ASSUME ~overlapped, NEW i \in DOMAIN delivered, NEW j \in DOMAIN delivered, i < j,
             delivered[i].priority = delivered[j].priority
      PROVE  delivered[i].sequence < delivered[j].sequence
  <2>1. DoneAt(i, delivered[i]) /\ DoneAt(j, delivered[j])
    BY <1>0 DEF DoneAt
  <2> QED BY <1>0, <1>3, <2>1 DEF FifoState
<1> QED BY <1>1, <1>2, <1>3 DEF EveryEventAccountedFor, DeliveryIsFifo

\* The invariant includes the types of all members.
LEMMA ShapesGiveTypes == BusInv => TypeOK
<1> SUFFICES ASSUME BusInv PROVE TypeOK
  OBVIOUS
<1>1. next_sequence \in Nat
  BY DEF BusInv, EventShape
<1> QED BY <1>1 DEF BusInv, BusShape, EventShape, SettingsShape, TypeOK

\* The invariant holds in every reachable state.
LEMMA BusInvAlways == Spec => []BusInv
BY BusStarts, BusStep, PTL DEF Spec

\* Handler table, queues, settings and calls keep their types.
THEOREM BusTypeCorrect == Spec => []TypeOK
BY BusInvAlways, ShapesGiveTypes, PTL

\* Monitors observe consumed events and leave the consume state of DispatchImmediate as
\* it was, for any handlers on any number of threads.
THEOREM MonitorsAlwaysOnlyObserve == Spec => []MonitorsOnlyObserve
<1>1. BusInv => MonitorsOnlyObserve
  BY CallsGiveHandlerProperties DEF BusInv
<1> QED BY <1>1, BusInvAlways, PTL

\* Every dispatch calls the handlers it copied in registration order, whatever is
\* subscribed or unsubscribed meanwhile.
THEOREM HandlersAlwaysInOrder == Spec => []HandlersInRegistrationOrder
<1>1. BusInv => HandlersInRegistrationOrder
  BY CallsGiveHandlerProperties DEF BusInv
<1> QED BY <1>1, BusInvAlways, PTL

\* Every accepted deferred event is in exactly one place: DrainDeferred, nested or on
\* several threads, neither duplicates nor drops one.
THEOREM EveryEventAlwaysAccountedFor == Spec => []EveryEventAccountedFor
<1>1. BusInv => EveryEventAccountedFor
  BY EventsGiveProperties
<1> QED BY <1>1, BusInvAlways, PTL

\* Within a class events are dispatched in the order of their arrival unless drains
\* overlapped.
THEOREM DeliveryIsAlwaysFifo == Spec => []DeliveryIsFifo
<1>1. BusInv => DeliveryIsFifo
  BY EventsGiveProperties
<1> QED BY <1>1, BusInvAlways, PTL
=============================================================================
