------------------------- MODULE InputRoutingProofs -------------------------
(***************************************************************************)
(* Proofs about InputRoutingRuntime and its InputRouter, for every number  *)
(* of windows, handlers and events, and whatever handlers call, consume or *)
(* throw.                                                                  *)
(***************************************************************************)
EXTENDS MCInputRouting, OperatorLemmas

-----------------------------------------------------------------------------
(***************************************************************************)
(* The inductive invariant.                                                *)
(***************************************************************************)
Queued == [input : Inputs, id : Nat]

Shape ==
  /\ raw_queue \in Seq(Queued) /\ normalized_queue \in Seq(Queued)
  /\ arrived \in Nat /\ settled \in Seq(Nat)
  /\ handlers \in [Lists -> Seq(Nat)] /\ next_handler_id \in Nat
  /\ focused_window \in Windows \cup {None} /\ pointer_capture_window \in Windows \cup {None}
  /\ current \in 0..Len(normalized_queue)
  /\ walk # NoWalk => /\ walk \in [list : Lists, called : Nat] /\ current # 0
                      /\ walk.called \in 1..Len(handlers[walk.list])

HandlersState ==
  \A l \in Lists :
    /\ \A i, j \in 1..Len(handlers[l]) : i < j => handlers[l][i] < handlers[l][j]
    /\ \A i \in 1..Len(handlers[l]) : handlers[l][i] < next_handler_id

\* The k-th event of a queue is the one that arrived as number x.
NormalAt(k, x) == k \in 1..Len(normalized_queue) /\ normalized_queue[k].id = x
RawAt(k, x) == k \in 1..Len(raw_queue) /\ raw_queue[k].id = x
SettledAt(k, x) == k \in 1..Len(settled) /\ settled[k] = x
\* What a dispatch has not come to yet; all of the queue while none is in progress.
WaitsAt(k, x) == k >= current /\ NormalAt(k, x)

\* The queues continue each other in the order of arrival.
OrderState ==
  /\ \A i, j, x, y : NormalAt(i, x) /\ NormalAt(j, y) /\ i < j => x < y
  /\ \A i, j, x, y : RawAt(i, x) /\ RawAt(j, y) /\ i < j => x < y
  /\ \A i, j, x, y : NormalAt(i, x) /\ RawAt(j, y) => x < y
  /\ \A i, x : NormalAt(i, x) \/ RawAt(i, x) => x \in 1..arrived /\ x \notin discarded

\* Event y, settled as number j or later, is one that the interrupted dispatch had settled
\* already, among the first i or more.
Repeated(i, j, y) == \E t \in throws : i <= t.settled /\ t.settled < j /\ y \in t.again

SettledState ==
  /\ \A t \in throws : t.settled \in Nat /\ t.settled <= Len(settled)
  /\ \A i, j, x, y : SettledAt(i, x) /\ SettledAt(j, y) /\ i < j => x < y \/ Repeated(i, j, y)
  /\ \A i, k, x, y : SettledAt(i, x) /\ WaitsAt(k, y) => x < y \/ Repeated(i, Len(settled) + 1, y)
  /\ \A i, k, x, y : SettledAt(i, x) /\ RawAt(k, y) => x < y

\* No event is lost, and one that was settled is discarded only when it was to be repeated.
CoverState ==
  /\ \A x \in 1..arrived : \/ \E k : SettledAt(k, x) \/ WaitsAt(k, x) \/ RawAt(k, x)
                           \/ x \in discarded
  /\ \A k, x : SettledAt(k, x) => x \in 1..arrived
  /\ discarded \subseteq 1..arrived
  /\ \A k, x : SettledAt(k, x) /\ x \in discarded => \E t \in throws : x \in t.again

\* What was consumed does not wait.
ConsumedState ==
  /\ consumed \subseteq 1..arrived
  /\ \A k, x : WaitsAt(k, x) \/ RawAt(k, x) => x \notin consumed

QueueState == OrderState /\ SettledState /\ CoverState /\ ConsumedState

\* The window that an event is for, with the router set to s.
IsTarget(w, event, s) ==
  IF event.device = "Pointer" /\ s.capture # None THEN w = s.capture
  ELSE IF event.window_id # None THEN w = event.window_id
  ELSE event.device = "Keyboard" /\ w = s.focus

\* The calls made for the event being routed.
TrailState ==
  /\ walk = NoWalk => trail = <<>>
  /\ trail \in Seq([list : Lists, id : Nat])
  /\ walk # NoWalk =>
       /\ walk.list # Global => IsTarget(walk.list, normalized_queue[current].input, asked)
       /\ \A i \in 1..Len(trail) :
            /\ trail[i].list = walk.list => trail[i].id <= handlers[walk.list][walk.called]
            /\ trail[i].list # walk.list => walk.list = Global
            /\ trail[i].list # Global => IsTarget(trail[i].list, normalized_queue[current].input, asked)
       /\ \A i, j \in 1..Len(trail) : i < j =>
            /\ trail[i].list = trail[j].list => trail[i].id < trail[j].id
            /\ trail[i].list # trail[j].list => trail[j].list = Global

InputInvariant == Shape /\ HandlersState /\ QueueState /\ TrailState

-----------------------------------------------------------------------------
(***************************************************************************)
(* What happens to the events.                                             *)
(***************************************************************************)
\* A member of a queue has its number.
LEMMA QueueNumbers ==
  ASSUME Shape
  PROVE  /\ \A k, x : NormalAt(k, x) \/ RawAt(k, x) \/ SettledAt(k, x) => k \in Nat /\ k >= 1 /\ x \in Nat
         /\ Len(normalized_queue) \in Nat /\ Len(raw_queue) \in Nat /\ Len(settled) \in Nat
         /\ current \in Nat
<1>1. /\ Len(normalized_queue) \in Nat /\ Len(raw_queue) \in Nat /\ Len(settled) \in Nat
      /\ raw_queue \in Seq(Queued) /\ normalized_queue \in Seq(Queued) /\ settled \in Seq(Nat)
  BY DEF Shape
<1>2. ASSUME NEW k, NEW x, NormalAt(k, x) PROVE k \in Nat /\ k >= 1 /\ x \in Nat
  <2>1. k \in 1..Len(normalized_queue) /\ normalized_queue[k].id = x
    BY <1>2 DEF NormalAt
  <2>2. normalized_queue[k] \in Queued
    BY <1>1, <2>1
  <2> QED BY <1>1, <2>1, <2>2 DEF Queued
<1>3. ASSUME NEW k, NEW x, RawAt(k, x) PROVE k \in Nat /\ k >= 1 /\ x \in Nat
  <2>1. k \in 1..Len(raw_queue) /\ raw_queue[k].id = x
    BY <1>3 DEF RawAt
  <2>2. raw_queue[k] \in Queued
    BY <1>1, <2>1
  <2> QED BY <1>1, <2>1, <2>2 DEF Queued
<1>4. ASSUME NEW k, NEW x, SettledAt(k, x) PROVE k \in Nat /\ k >= 1 /\ x \in Nat
  BY <1>1, <1>4 DEF SettledAt
<1>5. current \in Nat
  BY <1>1 DEF Shape
<1> QED BY <1>1, <1>2, <1>3, <1>4, <1>5

\* Steps that touch no queue keep what is known of the events.
LEMMA EventsUntouched ==
  ASSUME QueueState, UNCHANGED <<raw_queue, normalized_queue, arrived, discarded, current, settled,
                                 consumed, throws>>
  PROVE  QueueState'
<1>1. /\ \A k, x : NormalAt(k, x)' <=> NormalAt(k, x)
      /\ \A k, x : RawAt(k, x)' <=> RawAt(k, x)
      /\ \A k, x : SettledAt(k, x)' <=> SettledAt(k, x)
      /\ \A k, x : WaitsAt(k, x)' <=> WaitsAt(k, x)
      /\ \A i, j, y : Repeated(i, j, y)' <=> Repeated(i, j, y)
  BY DEF NormalAt, RawAt, SettledAt, WaitsAt, Repeated
<1>2. OrderState'
  BY <1>1 DEF QueueState, OrderState
<1>3. SettledState'
  BY <1>1 DEF QueueState, SettledState
<1>4. CoverState'
  BY <1>1 DEF QueueState, CoverState
<1>5. ConsumedState'
  BY <1>1 DEF QueueState, ConsumedState
<1> QED BY <1>2, <1>3, <1>4, <1>5 DEF QueueState

\* An event arrives behind all others.
LEMMA EnqueueKeepsOrder ==
  ASSUME Shape, QueueState, NEW input \in Inputs,
         raw_queue' = Append(raw_queue, [input |-> input, id |-> arrived + 1]), arrived' = arrived + 1,
         UNCHANGED <<normalized_queue, discarded, current, settled, consumed, throws>>
  PROVE  QueueState' /\ raw_queue' \in Seq(Queued)
<1> DEFINE e == [input |-> input, id |-> arrived + 1]
           n == Len(raw_queue) + 1
<1>0. arrived \in Nat /\ raw_queue \in Seq(Queued) /\ Len(raw_queue) \in Nat
  BY DEF Shape
<1>1. e \in Queued /\ e.id = arrived + 1
  BY <1>0 DEF Queued
<1> HIDE DEF e
<1>2. /\ raw_queue' \in Seq(Queued) /\ Len(raw_queue') = n
      /\ \A i \in 1..Len(raw_queue) : raw_queue'[i] = raw_queue[i]
      /\ raw_queue'[n] = e
  BY <1>0, <1>1, AppendFacts DEF e
<1>3. /\ \A k, x : NormalAt(k, x)' <=> NormalAt(k, x)
      /\ \A k, x : SettledAt(k, x)' <=> SettledAt(k, x)
      /\ \A k, x : WaitsAt(k, x)' <=> WaitsAt(k, x)
      /\ \A i, j, y : Repeated(i, j, y)' <=> Repeated(i, j, y)
  BY DEF NormalAt, SettledAt, WaitsAt, Repeated
<1>4. ASSUME NEW k, NEW x PROVE RawAt(k, x)' <=> RawAt(k, x) \/ (k = n /\ x = arrived + 1)
  <2>1. k \in 1..n <=> k \in 1..Len(raw_queue) \/ k = n
    BY <1>0
  <2>2. n \notin 1..Len(raw_queue)
    BY <1>0
  <2> QED BY <1>1, <1>2, <2>1, <2>2 DEF RawAt
<1>5. \A k, x : NormalAt(k, x) \/ RawAt(k, x) \/ SettledAt(k, x) => k \in Nat /\ k >= 1 /\ x \in Nat
  BY QueueNumbers
<1>6. /\ \A k, x : NormalAt(k, x) \/ RawAt(k, x) \/ SettledAt(k, x) => x < arrived + 1
      /\ \A k, x : RawAt(k, x) => k < n
      /\ \A x : x \in 1..(arrived + 1) <=> x \in 1..arrived \/ x = arrived + 1
      /\ arrived + 1 \notin 1..arrived
  <2>1. \A k, x : NormalAt(k, x) \/ RawAt(k, x) \/ SettledAt(k, x) => x \in 1..arrived
    BY DEF QueueState, OrderState, CoverState
  <2>2. \A k, x : RawAt(k, x) => k < n
    BY <1>0 DEF RawAt
  <2>3. \A x \in 1..arrived : x < arrived + 1
    BY <1>0
  <2>4. \A x : x \in 1..(arrived + 1) <=> x \in 1..arrived \/ x = arrived + 1
    BY <1>0
  <2>5. arrived + 1 \notin 1..arrived
    BY <1>0
  <2> QED BY <2>1, <2>2, <2>3, <2>4, <2>5
<1> HIDE DEF n
<1>7. OrderState'
  <2>1. arrived + 1 \notin discarded
    BY <1>6 DEF QueueState, CoverState
  <2>2. ASSUME NEW i, NEW j, NEW x, NEW y, RawAt(i, x)', RawAt(j, y)', i < j PROVE x < y
    <3>1. CASE RawAt(i, x) /\ RawAt(j, y)
      BY <2>2, <3>1 DEF QueueState, OrderState
    <3>2. CASE RawAt(i, x) /\ j = n /\ y = arrived + 1
      BY <1>6, <3>2
    <3>3. CASE i = n /\ RawAt(j, y)
      <4>1. j < n /\ n < j /\ j \in Nat /\ n \in Nat
        BY <1>0, <1>5, <1>6, <2>2, <3>3 DEF n
      <4> QED BY <4>1
    <3>4. CASE i = n /\ j = n
      BY <1>0, <2>2, <3>4 DEF n
    <3> QED BY <1>4, <2>2, <3>1, <3>2, <3>3, <3>4
  <2>3. \A i, j, x, y : NormalAt(i, x)' /\ RawAt(j, y)' => x < y
    BY <1>3, <1>4, <1>6 DEF QueueState, OrderState
  <2>4. \A i, j, x, y : NormalAt(i, x)' /\ NormalAt(j, y)' /\ i < j => x < y
    BY <1>3 DEF QueueState, OrderState
  <2>5. \A i, x : NormalAt(i, x)' \/ RawAt(i, x)' => x \in 1..arrived' /\ x \notin discarded'
    BY <1>3, <1>4, <1>6, <2>1 DEF QueueState, OrderState
  <2> QED BY <2>2, <2>3, <2>4, <2>5 DEF OrderState
<1>8. SettledState'
  BY <1>3, <1>4, <1>6 DEF QueueState, SettledState
<1>9. CoverState'
  BY <1>3, <1>4, <1>6 DEF QueueState, CoverState
<1>10. ConsumedState'
  BY <1>3, <1>4, <1>6 DEF QueueState, ConsumedState
<1> QED BY <1>2, <1>7, <1>8, <1>9, <1>10 DEF QueueState

\* Two sequences of events, one after the other.
LEMMA ConcatFacts ==
  ASSUME NEW S, NEW s \in Seq(S), NEW t \in Seq(S)
  PROVE  /\ s \o t \in Seq(S) /\ Len(s \o t) = Len(s) + Len(t) /\ Len(s) \in Nat /\ Len(t) \in Nat
         /\ \A i \in 1..Len(s) : (s \o t)[i] = s[i]
         /\ \A i \in 1..Len(t) : (s \o t)[Len(s) + i] = t[i]
<1>1. /\ s \o t \in Seq(S) /\ Len(s \o t) = Len(s) + Len(t) /\ Len(s) \in Nat /\ Len(t) \in Nat
      /\ \A i \in 1..(Len(s) + Len(t)) : (s \o t)[i] = IF i <= Len(s) THEN s[i] ELSE t[i - Len(s)]
  OBVIOUS
<1>2. ASSUME NEW i \in 1..Len(s) PROVE (s \o t)[i] = s[i]
  <2>1. i \in 1..(Len(s) + Len(t)) /\ i <= Len(s)
    BY <1>1
  <2> QED BY <1>1, <2>1
<1>3. ASSUME NEW i \in 1..Len(t) PROVE (s \o t)[Len(s) + i] = t[i]
  <2>1. Len(s) + i \in 1..(Len(s) + Len(t)) /\ ~(Len(s) + i <= Len(s)) /\ (Len(s) + i) - Len(s) = i
    BY <1>1
  <2> QED BY <1>1, <2>1
<1> QED BY <1>1, <1>2, <1>3

\* The raw events go behind the normalised ones.
LEMMA NormalizeKeepsOrder ==
  ASSUME Shape, QueueState, current = 0,
         normalized_queue' = normalized_queue \o raw_queue, raw_queue' = <<>>,
         UNCHANGED <<arrived, discarded, current, settled, consumed, throws>>
  PROVE  QueueState' /\ normalized_queue' \in Seq(Queued) /\ raw_queue' \in Seq(Queued)
<1> DEFINE n == Len(normalized_queue)
<1>0. raw_queue \in Seq(Queued) /\ normalized_queue \in Seq(Queued) /\ current' = 0
  BY DEF Shape
<1>1. /\ normalized_queue' \in Seq(Queued) /\ Len(normalized_queue') = n + Len(raw_queue)
      /\ n \in Nat /\ Len(raw_queue) \in Nat
      /\ \A i \in 1..n : normalized_queue'[i] = normalized_queue[i]
      /\ \A i \in 1..Len(raw_queue) : normalized_queue'[n + i] = raw_queue[i]
  BY <1>0, ConcatFacts
<1>2. raw_queue' \in Seq(Queued) /\ \A k, x : ~RawAt(k, x)'
  BY DEF RawAt
<1>3. /\ \A k, x : SettledAt(k, x)' <=> SettledAt(k, x)
      /\ \A i, j, y : Repeated(i, j, y)' <=> Repeated(i, j, y)
  BY DEF SettledAt, Repeated
<1>4. ASSUME NEW k, NEW x, NormalAt(k, x)' PROVE NormalAt(k, x) \/ \E i : RawAt(i, x) /\ k = n + i
  <2>1. k \in 1..(n + Len(raw_queue)) /\ normalized_queue'[k].id = x
    BY <1>1, <1>4 DEF NormalAt
  <2>2. CASE k \in 1..n
    BY <1>1, <2>1, <2>2 DEF NormalAt
  <2>3. CASE k \notin 1..n
    <3>1. k - n \in 1..Len(raw_queue) /\ k = n + (k - n)
      BY <1>1, <2>1, <2>3
    <3>2. RawAt(k - n, x)
      BY <1>1, <2>1, <3>1 DEF RawAt
    <3> QED BY <3>1, <3>2
  <2> QED BY <2>2, <2>3
<1>5. ASSUME NEW k, NEW x PROVE (NormalAt(k, x) => NormalAt(k, x)') /\ (RawAt(k, x) => \E m : NormalAt(m, x)')
  <2>1. ASSUME NormalAt(k, x) PROVE NormalAt(k, x)'
    <3>1. k \in 1..n /\ k \in 1..(n + Len(raw_queue)) /\ normalized_queue[k].id = x
      BY <1>1, <2>1 DEF NormalAt
    <3> QED BY <1>1, <3>1 DEF NormalAt
  <2>2. ASSUME RawAt(k, x) PROVE \E m : NormalAt(m, x)'
    <3>1. k \in 1..Len(raw_queue) /\ raw_queue[k].id = x
      BY <2>2 DEF RawAt
    <3>2. n + k \in 1..(n + Len(raw_queue))
      BY <1>1, <3>1
    <3>3. normalized_queue'[n + k] = raw_queue[k] /\ n + k \in 1..Len(normalized_queue')
      BY <1>1, <3>1, <3>2
    <3>4. \A m : m = n + k => NormalAt(m, x)'
      BY <3>1, <3>3 DEF NormalAt
    <3> QED BY <3>4
  <2> QED BY <2>1, <2>2
<1>6. /\ \A k, x : WaitsAt(k, x)' <=> NormalAt(k, x)'
      /\ \A k, x : WaitsAt(k, x) <=> NormalAt(k, x)
  <2>1. ASSUME NEW k, NEW x, NormalAt(k, x) PROVE k >= current
    BY <2>1, QueueNumbers
  <2>2. ASSUME NEW k, NEW x, NormalAt(k, x)' PROVE k >= current'
    BY <1>0, <1>1, <2>2 DEF NormalAt
  <2> QED BY <2>1, <2>2 DEF WaitsAt
<1>7. \A k, x : NormalAt(k, x) \/ RawAt(k, x) => k \in Nat /\ k >= 1
  BY QueueNumbers
<1>8. OrderState'
  <2>1. ASSUME NEW i, NEW j, NEW x, NEW y, NormalAt(i, x)', NormalAt(j, y)', i < j PROVE x < y
    <3>1. CASE NormalAt(i, x) /\ NormalAt(j, y)
      BY <2>1, <3>1 DEF QueueState, OrderState
    <3>2. CASE NormalAt(i, x) /\ \E l : RawAt(l, y) /\ j = n + l
      BY <3>2 DEF QueueState, OrderState
    <3>3. CASE (\E l : RawAt(l, x) /\ i = n + l) /\ NormalAt(j, y)
      <4>1. PICK l : RawAt(l, x) /\ i = n + l
        BY <3>3
      <4>2. l \in Nat /\ l >= 1 /\ j \in Nat /\ j <= n
        BY <1>1, <1>7, <3>3, <4>1 DEF NormalAt
      <4> QED BY <1>1, <2>1, <4>1, <4>2
    <3>4. CASE (\E l : RawAt(l, x) /\ i = n + l) /\ (\E l : RawAt(l, y) /\ j = n + l)
      <4>1. PICK l : RawAt(l, x) /\ i = n + l
        BY <3>4
      <4>2. PICK m : RawAt(m, y) /\ j = n + m
        BY <3>4
      <4>3. l \in Nat /\ m \in Nat
        BY <1>7, <4>1, <4>2
      <4>4. l < m
        BY <1>1, <2>1, <4>1, <4>2, <4>3
      <4> QED BY <4>1, <4>2, <4>4 DEF QueueState, OrderState
    <3> QED BY <1>4, <2>1, <3>1, <3>2, <3>3, <3>4
  <2>2. \A i, x : NormalAt(i, x)' => x \in 1..arrived' /\ x \notin discarded'
    BY <1>4 DEF QueueState, OrderState
  <2> QED BY <1>2, <2>1, <2>2 DEF OrderState
<1>9. SettledState'
  <2>1. ASSUME NEW i, NEW k, NEW x, NEW y, SettledAt(i, x), NormalAt(k, y)'
        PROVE  x < y \/ Repeated(i, Len(settled) + 1, y)
    <3>1. CASE NormalAt(k, y)
      BY <1>6, <2>1, <3>1 DEF QueueState, SettledState
    <3>2. CASE \E l : RawAt(l, y) /\ k = n + l
      BY <2>1, <3>2 DEF QueueState, SettledState
    <3> QED BY <1>4, <2>1, <3>1, <3>2
  <2> QED BY <1>2, <1>3, <1>6, <2>1 DEF QueueState, SettledState
<1>10. CoverState'
  <2>1. ASSUME NEW x \in 1..arrived
        PROVE  (\E k : SettledAt(k, x)' \/ WaitsAt(k, x)' \/ RawAt(k, x)') \/ x \in discarded'
    <3>1. CASE \E k : RawAt(k, x)
      BY <1>5, <1>6, <3>1
    <3>2. CASE ~\E k : RawAt(k, x)
      BY <1>3, <1>5, <1>6, <3>2 DEF QueueState, CoverState
    <3> QED BY <3>1, <3>2
  <2> QED BY <1>3, <2>1 DEF QueueState, CoverState
<1>11. ConsumedState'
  BY <1>2, <1>4, <1>6 DEF QueueState, ConsumedState
<1> QED BY <1>1, <1>2, <1>8, <1>9, <1>10, <1>11 DEF QueueState

\* Everything that waits is discarded.
LEMMA DiscardKeepsOrder ==
  ASSUME Shape, QueueState, current = 0, normalized_queue' = <<>>, raw_queue' = <<>>,
         discarded' = discarded \cup Ids(raw_queue) \cup Ids(normalized_queue),
         UNCHANGED <<arrived, current, settled, consumed, throws>>
  PROVE  QueueState'
<1>1. \A k, x : ~RawAt(k, x)' /\ ~NormalAt(k, x)' /\ ~WaitsAt(k, x)'
  BY DEF RawAt, NormalAt, WaitsAt
<1>2. /\ \A k, x : SettledAt(k, x)' <=> SettledAt(k, x)
      /\ \A i, j, y : Repeated(i, j, y)' <=> Repeated(i, j, y)
  BY DEF SettledAt, Repeated
<1>3. \A x : x \in discarded' <=> x \in discarded \/ \E k : NormalAt(k, x) \/ RawAt(k, x)
  <2>1. DOMAIN raw_queue = 1..Len(raw_queue) /\ DOMAIN normalized_queue = 1..Len(normalized_queue)
    BY DEF Shape
  <2> QED BY <2>1 DEF Ids, NormalAt, RawAt
<1>4. \A k, x : WaitsAt(k, x) <=> NormalAt(k, x)
  <2>1. ASSUME NEW k, NEW x, NormalAt(k, x) PROVE k >= current
    BY <2>1, QueueNumbers
  <2> QED BY <2>1 DEF WaitsAt
<1>5. OrderState' /\ ConsumedState'
  BY <1>1 DEF QueueState, OrderState, ConsumedState
<1>6. SettledState'
  BY <1>1, <1>2 DEF QueueState, SettledState
<1>7. CoverState'
  <2>1. discarded' \subseteq 1..arrived'
    BY <1>3 DEF QueueState, CoverState, OrderState
  <2>2. ASSUME NEW x \in 1..arrived' PROVE (\E k : SettledAt(k, x)') \/ x \in discarded'
    BY <1>2, <1>3, <1>4 DEF QueueState, CoverState
  <2>3. ASSUME NEW k, NEW x, SettledAt(k, x), x \in discarded' PROVE \E t \in throws : x \in t.again
    <3>1. CASE x \in discarded
      BY <2>3, <3>1 DEF QueueState, CoverState
    <3>2. ASSUME NEW l, NormalAt(l, x) PROVE \E t \in throws : x \in t.again
      <4>1. x < x \/ Repeated(k, Len(settled) + 1, x)
        BY <1>4, <2>3, <3>2 DEF QueueState, SettledState
      <4>2. x \in Nat
        BY <3>2, QueueNumbers
      <4>3. ~(x < x)
        BY <4>2
      <4> QED BY <4>1, <4>3 DEF Repeated
    <3>3. ASSUME NEW l, RawAt(l, x) PROVE FALSE
      <4>1. x < x
        BY <2>3, <3>3 DEF QueueState, SettledState
      <4>2. x \in Nat
        BY <3>3, QueueNumbers
      <4> QED BY <4>1, <4>2
    <3> QED BY <1>3, <2>3, <3>1, <3>2, <3>3
  <2> QED BY <1>2, <2>1, <2>2, <2>3 DEF QueueState, CoverState
<1> QED BY <1>5, <1>6, <1>7 DEF QueueState

\* A dispatch begins with the first event.
LEMMA BeginKeepsOrder ==
  ASSUME Shape, QueueState, current = 0, current' = 1,
         UNCHANGED <<raw_queue, normalized_queue, arrived, discarded, settled, consumed, throws>>
  PROVE  QueueState'
<1>1. /\ \A k, x : NormalAt(k, x)' <=> NormalAt(k, x)
      /\ \A k, x : RawAt(k, x)' <=> RawAt(k, x)
      /\ \A k, x : SettledAt(k, x)' <=> SettledAt(k, x)
      /\ \A i, j, y : Repeated(i, j, y)' <=> Repeated(i, j, y)
  BY DEF NormalAt, RawAt, SettledAt, Repeated
<1>2. \A k, x : WaitsAt(k, x)' <=> WaitsAt(k, x)
  <2>1. ASSUME NEW k, NEW x, NormalAt(k, x) PROVE k >= current /\ k >= current'
    BY <2>1, QueueNumbers
  <2> QED BY <1>1, <2>1 DEF WaitsAt
<1>3. OrderState'
  BY <1>1 DEF QueueState, OrderState
<1>4. SettledState'
  BY <1>1, <1>2 DEF QueueState, SettledState
<1>5. CoverState'
  BY <1>1, <1>2 DEF QueueState, CoverState
<1>6. ConsumedState'
  BY <1>1, <1>2 DEF QueueState, ConsumedState
<1> QED BY <1>3, <1>4, <1>5, <1>6 DEF QueueState

\* The event being routed is settled; after the last one the queue is cleared.
LEMMA SettleKeepsOrder ==
  ASSUME Shape, QueueState, current # 0, SettleEvent,
         consumed' = consumed \/ consumed' = consumed \cup {normalized_queue[current].id},
         UNCHANGED <<raw_queue, arrived, discarded, throws>>
  PROVE  /\ QueueState' /\ settled' \in Seq(Nat) /\ normalized_queue' \in Seq(Queued)
         /\ current' \in 0..Len(normalized_queue') /\ walk' = NoWalk
<1> DEFINE c == normalized_queue[current].id
           n == Len(normalized_queue)
           s == Len(settled)
<1>0. /\ settled' = Append(settled, c) /\ walk' = NoWalk
      /\ current' = IF current = n THEN 0 ELSE current + 1
      /\ normalized_queue' = IF current = n THEN <<>> ELSE normalized_queue
  BY DEF SettleEvent
<1>1. /\ n \in Nat /\ s \in Nat /\ current \in 1..n /\ settled \in Seq(Nat)
      /\ normalized_queue \in Seq(Queued)
  BY DEF Shape
<1>2. NormalAt(current, c) /\ WaitsAt(current, c)
  BY <1>1 DEF NormalAt, WaitsAt
<1>3. c \in Nat
  BY <1>2, QueueNumbers
<1> HIDE DEF c
<1>4. /\ settled' \in Seq(Nat) /\ Len(settled') = s + 1
      /\ \A i \in 1..s : settled'[i] = settled[i]
      /\ settled'[s + 1] = c
  BY <1>0, <1>1, <1>3, AppendFacts
<1>5. ASSUME NEW k, NEW x PROVE SettledAt(k, x)' <=> SettledAt(k, x) \/ (k = s + 1 /\ x = c)
  <2>1. k \in 1..(s + 1) <=> k \in 1..s \/ k = s + 1
    BY <1>1
  <2>2. s + 1 \notin 1..s
    BY <1>1
  <2> QED BY <1>4, <2>1, <2>2 DEF SettledAt
<1>6. /\ \A k, x : RawAt(k, x)' <=> RawAt(k, x)
      /\ \A i, j, y : Repeated(i, j, y)' <=> Repeated(i, j, y)
  BY DEF RawAt, Repeated
<1>7. \A k, x : NormalAt(k, x)' => NormalAt(k, x)
  BY <1>0 DEF NormalAt
<1>8. ASSUME NEW k, NEW x PROVE WaitsAt(k, x)' <=> WaitsAt(k, x) /\ k > current
  <2>1. CASE current = n
    <3>1. ~WaitsAt(k, x)'
      BY <1>0, <2>1 DEF WaitsAt, NormalAt
    <3>2. NormalAt(k, x) => ~(k > current)
      BY <1>1, <2>1 DEF NormalAt
    <3> QED BY <3>1, <3>2 DEF WaitsAt
  <2>2. CASE current # n
    <3>1. NormalAt(k, x)' <=> NormalAt(k, x)
      BY <1>0, <2>2 DEF NormalAt
    <3>2. NormalAt(k, x) => (k >= current + 1 <=> k >= current /\ k > current)
      BY <1>1 DEF NormalAt
    <3>3. current' = current + 1
      BY <1>0, <2>2
    <3> QED BY <3>1, <3>2, <3>3 DEF WaitsAt
  <2> QED BY <2>1, <2>2
<1>9. ASSUME NEW k, NEW x, WaitsAt(k, x) PROVE WaitsAt(k, x)' \/ (k = current /\ x = c)
  <2>1. k \in Nat /\ k >= current /\ NormalAt(k, x)
    BY <1>9, QueueNumbers DEF WaitsAt
  <2>2. CASE k > current
    BY <1>8, <1>9, <2>2
  <2>3. CASE k = current
    BY <1>2, <2>1, <2>3 DEF NormalAt
  <2> QED BY <1>1, <2>1, <2>2, <2>3
<1>10. /\ normalized_queue' \in Seq(Queued) /\ current' \in 0..Len(normalized_queue')
  <2>1. CASE current = n
    BY <1>0, <2>1
  <2>2. CASE current # n
    BY <1>0, <1>1, <2>2
  <2> QED BY <2>1, <2>2
<1>11. OrderState'
  BY <1>6, <1>7 DEF QueueState, OrderState
<1>12. c \in 1..arrived /\ c \notin discarded /\ \A k, x : RawAt(k, x) => c < x
  BY <1>2 DEF QueueState, OrderState
<1>13. SettledState'
  <2>1. \A t \in throws : t.settled \in Nat /\ t.settled <= s
    BY DEF QueueState, SettledState
  <2>2. \A t \in throws' : t.settled \in Nat /\ t.settled <= Len(settled')
    <3>1. \A t \in throws : t.settled <= s + 1
      BY <1>1, <2>1
    <3> QED BY <1>4, <2>1, <3>1
  <2>3. \A i, y : Repeated(i, s + 1, y) => Repeated(i, Len(settled') + 1, y)
    <3>1. \A t \in throws : t.settled < s + 2
      BY <1>1, <2>1
    <3>2. Len(settled') + 1 = s + 2
      BY <1>1, <1>4
    <3> QED BY <3>1, <3>2 DEF Repeated
  <2>4. ASSUME NEW i, NEW j, NEW x, NEW y, SettledAt(i, x)', SettledAt(j, y)', i < j
        PROVE  x < y \/ Repeated(i, j, y)
    <3>1. CASE SettledAt(i, x) /\ SettledAt(j, y)
      BY <2>4, <3>1 DEF QueueState, SettledState
    <3>2. CASE SettledAt(i, x) /\ j = s + 1 /\ y = c
      BY <1>2, <3>2 DEF QueueState, SettledState
    <3>3. CASE i = s + 1
      <4>1. j \in 1..(s + 1)
        BY <1>4, <2>4 DEF SettledAt
      <4> QED BY <1>1, <2>4, <3>3, <4>1
    <3> QED BY <1>5, <2>4, <3>1, <3>2, <3>3
  <2>5. ASSUME NEW i, NEW k, NEW x, NEW y, SettledAt(i, x)', WaitsAt(k, y)'
        PROVE  x < y \/ Repeated(i, Len(settled') + 1, y)
    <3>1. WaitsAt(k, y) /\ k > current
      BY <1>8, <2>5
    <3>2. CASE SettledAt(i, x)
      <4>1. x < y \/ Repeated(i, s + 1, y)
        BY <3>1, <3>2 DEF QueueState, SettledState
      <4> QED BY <2>3, <4>1
    <3>3. CASE x = c
      <4>1. NormalAt(k, y) /\ k \in Nat /\ current < k
        BY <1>1, <3>1, QueueNumbers DEF WaitsAt
      <4> QED BY <1>2, <3>3, <4>1 DEF QueueState, OrderState
    <3> QED BY <1>5, <2>5, <3>2, <3>3
  <2>6. \A i, k, x, y : SettledAt(i, x)' /\ RawAt(k, y)' => x < y
    BY <1>5, <1>6, <1>12 DEF QueueState, SettledState
  <2> QED BY <1>6, <2>2, <2>4, <2>5, <2>6 DEF SettledState
<1>14. CoverState'
  <2>1. ASSUME NEW x \in 1..arrived
        PROVE  (\E k : SettledAt(k, x)' \/ WaitsAt(k, x)' \/ RawAt(k, x)') \/ x \in discarded
    <3>1. CASE x = c
      BY <1>5, <3>1
    <3>2. CASE x # c
      BY <1>5, <1>6, <1>9, <3>2 DEF QueueState, CoverState
    <3> QED BY <3>1, <3>2
  <2> QED BY <1>5, <1>12, <2>1 DEF QueueState, CoverState
<1>15. ConsumedState'
  <2>1. \A k, x : WaitsAt(k, x)' => x # c
    <3> SUFFICES ASSUME NEW k, NEW x, WaitsAt(k, x)' PROVE x # c
      OBVIOUS
    <3>1. NormalAt(k, x) /\ k \in Nat /\ current < k
      BY <1>1, <1>8, QueueNumbers DEF WaitsAt
    <3>2. c < x
      BY <1>2, <3>1 DEF QueueState, OrderState
    <3> QED BY <1>3, <3>2
  <2>2. \A k, x : RawAt(k, x) => x # c
    BY <1>3, <1>12
  <2>3. consumed' \subseteq consumed \cup {c}
    BY DEF c
  <2> QED BY <1>6, <1>8, <1>12, <2>1, <2>2, <2>3 DEF QueueState, ConsumedState
<1> QED BY <1>0, <1>4, <1>10, <1>11, <1>13, <1>14, <1>15 DEF QueueState

\* A handler throws: what this dispatch has settled waits again.
LEMMA ThrowKeepsOrder ==
  ASSUME Shape, QueueState, walk # NoWalk, Throw
  PROVE  QueueState'
<1> DEFINE before == SubSeq(normalized_queue, 1, current - 1)
           again == Ids(before)
           s == Len(settled)
           t == [settled |-> s, again |-> again]
<1>1. /\ throws = {} /\ throws' = {t} /\ consumed' = consumed \ again /\ current' = 0
      /\ raw_queue' = raw_queue /\ normalized_queue' = normalized_queue /\ arrived' = arrived
      /\ discarded' = discarded /\ settled' = settled
  BY DEF Throw, HandlerThrows, queues
<1>2. /\ current \in 1..Len(normalized_queue) /\ normalized_queue \in Seq(Queued)
      /\ Len(normalized_queue) \in Nat /\ s \in Nat
  BY DEF Shape
<1>3. \A x : x \in again <=> \E k : k < current /\ NormalAt(k, x)
  <2>1. current - 1 \in Nat /\ 1 <= current - 1 + 1 /\ current - 1 <= Len(normalized_queue)
    BY <1>2
  <2>2. /\ before \in Seq(Queued) /\ DOMAIN before = 1..(current - 1)
        /\ \A i \in 1..(current - 1) : before[i] = normalized_queue[i]
    BY <1>2, <2>1
  <2>3. \A k : k \in 1..(current - 1) <=> k < current /\ k \in 1..Len(normalized_queue)
    BY <1>2
  <2> HIDE DEF before
  <2> QED BY <2>2, <2>3 DEF Ids, NormalAt
<1>4. t.settled = s /\ t.again = again
  OBVIOUS
<1> HIDE DEF again, t
<1>5. /\ \A k, x : NormalAt(k, x)' <=> NormalAt(k, x)
      /\ \A k, x : RawAt(k, x)' <=> RawAt(k, x)
      /\ \A k, x : SettledAt(k, x)' <=> SettledAt(k, x)
  BY <1>1 DEF NormalAt, RawAt, SettledAt
<1>6. ASSUME NEW k, NEW x, NormalAt(k, x) PROVE WaitsAt(k, x)' /\ (WaitsAt(k, x) \/ x \in again)
  <2>1. k \in Nat /\ k >= 1
    BY <1>6, QueueNumbers
  <2>2. WaitsAt(k, x)'
    BY <1>1, <1>5, <1>6, <2>1 DEF WaitsAt
  <2>3. k >= current \/ k < current
    BY <1>2, <2>1
  <2> QED BY <1>3, <1>6, <2>2, <2>3 DEF WaitsAt
<1>7. /\ \A k, x : WaitsAt(k, x) => NormalAt(k, x)
      /\ \A k, x : WaitsAt(k, x)' => NormalAt(k, x)
  BY <1>5 DEF WaitsAt
<1>8. \A i, j, y : ~Repeated(i, j, y)
  BY <1>1 DEF Repeated
<1>9. \A i, x, y : SettledAt(i, x) /\ y \in again => Repeated(i, s + 1, y)'
  <2> SUFFICES ASSUME NEW i, NEW x, NEW y, SettledAt(i, x), y \in again PROVE Repeated(i, s + 1, y)'
    OBVIOUS
  <2>1. i <= s /\ s < s + 1
    BY <1>2 DEF SettledAt
  <2> QED BY <1>1, <1>4, <2>1 DEF Repeated
<1>10. OrderState'
  BY <1>1, <1>5 DEF QueueState, OrderState
<1>11. SettledState'
  <2>1. \A u \in throws' : u.settled \in Nat /\ u.settled <= Len(settled')
    BY <1>1, <1>2, <1>4
  <2>2. ASSUME NEW i, NEW k, NEW x, NEW y, SettledAt(i, x), NormalAt(k, y)
        PROVE  x < y \/ Repeated(i, s + 1, y)'
    BY <1>6, <1>8, <1>9, <2>2 DEF QueueState, SettledState
  <2> QED BY <1>1, <1>5, <1>7, <1>8, <2>1, <2>2 DEF QueueState, SettledState
<1>12. CoverState'
  BY <1>1, <1>5, <1>6, <1>7 DEF QueueState, CoverState
<1>13. ConsumedState'
  BY <1>1, <1>5, <1>6, <1>7 DEF QueueState, ConsumedState
<1> QED BY <1>10, <1>11, <1>12, <1>13 DEF QueueState

-----------------------------------------------------------------------------
(***************************************************************************)
(* What happens to the calls made for an event.                            *)
(***************************************************************************)
\* What every step adds to the history of the event being routed.
Remember ==
  /\ Trail
  /\ asked' = IF walk' = NoWalk THEN NotAsked
              ELSE IF walk # NoWalk THEN asked
              ELSE [capture |-> pointer_capture_window, focus |-> focused_window]

\* While a handler runs, the walk points at it and the dispatch at an event.
LEMMA WalkFacts ==
  ASSUME Shape, walk # NoWalk
  PROVE  /\ walk.list \in Lists /\ walk.list # None /\ current \in 1..Len(normalized_queue)
         /\ walk.called \in Nat /\ walk.called \in 1..Len(handlers[walk.list])
         /\ handlers[walk.list] \in Seq(Nat) /\ Len(handlers[walk.list]) \in Nat
<1>1. walk \in [list : Lists, called : Nat] /\ current # 0 /\ walk.called \in 1..Len(handlers[walk.list])
  BY DEF Shape
<1>2. walk.list \in Lists /\ walk.called \in Nat
  BY <1>1
<1>3. walk.list # None
  BY <1>2, WindowsAssumption
<1>4. current \in 1..Len(normalized_queue)
  BY <1>1 DEF Shape
<1>5. handlers[walk.list] \in Seq(Nat)
  BY <1>2 DEF Shape
<1> QED BY <1>1, <1>2, <1>3, <1>4, <1>5

\* Steps that neither enter nor leave a handler, and leave alone the list being walked.
LEMMA TrailKept ==
  ASSUME Shape, TrailState, Remember, walk' = walk,
         walk # NoWalk => /\ current' = current /\ normalized_queue' = normalized_queue
                          /\ handlers'[walk.list] = handlers[walk.list]
  PROVE  TrailState'
<1>1. CASE walk = NoWalk
  <2>1. trail' = <<>>
    BY <1>1 DEF Remember, Trail
  <2> QED BY <1>1, <2>1 DEF TrailState
<1>2. CASE walk # NoWalk
  <2>1. trail' = trail /\ asked' = asked
    BY <1>2 DEF Remember, Trail
  <2> QED BY <1>2, <2>1 DEF TrailState
<1> QED BY <1>1, <1>2

\* No handler is being called after the step.
LEMMA TrailEnded ==
  ASSUME Remember, walk' = NoWalk
  PROVE  TrailState'
<1>1. trail' = <<>>
  BY DEF Remember, Trail
<1> QED BY <1>1 DEF TrailState

\* A handler is entered.
LEMMA TrailExtended ==
  ASSUME Shape, HandlersState, TrailState, Remember, current' = current,
         normalized_queue' = normalized_queue, handlers' = handlers,
         NEW l \in Lists, NEW c \in 1..Len(handlers[l]), walk' = [list |-> l, called |-> c],
         \/ walk = NoWalk /\ (l # Global => l = ResolveTargetWindow(normalized_queue[current].input))
         \/ walk # NoWalk /\ l = walk.list /\ c = walk.called + 1
         \/ walk # NoWalk /\ l = Global /\ walk.list # Global
  PROVE  TrailState'
<1> DEFINE Entries == [list : Lists, id : Nat]
           e == [list |-> l, id |-> handlers[l][c]]
           n == Len(trail)
           event == normalized_queue[current].input
<1>1. handlers[l] \in Seq(Nat) /\ Len(handlers[l]) \in Nat /\ c \in Nat /\ handlers[l][c] \in Nat
  <2>1. handlers[l] \in Seq(Nat)
    BY DEF Shape
  <2> QED BY <2>1
<1>2. walk'.list = l /\ walk'.called = c /\ walk' # NoWalk
  BY WindowsAssumption DEF NoWalk
<1>3. walk' # walk
  <2>1. CASE walk = NoWalk
    BY <1>2, <2>1
  <2>2. CASE walk # NoWalk /\ l = walk.list /\ c = walk.called + 1
    <3>1. walk.called \in Nat
      BY <2>2, WalkFacts
    <3> QED BY <1>2, <2>2, <3>1
  <2>3. CASE walk # NoWalk /\ l = Global /\ walk.list # Global
    BY <1>2, <2>3
  <2> QED BY <2>1, <2>2, <2>3
<1>4. trail' = Append(trail, e)
  BY <1>2, <1>3 DEF Remember, Trail
<1>5. trail \in Seq(Entries) /\ n \in Nat /\ e \in Entries /\ e.list = l /\ e.id = handlers[l][c]
  BY <1>1 DEF TrailState
<1> HIDE DEF e
<1>6. /\ trail' \in Seq(Entries) /\ Len(trail') = n + 1
      /\ \A i \in 1..n : trail'[i] = trail[i]
      /\ trail'[n + 1] = e
  BY <1>4, <1>5, AppendFacts
<1>7. ASSUME NEW i \in 1..Len(trail') PROVE i \in 1..n \/ i = n + 1
  BY <1>5, <1>6
<1>8. \A i \in 1..n : trail[i].list \in Lists /\ trail[i].id \in Nat
  <2> SUFFICES ASSUME NEW i \in 1..n PROVE trail[i].list \in Lists /\ trail[i].id \in Nat
    OBVIOUS
  <2> HIDE DEF Entries
  <2>1. trail[i] \in Entries
    BY <1>5, ElementOfSeq
  <2> QED BY <2>1 DEF Entries
\* What went before is on the same list with a smaller id, or on a window's list.
<1>9. ASSUME NEW i \in 1..n
      PROVE  /\ walk # NoWalk
             /\ trail[i].list = l => trail[i].id < handlers[l][c]
             /\ trail[i].list # l => l = Global
  <2>1. walk # NoWalk
    <3>1. trail # <<>>
      BY <1>5
    <3> QED BY <3>1 DEF TrailState
  <2>2. CASE l = walk.list /\ c = walk.called + 1
    <3>1. walk.called \in 1..Len(handlers[l]) /\ walk.called \in Nat
      BY <2>1, <2>2, WalkFacts
    <3>2. handlers[l][walk.called] < handlers[l][c]
      BY <2>2, <3>1 DEF HandlersState
    <3>3. handlers[l][walk.called] \in Nat
      BY <1>1, <3>1
    <3>4. trail[i].list = l => trail[i].id <= handlers[l][walk.called]
      BY <2>1, <2>2 DEF TrailState
    <3>5. trail[i].list # l => l = Global
      BY <2>1, <2>2 DEF TrailState
    <3> QED BY <1>1, <1>8, <2>1, <3>2, <3>3, <3>4, <3>5, SMTT(30)
  <2>3. CASE l = Global /\ walk.list # Global
    BY <2>1, <2>3 DEF TrailState
  <2> QED BY <2>1, <2>2, <2>3
\* The target does not change while the event is routed.
<1>10. ASSUME NEW i \in 1..n, trail[i].list # Global PROVE IsTarget(trail[i].list, event, asked')
  <2>1. walk # NoWalk
    BY <1>9
  <2>2. asked' = asked
    BY <1>2, <2>1 DEF Remember
  <2> QED BY <1>10, <2>1, <2>2 DEF TrailState
<1>11. l # Global => IsTarget(l, event, asked')
  <2> SUFFICES ASSUME l # Global PROVE IsTarget(l, event, asked')
    OBVIOUS
  <2>1. CASE walk = NoWalk
    <3>1. asked' = [capture |-> pointer_capture_window, focus |-> focused_window]
      BY <1>2, <2>1 DEF Remember
    <3>2. asked'.capture = pointer_capture_window /\ asked'.focus = focused_window
      BY <3>1
    <3>3. l = ResolveTargetWindow(event) /\ l # None
      BY <2>1, WindowsAssumption
    <3> QED BY <3>2, <3>3 DEF IsTarget, ResolveTargetWindow
  <2>2. CASE walk # NoWalk
    <3>1. l = walk.list /\ asked' = asked
      BY <1>2, <2>2 DEF Remember
    <3> QED BY <2>2, <3>1 DEF TrailState
  <2> QED BY <2>1, <2>2
<1> HIDE DEF n
<1>12. \A i \in 1..Len(trail') :
         /\ trail'[i].list = l => trail'[i].id <= handlers[l][c]
         /\ trail'[i].list # l => l = Global
         /\ trail'[i].list # Global => IsTarget(trail'[i].list, event, asked')
  <2> SUFFICES ASSUME NEW i \in 1..Len(trail')
               PROVE  /\ trail'[i].list = l => trail'[i].id <= handlers[l][c]
                      /\ trail'[i].list # l => l = Global
                      /\ trail'[i].list # Global => IsTarget(trail'[i].list, event, asked')
    OBVIOUS
  <2>1. CASE i \in 1..n
    <3>1. trail'[i] = trail[i] /\ trail[i].id \in Nat
      BY <1>6, <1>8, <2>1
    <3>2. trail[i].list = l => trail[i].id <= handlers[l][c]
      BY <1>1, <1>9, <2>1, <3>1
    <3> QED BY <1>9, <1>10, <2>1, <3>1, <3>2
  <2>2. CASE i = n + 1
    BY <1>1, <1>5, <1>6, <1>11, <2>2
  <2> QED BY <1>7, <2>1, <2>2
<1>13. ASSUME NEW i \in 1..Len(trail'), NEW j \in 1..Len(trail'), i < j
       PROVE  /\ trail'[i].list = trail'[j].list => trail'[i].id < trail'[j].id
              /\ trail'[i].list # trail'[j].list => trail'[j].list = Global
  <2>1. CASE i \in 1..n /\ j \in 1..n
    <3>1. trail'[i] = trail[i] /\ trail'[j] = trail[j] /\ walk # NoWalk
      BY <1>6, <1>9, <2>1
    <3>2. i \in 1..Len(trail) /\ j \in 1..Len(trail)
      BY <2>1 DEF n
    <3>3. /\ trail[i].list = trail[j].list => trail[i].id < trail[j].id
          /\ trail[i].list # trail[j].list => trail[j].list = Global
      BY <1>13, <3>1, <3>2 DEF TrailState
    <3> QED BY <3>1, <3>3
  <2>2. CASE i \in 1..n /\ j = n + 1
    BY <1>5, <1>6, <1>9, <2>2
  <2>3. CASE i = n + 1
    BY <1>5, <1>6, <1>13, <2>3
  <2> QED BY <1>7, <2>1, <2>2, <2>3
<1> QED BY <1>2, <1>6, <1>11, <1>12, <1>13 DEF TrailState

-----------------------------------------------------------------------------
(***************************************************************************)
(* One lemma per operation.                                                *)
(***************************************************************************)
LEMMA SubscribeOnStep ==
  ASSUME InputInvariant, Remember, NEW l \in Lists, SubscribeOn(l), UNCHANGED <<consumed, throws>>
  PROVE  InputInvariant'
<1> DEFINE h == next_handler_id
<1>0. Shape /\ HandlersState /\ QueueState /\ TrailState
  BY DEF InputInvariant
<1>1. /\ walk.list # l /\ handlers' = [handlers EXCEPT ![l] = Append(@, h)] /\ next_handler_id' = h + 1
      /\ raw_queue' = raw_queue /\ normalized_queue' = normalized_queue /\ arrived' = arrived
      /\ discarded' = discarded /\ focused_window' = focused_window
      /\ pointer_capture_window' = pointer_capture_window /\ current' = current /\ walk' = walk
      /\ settled' = settled /\ consumed' = consumed /\ throws' = throws
  BY DEF SubscribeOn, queues, router
<1>2. handlers \in [Lists -> Seq(Nat)] /\ h \in Nat /\ handlers[l] \in Seq(Nat)
  BY <1>0 DEF Shape
<1>3. /\ handlers'[l] = Append(handlers[l], h) /\ \A x \in Lists \ {l} : handlers'[x] = handlers[x]
      /\ handlers' \in [Lists -> Seq(Nat)]
  BY <1>1, <1>2
<1>4. /\ Len(handlers[l]) \in Nat /\ Len(handlers'[l]) = Len(handlers[l]) + 1
      /\ \A i \in 1..Len(handlers[l]) : handlers'[l][i] = handlers[l][i] /\ handlers[l][i] \in Nat
      /\ handlers'[l][Len(handlers[l]) + 1] = h
  BY <1>2, <1>3, AppendFacts
<1>5. walk # NoWalk => walk.list \in Lists /\ handlers'[walk.list] = handlers[walk.list]
  BY <1>0, <1>1, <1>3, WalkFacts
<1>6. Shape'
  BY <1>0, <1>1, <1>2, <1>3, <1>5 DEF Shape
<1>7. HandlersState'
  <2> SUFFICES ASSUME NEW x \in Lists
               PROVE  /\ \A i, j \in 1..Len(handlers'[x]) : i < j => handlers'[x][i] < handlers'[x][j]
                      /\ \A i \in 1..Len(handlers'[x]) : handlers'[x][i] < next_handler_id'
    BY DEF HandlersState
  <2>1. CASE x # l
    <3>1. /\ \A i, j \in 1..Len(handlers[x]) : i < j => handlers[x][i] < handlers[x][j]
          /\ \A i \in 1..Len(handlers[x]) : handlers[x][i] < h
      BY <1>0 DEF HandlersState
    <3>2. \A i \in 1..Len(handlers[x]) : handlers[x][i] \in Nat
      BY <1>2
    <3> QED BY <1>1, <1>2, <1>3, <2>1, <3>1, <3>2
  <2>2. CASE x = l
    <3> DEFINE n == Len(handlers[l])
    <3>1. /\ \A i, j \in 1..n : i < j => handlers[l][i] < handlers[l][j]
          /\ \A i \in 1..n : handlers[l][i] < h
      BY <1>0 DEF HandlersState
    <3>2. \A i \in 1..Len(handlers'[l]) : i \in 1..n \/ i = n + 1
      BY <1>4
    <3>3. ASSUME NEW i \in 1..Len(handlers'[l]), NEW j \in 1..Len(handlers'[l]), i < j
          PROVE  handlers'[l][i] < handlers'[l][j]
      <4>1. CASE i \in 1..n /\ j \in 1..n
        BY <1>4, <3>1, <3>3, <4>1
      <4>2. CASE i \in 1..n /\ j = n + 1
        BY <1>4, <3>1, <4>2
      <4>3. CASE i = n + 1
        BY <1>4, <3>3, <4>3
      <4> QED BY <3>2, <4>1, <4>2, <4>3
    <3>4. ASSUME NEW i \in 1..Len(handlers'[l]) PROVE handlers'[l][i] < next_handler_id'
      <4>1. CASE i \in 1..n
        BY <1>1, <1>2, <1>4, <3>1, <4>1
      <4>2. CASE i = n + 1
        BY <1>1, <1>2, <1>4, <4>2
      <4> QED BY <3>2, <4>1, <4>2
    <3> QED BY <2>2, <3>3, <3>4
  <2> QED BY <2>1, <2>2
<1>8. QueueState'
  BY <1>0, <1>1, EventsUntouched
<1>9. TrailState'
  BY <1>0, <1>1, <1>5, TrailKept
<1> QED BY <1>6, <1>7, <1>8, <1>9 DEF InputInvariant

\* A handler leaves a list that is not being walked.
LEMMA UnsubscribeFromStep ==
  ASSUME InputInvariant, Remember, NEW l \in Lists, NEW id, UnsubscribeFrom(l, id),
         UNCHANGED <<consumed, throws>>
  PROVE  InputInvariant'
<1>0. Shape /\ HandlersState /\ QueueState /\ TrailState
  BY DEF InputInvariant
<1> DEFINE kept == ToSet(handlers[l]) \ {id}
           I == Places(handlers[l], kept)
           r == Keep(handlers[l], kept)
<1>1. /\ walk.list # l /\ handlers' = [handlers EXCEPT ![l] = r]
      /\ next_handler_id' = next_handler_id
      /\ raw_queue' = raw_queue /\ normalized_queue' = normalized_queue /\ arrived' = arrived
      /\ discarded' = discarded /\ focused_window' = focused_window
      /\ pointer_capture_window' = pointer_capture_window /\ current' = current /\ walk' = walk
      /\ settled' = settled /\ consumed' = consumed /\ throws' = throws
  BY DEF UnsubscribeFrom, queues, router
<1>2. handlers \in [Lists -> Seq(Nat)] /\ handlers[l] \in Seq(Nat) /\ DOMAIN handlers[l] = 1..Len(handlers[l])
  BY <1>0 DEF Shape
<1> HIDE DEF kept
<1>3. /\ r \in Seq(Nat) /\ Len(r) \in Nat /\ DOMAIN r = 1..Len(r)
      /\ \A k \in DOMAIN r : Place(I, k) \in DOMAIN handlers[l] /\ r[k] = handlers[l][Place(I, k)]
      /\ \A k, m \in DOMAIN r : k < m => Place(I, k) < Place(I, m)
  BY <1>2, KeepFacts
<1> HIDE DEF r, I
<1>4. /\ handlers'[l] = r /\ \A x \in Lists \ {l} : handlers'[x] = handlers[x]
      /\ handlers' \in [Lists -> Seq(Nat)]
  BY <1>1, <1>2, <1>3
<1>5. walk # NoWalk => walk.list \in Lists /\ handlers'[walk.list] = handlers[walk.list]
  BY <1>0, <1>1, <1>4, WalkFacts
<1>6. Shape'
  BY <1>0, <1>1, <1>4, <1>5 DEF Shape
<1>7. HandlersState'
  <2> SUFFICES ASSUME NEW x \in Lists
               PROVE  /\ \A i, j \in 1..Len(handlers'[x]) : i < j => handlers'[x][i] < handlers'[x][j]
                      /\ \A i \in 1..Len(handlers'[x]) : handlers'[x][i] < next_handler_id'
    BY DEF HandlersState
  <2>1. CASE x # l
    BY <1>0, <1>1, <1>4, <2>1 DEF HandlersState
  <2>2. CASE x = l
    <3>1. /\ \A i, j \in DOMAIN handlers[l] : i < j => handlers[l][i] < handlers[l][j]
          /\ \A i \in DOMAIN handlers[l] : handlers[l][i] < next_handler_id
      BY <1>0, <1>2 DEF HandlersState
    <3>2. \A i, j \in DOMAIN r : i < j => r[i] < r[j]
      BY <1>3, <3>1
    <3>3. \A i \in DOMAIN r : r[i] < next_handler_id
      BY <1>3, <3>1
    <3> QED BY <1>1, <1>3, <1>4, <2>2, <3>2, <3>3
  <2> QED BY <2>1, <2>2
<1>8. QueueState'
  BY <1>0, <1>1, EventsUntouched
<1>9. TrailState'
  BY <1>0, <1>1, <1>5, TrailKept
<1> QED BY <1>6, <1>7, <1>8, <1>9 DEF InputInvariant

\* The settings of the router and the runtime.
LEMMA SettingsStep ==
  ASSUME InputInvariant, Remember,
         focused_window' \in Windows \cup {None}, pointer_capture_window' \in Windows \cup {None},
         UNCHANGED <<queues, handlers, next_handler_id, current, walk, settled, consumed, throws>>
  PROVE  InputInvariant'
<1>0. Shape /\ HandlersState /\ QueueState /\ TrailState
  BY DEF InputInvariant
<1>1. /\ raw_queue' = raw_queue /\ normalized_queue' = normalized_queue /\ arrived' = arrived
      /\ discarded' = discarded /\ handlers' = handlers /\ next_handler_id' = next_handler_id
      /\ current' = current /\ walk' = walk
      /\ settled' = settled /\ consumed' = consumed /\ throws' = throws
  BY DEF queues
<1>2. Shape'
  BY <1>0, <1>1 DEF Shape
<1>3. HandlersState'
  BY <1>0, <1>1 DEF HandlersState
<1>4. QueueState' /\ TrailState'
  BY <1>0, <1>1, EventsUntouched, TrailKept
<1> QED BY <1>2, <1>3, <1>4 DEF InputInvariant

\* A new event joins the end of the raw queue.
LEMMA EnqueueRawInputStep ==
  ASSUME InputInvariant, Remember, NEW input \in Inputs, EnqueueRawInput(input), UNCHANGED <<consumed, throws>>
  PROVE  InputInvariant'
<1>0. Shape /\ HandlersState /\ QueueState /\ TrailState
  BY DEF InputInvariant
<1>1. /\ raw_queue' = Append(raw_queue, [input |-> input, id |-> arrived + 1]) /\ arrived' = arrived + 1
      /\ normalized_queue' = normalized_queue
      /\ discarded' = discarded /\ handlers' = handlers /\ next_handler_id' = next_handler_id
      /\ focused_window' = focused_window /\ pointer_capture_window' = pointer_capture_window
      /\ current' = current /\ walk' = walk
      /\ settled' = settled /\ consumed' = consumed /\ throws' = throws
  BY DEF EnqueueRawInput, router
<1>2. QueueState' /\ raw_queue' \in Seq(Queued)
  BY <1>0, <1>1, EnqueueKeepsOrder
<1>3. Shape'
  BY <1>0, <1>1, <1>2 DEF Shape
<1>4. HandlersState'
  BY <1>0, <1>1 DEF HandlersState
<1>5. TrailState'
  BY <1>0, <1>1, TrailKept
<1> QED BY <1>2, <1>3, <1>4, <1>5 DEF InputInvariant

\* NormalizePending, DiscardPending and BeginDispatch: no handler is being called.
LEMMA IdleStep ==
  ASSUME InputInvariant, Remember, NormalizePending \/ DiscardPending \/ BeginDispatch,
         UNCHANGED <<consumed, throws>>
  PROVE  InputInvariant'
<1>0. Shape /\ HandlersState /\ QueueState /\ TrailState
  BY DEF InputInvariant
<1>1. /\ current = 0 /\ handlers' = handlers /\ next_handler_id' = next_handler_id
      /\ focused_window' = focused_window /\ pointer_capture_window' = pointer_capture_window
      /\ walk' = walk /\ arrived' = arrived
      /\ settled' = settled /\ consumed' = consumed /\ throws' = throws
  BY DEF NormalizePending, DiscardPending, BeginDispatch, router, queues, Idle
<1>2. walk = NoWalk
  BY <1>0, <1>1 DEF Shape
<1>3. HandlersState' /\ TrailState'
  BY <1>0, <1>1, <1>2, TrailEnded DEF HandlersState
<1>4. QueueState' /\ raw_queue' \in Seq(Queued) /\ normalized_queue' \in Seq(Queued)
      /\ current' \in 0..Len(normalized_queue')
  <2>1. CASE NormalizePending
    <3>1. normalized_queue' = normalized_queue \o raw_queue /\ raw_queue' = <<>> /\ discarded' = discarded
          /\ current' = current
      BY <2>1 DEF NormalizePending
    <3>2. QueueState' /\ normalized_queue' \in Seq(Queued) /\ raw_queue' \in Seq(Queued)
      BY <1>0, <1>1, <3>1, NormalizeKeepsOrder
    <3> QED BY <1>1, <3>1, <3>2
  <2>2. CASE DiscardPending
    <3>1. normalized_queue' = <<>> /\ raw_queue' = <<>> /\ current' = current
          /\ discarded' = discarded \cup Ids(raw_queue) \cup Ids(normalized_queue)
      BY <2>2 DEF DiscardPending
    <3>2. QueueState'
      BY <1>0, <1>1, <3>1, DiscardKeepsOrder
    <3> QED BY <1>1, <3>1, <3>2
  <2>3. CASE BeginDispatch
    <3>1. normalized_queue' = normalized_queue /\ raw_queue' = raw_queue /\ current' = 1
          /\ discarded' = discarded /\ normalized_queue # <<>>
      BY <2>3 DEF BeginDispatch, queues
    <3>2. QueueState'
      BY <1>0, <1>1, <3>1, BeginKeepsOrder
    <3>3. raw_queue \in Seq(Queued) /\ normalized_queue \in Seq(Queued)
      BY <1>0 DEF Shape
    <3> QED BY <3>1, <3>2, <3>3
  <2> QED BY <2>1, <2>2, <2>3
<1>5. Shape'
  BY <1>0, <1>1, <1>2, <1>4 DEF Shape
<1> QED BY <1>3, <1>4, <1>5 DEF InputInvariant

\* The event is settled, consumed or not.
LEMMA SettleStep ==
  ASSUME InputInvariant, Remember, current # 0, SettleEvent,
         consumed' = consumed \/ consumed' = consumed \cup {normalized_queue[current].id},
         UNCHANGED <<raw_queue, arrived, discarded, handlers, next_handler_id, router, throws>>
  PROVE  InputInvariant'
<1>0. Shape /\ HandlersState /\ QueueState /\ TrailState
  BY DEF InputInvariant
<1>1. /\ raw_queue' = raw_queue /\ arrived' = arrived /\ discarded' = discarded /\ handlers' = handlers
      /\ next_handler_id' = next_handler_id /\ throws' = throws
      /\ focused_window' = focused_window /\ pointer_capture_window' = pointer_capture_window
  BY DEF router
<1>2. /\ QueueState' /\ settled' \in Seq(Nat) /\ normalized_queue' \in Seq(Queued)
      /\ current' \in 0..Len(normalized_queue') /\ walk' = NoWalk
  BY <1>0, <1>1, SettleKeepsOrder
<1>3. TrailState'
  BY <1>2, TrailEnded
<1>4. Shape'
  BY <1>0, <1>1, <1>2 DEF Shape
<1>5. HandlersState'
  BY <1>0, <1>1 DEF HandlersState
<1> QED BY <1>2, <1>3, <1>4, <1>5 DEF InputInvariant

\* A handler is entered.
LEMMA EnterStep ==
  ASSUME InputInvariant, Remember, current # 0,
         NEW l \in Lists, NEW c \in 1..Len(handlers[l]), walk' = [list |-> l, called |-> c],
         \/ walk = NoWalk /\ (l # Global => l = ResolveTargetWindow(normalized_queue[current].input))
         \/ walk # NoWalk /\ l = walk.list /\ c = walk.called + 1
         \/ walk # NoWalk /\ l = Global /\ walk.list # Global,
         UNCHANGED <<current, normalized_queue, settled>>,
         UNCHANGED <<raw_queue, arrived, discarded, handlers, next_handler_id, router, throws, consumed>>
  PROVE  InputInvariant'
<1>0. Shape /\ HandlersState /\ QueueState /\ TrailState
  BY DEF InputInvariant
<1>1. /\ raw_queue' = raw_queue /\ arrived' = arrived /\ discarded' = discarded /\ handlers' = handlers
      /\ next_handler_id' = next_handler_id /\ throws' = throws /\ consumed' = consumed
      /\ focused_window' = focused_window /\ pointer_capture_window' = pointer_capture_window
      /\ current' = current /\ normalized_queue' = normalized_queue /\ settled' = settled
  BY DEF router
<1>2. walk' \in [list : Lists, called : Nat] /\ walk'.list = l /\ walk'.called = c
  <2>1. c \in Nat
    OBVIOUS
  <2> QED BY <2>1
<1>3. TrailState'
  BY <1>0, <1>1, TrailExtended
<1>4. Shape'
  BY <1>0, <1>1, <1>2 DEF Shape
<1>5. HandlersState'
  BY <1>0, <1>1 DEF HandlersState
<1>6. QueueState'
  BY <1>0, <1>1, EventsUntouched
<1> QED BY <1>3, <1>4, <1>5, <1>6 DEF InputInvariant

\* The walk goes on to the next handler of its list or to the next list, or settles the event.
LEMMA WalkStep ==
  ASSUME InputInvariant, Remember, current # 0, NEW l \in Lists, NEW c \in Nat, WalkFrom(l, c),
         \/ /\ walk = NoWalk /\ c = 0
            /\ l # Global => /\ l = ResolveTargetWindow(normalized_queue[current].input)
                             /\ handlers[l] # <<>>
         \/ walk # NoWalk /\ l = walk.list /\ c = walk.called,
         UNCHANGED <<raw_queue, arrived, discarded, handlers, next_handler_id, router, throws, consumed>>
  PROVE  InputInvariant'
<1>0. Shape
  BY DEF InputInvariant
<1>1. Global \in Lists
  BY DEF Lists
<1>2. /\ handlers[l] \in Seq(Nat) /\ Len(handlers[l]) \in Nat
      /\ handlers[Global] \in Seq(Nat) /\ Len(handlers[Global]) \in Nat
  <2>1. handlers[l] \in Seq(Nat) /\ handlers[Global] \in Seq(Nat)
    BY <1>0, <1>1 DEF Shape
  <2> QED BY <2>1
<1>3. CASE c < Len(handlers[l])
  <2>1. walk' = [list |-> l, called |-> c + 1] /\ UNCHANGED <<current, normalized_queue, settled>>
    BY <1>3 DEF WalkFrom
  <2>2. c + 1 \in 1..Len(handlers[l])
    BY <1>2, <1>3
  <2> QED BY <2>1, <2>2, EnterStep
<1>4. CASE l # Global /\ c = Len(handlers[l]) /\ handlers[Global] # <<>>
  <2>1. ~(c < Len(handlers[l]))
    BY <1>2, <1>4
  <2>2. walk' = [list |-> Global, called |-> 1] /\ UNCHANGED <<current, normalized_queue, settled>>
    BY <1>4, <2>1 DEF WalkFrom
  <2>3. 1 \in 1..Len(handlers[Global])
    BY <1>2, <1>4
  <2>4. walk # NoWalk /\ l = walk.list
    <3>1. Len(handlers[l]) = 0 => handlers[l] = <<>>
      <4> HIDE DEF Lists
      <4> QED BY <1>2, EmptySeq
    <3> QED BY <1>4, <3>1
  <2> QED BY <1>1, <1>4, <2>2, <2>3, <2>4, EnterStep
<1>5. CASE ~(c < Len(handlers[l])) /\ ~(l # Global /\ c = Len(handlers[l]) /\ handlers[Global] # <<>>)
  <2>1. SettleEvent
    BY <1>5 DEF WalkFrom
  <2> QED BY <2>1, SettleStep
<1> QED BY <1>3, <1>4, <1>5

\* Routing of the next event begins.
LEMMA RouteStep ==
  ASSUME InputInvariant, Remember, Route, UNCHANGED <<consumed, throws>>
  PROVE  InputInvariant'
<1> DEFINE event == normalized_queue[current].input
           list == FirstList(event)
<1>0. Shape
  BY DEF InputInvariant
<1>1. /\ current # 0 /\ walk = NoWalk /\ IF list = None THEN SettleEvent ELSE WalkFrom(list, 0)
      /\ UNCHANGED <<raw_queue, arrived, discarded, handlers, next_handler_id, router, throws, consumed>>
  BY DEF Route, Idle
<1>2. event \in Inputs
  <2>1. current \in 1..Len(normalized_queue) /\ normalized_queue \in Seq(Queued)
    BY <1>0, <1>1 DEF Shape
  <2>2. normalized_queue[current] \in Queued
    BY <2>1, ElementOfSeq
  <2> QED BY <2>2 DEF Queued
<1>3. ResolveTargetWindow(event) \in Windows \cup {None}
  <2>1. event.window_id \in Windows \cup {None}
    BY <1>2, InputsAssumption
  <2> QED BY <1>0, <2>1 DEF ResolveTargetWindow, Shape
<1>4. CASE list = None
  BY <1>1, <1>4, SettleStep
<1>5. CASE list # None
  <2> HIDE DEF event
  <2>1. /\ list \in Lists
        /\ list # Global => list = ResolveTargetWindow(event) /\ handlers[list] # <<>>
    BY <1>3, <1>5, WindowsAssumption DEF FirstList, Lists
  <2> HIDE DEF list
  <2>2. WalkFrom(list, 0)
    BY <1>1, <1>5
  <2> QED BY <1>1, <2>1, <2>2, WalkStep DEF event
<1> QED BY <1>4, <1>5

\* A handler returns; a consumed event is settled.
LEMMA HandlerReturnsStep ==
  ASSUME InputInvariant, Remember, NEW yes \in BOOLEAN, HandlerReturns(yes), Consume(yes), UNCHANGED throws
  PROVE  InputInvariant'
<1>0. Shape
  BY DEF InputInvariant
<1>1. /\ walk # NoWalk /\ IF yes THEN SettleEvent ELSE WalkFrom(walk.list, walk.called)
      /\ UNCHANGED <<raw_queue, arrived, discarded, handlers, next_handler_id, router, throws>>
  BY DEF HandlerReturns
<1>2. walk.list \in Lists /\ walk.called \in Nat /\ current # 0
  <2>1. walk.list \in Lists /\ walk.called \in Nat
    BY <1>0, <1>1, WalkFacts
  <2> QED BY <1>0, <1>1, <2>1 DEF Shape
<1>3. CASE yes
  <2>1. consumed' = consumed \cup {normalized_queue[current].id} /\ SettleEvent
    BY <1>1, <1>3 DEF Consume
  <2> QED BY <1>1, <1>2, <2>1, SettleStep
<1>4. CASE ~yes
  <2>1. consumed' = consumed /\ WalkFrom(walk.list, walk.called)
    BY <1>1, <1>4 DEF Consume
  <2> QED BY <1>1, <1>2, <2>1, WalkStep
<1> QED BY <1>3, <1>4

\* A throwing handler ends the dispatch and leaves its events queued.
LEMMA ThrowStep ==
  ASSUME InputInvariant, Remember, Throw
  PROVE  InputInvariant'
<1>0. Shape /\ HandlersState /\ QueueState /\ TrailState
  BY DEF InputInvariant
<1>1. /\ walk # NoWalk /\ current' = 0 /\ walk' = NoWalk
      /\ raw_queue' = raw_queue /\ normalized_queue' = normalized_queue /\ arrived' = arrived
      /\ handlers' = handlers /\ next_handler_id' = next_handler_id
      /\ focused_window' = focused_window /\ pointer_capture_window' = pointer_capture_window
      /\ settled' = settled
  BY DEF Throw, HandlerThrows, queues, router
<1>2. QueueState'
  BY <1>0, <1>1, ThrowKeepsOrder
<1>3. TrailState'
  BY <1>1, TrailEnded
<1>4. Shape'
  <2>1. 0 \in 0..Len(normalized_queue)
    BY <1>0 DEF Shape
  <2> QED BY <1>0, <1>1, <2>1 DEF Shape
<1>5. HandlersState'
  BY <1>0, <1>1 DEF HandlersState
<1> QED BY <1>2, <1>3, <1>4, <1>5 DEF InputInvariant

\* A new runtime satisfies the invariant.
LEMMA InputInitial ==
  ASSUME MCInit
  PROVE  InputInvariant
<1>1. /\ raw_queue = <<>> /\ normalized_queue = <<>> /\ handlers = [l \in Lists |-> <<>>]
      /\ next_handler_id = 1 /\ focused_window = None /\ pointer_capture_window = None
      /\ current = 0 /\ walk = NoWalk /\ arrived = 0 /\ settled = <<>> /\ discarded = {}
      /\ trail = <<>> /\ consumed = {} /\ throws = {}
  BY DEF MCInit, Init
<1>2. Shape
  BY <1>1 DEF Shape
<1>3. HandlersState
  BY <1>1 DEF HandlersState
<1>4. \A k, x : ~NormalAt(k, x) /\ ~RawAt(k, x) /\ ~SettledAt(k, x) /\ ~WaitsAt(k, x)
  BY <1>1 DEF NormalAt, RawAt, SettledAt, WaitsAt
<1>5. \A x : x \notin 1..arrived
  BY <1>1
<1>6. QueueState
  BY <1>1, <1>4, <1>5 DEF QueueState, OrderState, SettledState, CoverState, ConsumedState
<1>7. TrailState
  BY <1>1 DEF TrailState
<1> QED BY <1>2, <1>3, <1>6, <1>7 DEF InputInvariant

\* Every step keeps the invariant.
LEMMA InputStep ==
  ASSUME InputInvariant, [MCNext]_mcVars
  PROVE  InputInvariant'
<1>1. CASE UNCHANGED mcVars
  <2>1. /\ raw_queue' = raw_queue /\ normalized_queue' = normalized_queue /\ arrived' = arrived
        /\ discarded' = discarded /\ handlers' = handlers /\ next_handler_id' = next_handler_id
        /\ focused_window' = focused_window /\ pointer_capture_window' = pointer_capture_window
        /\ current' = current /\ walk' = walk /\ settled' = settled
        /\ consumed' = consumed /\ throws' = throws /\ trail' = trail /\ asked' = asked
    BY <1>1 DEF mcVars, vars, queues, router
  <2>2. Shape'
    BY <2>1 DEF InputInvariant, Shape
  <2>3. HandlersState' /\ QueueState' /\ TrailState'
    BY <2>1, EventsUntouched DEF InputInvariant, HandlersState, TrailState
  <2> QED BY <2>2, <2>3 DEF InputInvariant
<1>2. CASE MCNext
  <2>1. Remember
    BY <1>2 DEF MCNext, Remember
  <2>2. CASE (Client \/ NormalizePending \/ Routing) /\ UNCHANGED <<consumed, throws>>
    <3>1. CASE \E l \in Lists : SubscribeOn(l) \/ \E id \in 1..MaxHandlers : UnsubscribeFrom(l, id)
      BY <2>1, <2>2, <3>1, SubscribeOnStep, UnsubscribeFromStep
    <3>2. CASE \/ \E w \in Windows \cup {None} : SetFocusedWindow(w) \/ SetPointerCaptureWindow(w)
               \/ \E p \in {"DropWithDiagnostics", "FallbackToGlobal"} : SetMissingWindowTargetPolicy(p)
               \/ \E n \in {"none", "passthrough", "strict"} : SetNormalizer(n)
      <4>1. Shape
        BY DEF InputInvariant
      <4>2. /\ focused_window' \in Windows \cup {None} /\ pointer_capture_window' \in Windows \cup {None}
            /\ UNCHANGED <<queues, handlers, next_handler_id, current, walk, settled>>
        BY <3>2, <4>1 DEF SetFocusedWindow, SetPointerCaptureWindow, SetMissingWindowTargetPolicy,
                          SetNormalizer, router, Shape
      <4> QED BY <2>1, <2>2, <4>2, SettingsStep
    <3>3. CASE \E input \in Inputs : EnqueueRawInput(input)
      BY <2>1, <2>2, <3>3, EnqueueRawInputStep
    <3>4. CASE DiscardPending \/ NormalizePending \/ BeginDispatch
      BY <2>1, <2>2, <3>4, IdleStep
    <3>5. CASE Route
      BY <2>1, <2>2, <3>5, RouteStep
    <3> QED BY <2>2, <3>1, <3>2, <3>3, <3>4, <3>5 DEF Client, SetRouter, Routing
  <2>3. CASE \E yes \in BOOLEAN : HandlerReturns(yes) /\ Consume(yes) /\ UNCHANGED throws
    BY <2>1, <2>3, HandlerReturnsStep
  <2>4. CASE Throw
    BY <2>1, <2>4, ThrowStep
  <2> QED BY <1>2, <2>2, <2>3, <2>4 DEF MCNext
<1> QED BY <1>1, <1>2

-----------------------------------------------------------------------------
(***************************************************************************)
(* The properties.                                                         *)
(***************************************************************************)
\* Behind the settled events come the ones that wait, then the raw ones.
LEMMA LineFacts ==
  ASSUME Shape
  PROVE  LET first == IF current = 0 THEN 1 ELSE current
             waiting == IF current = 0 THEN normalized_queue
                        ELSE SubSeq(normalized_queue, current, Len(normalized_queue))
             queued == waiting \o raw_queue
             line == settled \o [i \in DOMAIN queued |-> queued[i].id]
             s == Len(settled)
             w == (Len(normalized_queue) - first) + 1
         IN /\ line \in Seq(Nat) /\ Len(line) = s + w + Len(raw_queue)
            /\ s \in Nat /\ w \in Nat /\ Len(raw_queue) \in Nat /\ first \in Nat
            /\ \A i \in 1..s : SettledAt(i, line[i])
            /\ \A i \in 1..w : WaitsAt((first + i) - 1, line[s + i])
            /\ \A i \in 1..Len(raw_queue) : RawAt(i, line[(s + w) + i])
<1> DEFINE first == IF current = 0 THEN 1 ELSE current
           waiting == IF current = 0 THEN normalized_queue
                      ELSE SubSeq(normalized_queue, current, Len(normalized_queue))
           queued == waiting \o raw_queue
           ids == [i \in DOMAIN queued |-> queued[i].id]
           line == settled \o ids
           n == Len(normalized_queue)
           r == Len(raw_queue)
           s == Len(settled)
           w == (n - first) + 1
<1>1. /\ normalized_queue \in Seq(Queued) /\ raw_queue \in Seq(Queued) /\ settled \in Seq(Nat)
      /\ n \in Nat /\ r \in Nat /\ s \in Nat
  BY DEF Shape
<1>2. current \in 0..n
  BY DEF Shape
<1>3. first \in 1..(n + 1) /\ w \in Nat /\ current <= first /\ first \in Nat
  BY <1>1, <1>2
<1>4. /\ waiting \in Seq(Queued) /\ Len(waiting) = w
      /\ \A i \in 1..w : waiting[i] = normalized_queue[(first + i) - 1]
  <2>1. CASE current = 0
    <3>1. first = 1 /\ waiting = normalized_queue
      BY <2>1
    <3>2. w = n /\ \A i \in 1..w : (first + i) - 1 = i
      BY <1>1, <3>1
    <3> QED BY <1>1, <3>1, <3>2
  <2>2. CASE current # 0
    <3>1. current \in 1..n /\ first = current /\ waiting = SubSeq(normalized_queue, current, n)
      BY <1>1, <1>2, <2>2
    <3>2. current \in 1..(n + 1) /\ n \in (current - 1)..n
      BY <1>1, <3>1
    <3>3. /\ waiting \in Seq(Queued) /\ Len(waiting) = (n - current) + 1
          /\ \A i \in 1..((n - current) + 1) : waiting[i] = normalized_queue[(current + i) - 1]
      BY <1>1, <3>1, <3>2, SubSeqProperties
    <3> QED BY <3>1, <3>3
  <2> QED BY <2>1, <2>2
<1> HIDE DEF first, waiting
<1>5. /\ queued \in Seq(Queued) /\ Len(queued) = w + r
      /\ \A i \in 1..w : queued[i] = waiting[i]
      /\ \A i \in 1..r : queued[w + i] = raw_queue[i]
  <2>1. /\ queued \in Seq(Queued) /\ Len(queued) = Len(waiting) + r
        /\ \A i \in 1..Len(waiting) : queued[i] = waiting[i]
        /\ \A i \in 1..r : queued[Len(waiting) + i] = raw_queue[i]
    <3>1. waiting \in Seq(Queued) /\ raw_queue \in Seq(Queued)
      BY <1>1, <1>4
    <3> HIDE DEF w
    <3>2. queued \in Seq(Queued) /\ Len(queued) = Len(waiting) + r
      BY <3>1, ConcatFacts
    <3>3. \A i \in 1..Len(waiting) : queued[i] = waiting[i]
      BY <3>1, ConcatFacts
    <3>4. \A i \in 1..r : queued[Len(waiting) + i] = raw_queue[i]
      BY <3>1, ConcatFacts
    <3> QED BY <3>2, <3>3, <3>4
  <2> HIDE DEF w, queued
  <2> QED BY <1>4, <2>1
<1>6. DOMAIN queued = 1..(w + r)
  BY <1>5
<1> HIDE DEF queued
<1>7. ids \in Seq(Nat) /\ Len(ids) = w + r /\ \A i \in 1..(w + r) : ids[i] = queued[i].id
  <2>1. \A i \in 1..(w + r) : queued[i] \in Queued
    BY <1>5, <1>6
  <2>2. \A i \in 1..(w + r) : queued[i].id \in Nat
    BY <2>1 DEF Queued
  <2>3. ids \in [1..(w + r) -> Nat]
    BY <1>6, <2>2
  <2>4. w + r \in Nat
    BY <1>1, <1>3
  <2> HIDE DEF ids
  <2>5. ids \in Seq(Nat) /\ Len(ids) = w + r
    <3> HIDE DEF w, r
    <3> QED BY <2>3, <2>4, IsASeq, LenProperties
  <2> QED BY <1>6, <2>5 DEF ids
<1> HIDE DEF ids
<1>8. /\ line \in Seq(Nat) /\ Len(line) = s + (w + r)
      /\ \A i \in 1..s : line[i] = settled[i]
      /\ \A i \in 1..(w + r) : line[s + i] = ids[i]
  BY <1>1, <1>7, ConcatFacts
<1> HIDE DEF line
<1>9. \A i \in 1..s : SettledAt(i, line[i])
  BY <1>8 DEF SettledAt
<1>10. ASSUME NEW i \in 1..w PROVE WaitsAt((first + i) - 1, line[s + i])
  <2>1. i \in 1..(w + r) /\ (first + i) - 1 \in 1..n /\ (first + i) - 1 >= current
    BY <1>1, <1>2, <1>3
  <2>2. line[s + i] = normalized_queue[(first + i) - 1].id
    <3>1. line[s + i] = ids[i] /\ ids[i] = queued[i].id
      BY <1>7, <1>8, <2>1
    <3>2. queued[i] = waiting[i] /\ waiting[i] = normalized_queue[(first + i) - 1]
      BY <1>4, <1>5, <1>10
    <3> QED BY <3>1, <3>2
  <2> QED BY <2>1, <2>2 DEF WaitsAt, NormalAt
<1>11. ASSUME NEW i \in 1..r PROVE RawAt(i, line[(s + w) + i])
  <2>1. w + i \in 1..(w + r) /\ (s + w) + i = s + (w + i)
    BY <1>1, <1>3
  <2>2. line[(s + w) + i] = raw_queue[i].id
    BY <1>5, <1>7, <1>8, <2>1, SMTT(30)
  <2> QED BY <2>2 DEF RawAt
<1>12. Len(line) = s + w + r
  BY <1>1, <1>3, <1>8
<1> QED BY <1>1, <1>3, <1>8, <1>9, <1>10, <1>11, <1>12 DEF line, ids, queued, waiting, first

\* The invariant orders and accounts for the events as the property says.
LEMMA InvariantGivesOrder ==
  ASSUME InputInvariant
  PROVE  InputPassesInOrder
<1> DEFINE first == IF current = 0 THEN 1 ELSE current
           waiting == IF current = 0 THEN normalized_queue
                      ELSE SubSeq(normalized_queue, current, Len(normalized_queue))
           queued == waiting \o raw_queue
           line == settled \o [i \in DOMAIN queued |-> queued[i].id]
           s == Len(settled)
           w == (Len(normalized_queue) - first) + 1
           r == Len(raw_queue)
<1>0. Shape /\ OrderState /\ SettledState /\ CoverState
  BY DEF InputInvariant, QueueState
<1>1. /\ line \in Seq(Nat) /\ Len(line) = s + w + r
      /\ s \in Nat /\ w \in Nat /\ r \in Nat /\ first \in Nat
      /\ \A i \in 1..s : SettledAt(i, line[i])
      /\ \A i \in 1..w : WaitsAt((first + i) - 1, line[s + i])
      /\ \A i \in 1..r : RawAt(i, line[(s + w) + i])
  BY <1>0, LineFacts
<1>2. \A k, x : WaitsAt(k, x) => k >= first /\ k \in 1..Len(normalized_queue) /\ k \in Nat
  <2>1. current \in Nat
    BY <1>0, QueueNumbers
  <2> QED BY <2>1 DEF WaitsAt, NormalAt
<1>3. Len(normalized_queue) \in Nat
  BY <1>0, QueueNumbers
<1>4. DOMAIN line = 1..(s + w + r)
  <2> HIDE DEF line
  <2> QED BY <1>1
<1>5. \A k, x : SettledAt(k, x) => k \in 1..s /\ line[k] = x
  BY <1>1 DEF SettledAt
<1>6. ASSUME NEW k, NEW x, WaitsAt(k, x) PROVE \E i \in 1..w : x = line[s + i]
  <2>1. (k - first) + 1 \in 1..w /\ (first + ((k - first) + 1)) - 1 = k
    <3>1. k \in Nat /\ k >= first /\ k <= Len(normalized_queue)
      BY <1>2, <1>3, <1>6
    <3>2. first \in Nat
      BY <1>1
    <3> HIDE DEF first
    <3> QED BY <1>3, <3>1, <3>2
  <2>2. WaitsAt(k, line[s + ((k - first) + 1)])
    <3> HIDE DEF line, w, first, s, r
    <3> QED BY <1>1, <2>1
  <2>3. line[s + ((k - first) + 1)] = x
    <3> HIDE DEF line, w, first, s, r
    <3> QED BY <1>6, <2>2 DEF WaitsAt, NormalAt
  <2> HIDE DEF line, w, first, s, r
  <2> QED BY <2>1, <2>3
<1>7. ASSUME NEW k, NEW x, RawAt(k, x) PROVE \E i \in 1..r : x = line[(s + w) + i]
  <2> HIDE DEF line, w, first, s
  <2> QED BY <1>1, <1>7 DEF RawAt
<1> HIDE DEF line, w, first, s, r
<1>8. \A i \in DOMAIN line : \/ i \in 1..s /\ SettledAt(i, line[i])
                             \/ \E k \in 1..w : i = s + k /\ WaitsAt((first + k) - 1, line[i])
                             \/ \E k \in 1..r : i = (s + w) + k /\ RawAt(k, line[i])
  <2> SUFFICES ASSUME NEW i \in DOMAIN line
      PROVE \/ i \in 1..s /\ SettledAt(i, line[i])
            \/ \E k \in 1..w : i = s + k /\ WaitsAt((first + k) - 1, line[i])
            \/ \E k \in 1..r : i = (s + w) + k /\ RawAt(k, line[i])
    OBVIOUS
  <2>1. i \in 1..s \/ i - s \in 1..w \/ i - (s + w) \in 1..r
    BY <1>1, <1>4
  <2>2. i = s + (i - s) /\ i = (s + w) + (i - (s + w))
    BY <1>1, <1>4
  <2>3. CASE i \in 1..s
    BY <1>1, <2>3
  <2>4. CASE i - s \in 1..w
    BY <1>1, <2>2, <2>4
  <2>5. CASE i - (s + w) \in 1..r
    BY <1>1, <2>2, <2>5
  <2> QED BY <2>1, <2>3, <2>4, <2>5
<1>9. ASSUME NEW i \in DOMAIN line, NEW j \in DOMAIN line, i < j
      PROVE  \/ line[i] < line[j]
             \/ \E t \in throws : i <= t.settled /\ t.settled < j /\ line[j] \in t.again
  <2>1. CASE i \in 1..s /\ SettledAt(i, line[i])
    <3>1. CASE j \in 1..s /\ SettledAt(j, line[j])
      BY <1>0, <1>9, <2>1, <3>1 DEF SettledState, Repeated
    <3>2. CASE \E k \in 1..w : j = s + k /\ WaitsAt((first + k) - 1, line[j])
      <4>1. line[i] < line[j] \/ Repeated(i, s + 1, line[j])
        BY <1>0, <2>1, <3>2 DEF SettledState, s
      <4>2. j \in Nat /\ s + 1 <= j
        BY <1>1, <3>2
      <4>3. \A t \in throws : t.settled \in Nat
        BY <1>0 DEF SettledState
      <4>4. \A t \in throws : t.settled < s + 1 => t.settled < j
        BY <1>1, <4>2, <4>3
      <4> QED BY <4>1, <4>4 DEF Repeated
    <3>3. CASE \E k \in 1..r : j = (s + w) + k /\ RawAt(k, line[j])
      BY <1>0, <2>1, <3>3 DEF SettledState
    <3> QED BY <1>8, <3>1, <3>2, <3>3
  <2>2. CASE \E k \in 1..w : i = s + k /\ WaitsAt((first + k) - 1, line[i])
    <3>1. PICK k \in 1..w : i = s + k /\ WaitsAt((first + k) - 1, line[i])
      BY <2>2
    <3>2. CASE \E m \in 1..w : j = s + m /\ WaitsAt((first + m) - 1, line[j])
      <4>1. PICK m \in 1..w : j = s + m /\ WaitsAt((first + m) - 1, line[j])
        BY <3>2
      <4>2. (first + k) - 1 < (first + m) - 1
        BY <1>1, <1>9, <3>1, <4>1
      <4>3. NormalAt((first + k) - 1, line[i]) /\ NormalAt((first + m) - 1, line[j])
        BY <3>1, <4>1 DEF WaitsAt
      <4> QED BY <1>0, <4>2, <4>3 DEF OrderState
    <3>3. CASE \E m \in 1..r : j = (s + w) + m /\ RawAt(m, line[j])
      BY <1>0, <3>1, <3>3 DEF OrderState, WaitsAt
    <3>4. ~(j \in 1..s)
      BY <1>1, <1>9, <3>1
    <3> QED BY <1>8, <3>2, <3>3, <3>4
  <2>3. CASE \E k \in 1..r : i = (s + w) + k /\ RawAt(k, line[i])
    <3>1. PICK k \in 1..r : i = (s + w) + k /\ RawAt(k, line[i])
      BY <2>3
    <3>2. ~(j \in 1..s) /\ ~\E m \in 1..w : j = s + m
      BY <1>1, <1>9, <3>1
    <3>3. PICK m \in 1..r : j = (s + w) + m /\ RawAt(m, line[j])
      BY <1>8, <3>2
    <3>4. k < m
      BY <1>1, <1>9, <3>1, <3>3
    <3> QED BY <1>0, <3>1, <3>3, <3>4 DEF OrderState
  <2> QED BY <1>8, <2>1, <2>2, <2>3
<1>10. ToSet(line) = {line[i] : i \in DOMAIN line}
  BY DEF ToSet
<1>11. ToSet(line) \subseteq 1..arrived
  <2>1. \A i \in DOMAIN line : line[i] \in 1..arrived
    BY <1>0, <1>8 DEF OrderState, CoverState, WaitsAt
  <2> QED BY <1>10, <2>1
<1>12. 1..arrived \subseteq ToSet(line) \cup discarded
  <2> SUFFICES ASSUME NEW x \in 1..arrived, x \notin discarded PROVE \E i \in DOMAIN line : line[i] = x
    BY <1>10
  <2>1. PICK k : SettledAt(k, x) \/ WaitsAt(k, x) \/ RawAt(k, x)
    BY <1>0 DEF CoverState
  <2>2. CASE SettledAt(k, x)
    <3>1. k \in DOMAIN line /\ line[k] = x
      BY <1>1, <1>4, <1>5, <2>2
    <3> QED BY <3>1
  <2>3. CASE WaitsAt(k, x)
    <3>1. PICK i \in 1..w : x = line[s + i]
      BY <1>6, <2>3
    <3>2. s + i \in DOMAIN line
      BY <1>1, <1>4
    <3> QED BY <3>1, <3>2
  <2>4. CASE RawAt(k, x)
    <3>1. PICK i \in 1..r : x = line[(s + w) + i]
      BY <1>7, <2>4
    <3>2. (s + w) + i \in DOMAIN line
      BY <1>1, <1>4
    <3> QED BY <3>1, <3>2
  <2> QED BY <2>1, <2>2, <2>3, <2>4
<1>13. ToSet(line) \cup discarded = 1..arrived
  BY <1>0, <1>11, <1>12 DEF CoverState
<1>14. ToSet(line) \cap discarded \subseteq UNION {t.again : t \in throws}
  <2> SUFFICES ASSUME NEW i \in DOMAIN line, line[i] \in discarded
               PROVE  \E t \in throws : line[i] \in t.again
    BY <1>10
  <2>1. SettledAt(i, line[i])
    BY <1>0, <1>8 DEF OrderState, WaitsAt
  <2> QED BY <1>0, <2>1 DEF CoverState
<1> QED BY <1>9, <1>13, <1>14 DEF InputPassesInOrder, line, first

\* The invariant says of the handler calls what the property says.
LEMMA InvariantGivesRouting ==
  ASSUME InputInvariant
  PROVE  RoutingFollowsTarget
<1> SUFFICES ASSUME walk # NoWalk
             PROVE  LET event == normalized_queue[current].input
                        windows == {trail[i].list : i \in DOMAIN trail} \ {Global}
                    IN /\ normalized_queue[current].id \notin consumed
                       /\ \A i, j \in DOMAIN trail : i < j =>
                            /\ trail[i].list = trail[j].list => trail[i].id < trail[j].id
                            /\ trail[i].list # trail[j].list => trail[j].list = Global
                       /\ \A w \in windows : IsTarget(w, event, asked)
  BY DEF RoutingFollowsTarget, IsTarget
<1>1. Shape /\ ConsumedState /\ TrailState
  BY DEF InputInvariant, QueueState
<1>2. current \in 1..Len(normalized_queue) /\ current >= current
  BY <1>1 DEF Shape
<1>3. WaitsAt(current, normalized_queue[current].id)
  BY <1>2 DEF WaitsAt, NormalAt
<1>4. normalized_queue[current].id \notin consumed
  BY <1>1, <1>3 DEF ConsumedState
<1>5. DOMAIN trail = 1..Len(trail)
  BY <1>1 DEF TrailState
<1> QED BY <1>1, <1>4, <1>5 DEF TrailState

-----------------------------------------------------------------------------
\* The invariant holds in every state.
LEMMA InputInvariantHolds == Spec => []InputInvariant
<1>1. MCInit => InputInvariant
  BY InputInitial
<1>2. InputInvariant /\ [MCNext]_mcVars => InputInvariant'
  BY InputStep
<1> QED BY <1>1, <1>2, PTL DEF Spec

\* InputRoutingRuntime loses, repeats and overtakes no event: whatever the handlers call,
\* refuse, consume or throw, and however normalisation, dispatch and discarding alternate.
THEOREM InputAlwaysPassesInOrder == Spec => []InputPassesInOrder
BY InputInvariantHolds, InvariantGivesOrder, PTL

\* InputRouter calls the handlers of the window an event is for, then the global ones, in
\* subscription order, each once, and none after one that consumed the event.
THEOREM RoutingAlwaysFollowsTarget == Spec => []RoutingFollowsTarget
BY InputInvariantHolds, InvariantGivesRouting, PTL
=============================================================================
