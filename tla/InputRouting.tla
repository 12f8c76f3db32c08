---------------------------- MODULE InputRouting ----------------------------
(***************************************************************************)
(* framekit::runtime::InputRoutingRuntime with its InputRouter.  Handlers  *)
(* are client code: DispatchImmediate is one step per routed event and one *)
(* per handler call, and a handler may use the runtime as far as that is   *)
(* defined.  The code walks its queue and its handler lists in place, so a *)
(* handler must not normalise, dispatch or discard, nor (un)subscribe on   *)
(* the list being walked.  An event is the two attributes routing reads,   *)
(* with its place in the order of arrival; a text event is routed as a     *)
(* keyboard event.                                                         *)
(***************************************************************************)
EXTENDS Naturals, Sequences, FiniteSets, SequencesExt, Subsequences

CONSTANTS
  Windows, None,   \* window ids, and the empty id
  Inputs,          \* the [device, window_id] a backend may enqueue
  MaxEvents,       \* bound on enqueued events
  MaxHandlers      \* bound on subscriptions

ASSUME InputsAssumption ==
  Inputs \subseteq [device : {"Pointer", "Keyboard", "Unknown"}, window_id : Windows \cup {None}]
ASSUME BoundsAssumption == MaxEvents \in Nat /\ MaxHandlers \in Nat

Global == "global"
Lists == Windows \cup {Global}
ASSUME WindowsAssumption == None \notin Lists /\ Global \notin Windows

VARIABLES
  normalizer,             \* "none", "passthrough", or "strict": external, refuses unknown devices
  raw_queue, normalized_queue,
  handlers,               \* window_handlers_ and global_handlers_: list -> handler ids
  next_handler_id,
  focused_window, pointer_capture_window, missing_target_policy,
  current,                \* index in normalized_queue of the event being routed, 0: none
  walk,                   \* the handler list being walked and the handlers already called
  \* history
  arrived,                \* number of events enqueued
  settled,                \* ids of the events whose routing ended, in order
  discarded               \* ids of the events DiscardPending removed

router == <<focused_window, pointer_capture_window, missing_target_policy>>
queues == <<raw_queue, normalized_queue, arrived, discarded>>
vars == <<normalizer, queues, handlers, next_handler_id, router, current, walk, settled>>

NoWalk == [list |-> None, called |-> 0]

Init ==
  /\ normalizer = "passthrough" /\ raw_queue = <<>> /\ normalized_queue = <<>>
  /\ handlers = [l \in Lists |-> <<>>] /\ next_handler_id = 1
  /\ focused_window = None /\ pointer_capture_window = None
  /\ missing_target_policy = "DropWithDiagnostics"
  /\ current = 0 /\ walk = NoWalk
  /\ arrived = 0 /\ settled = <<>> /\ discarded = {}

Idle == current = 0
\* Client code runs outside dispatch and inside a handler.
ClientRuns == Idle \/ walk # NoWalk

-----------------------------------------------------------------------------
\* The router's settings.
SubscribeOn(list) ==
  /\ ClientRuns /\ walk.list # list /\ next_handler_id <= MaxHandlers
  /\ handlers' = [handlers EXCEPT ![list] = Append(@, next_handler_id)]
  /\ next_handler_id' = next_handler_id + 1
  /\ UNCHANGED <<normalizer, queues, router, current, walk, settled>>

\* An id that is not on the list leaves it alone.
UnsubscribeFrom(list, id) ==
  /\ ClientRuns /\ walk.list # list /\ id \in ToSet(handlers[list])
  /\ handlers' = [handlers EXCEPT ![list] = Keep(@, ToSet(@) \ {id})]
  /\ UNCHANGED <<normalizer, queues, next_handler_id, router, current, walk, settled>>

SetFocusedWindow(w) ==
  /\ ClientRuns /\ focused_window' = w
  /\ UNCHANGED <<normalizer, queues, handlers, next_handler_id, pointer_capture_window,
                 missing_target_policy, current, walk, settled>>

SetPointerCaptureWindow(w) ==
  /\ ClientRuns /\ pointer_capture_window' = w
  /\ UNCHANGED <<normalizer, queues, handlers, next_handler_id, focused_window,
                 missing_target_policy, current, walk, settled>>

SetMissingWindowTargetPolicy(p) ==
  /\ ClientRuns /\ missing_target_policy' = p
  /\ UNCHANGED <<normalizer, queues, handlers, next_handler_id, focused_window,
                 pointer_capture_window, current, walk, settled>>

SetNormalizer(n) ==
  /\ ClientRuns /\ normalizer' = n
  /\ UNCHANGED <<queues, handlers, next_handler_id, router, current, walk, settled>>

-----------------------------------------------------------------------------
\* The queues.
EnqueueRawInput(input) ==
  /\ ClientRuns /\ arrived < MaxEvents
  /\ raw_queue' = Append(raw_queue, [input |-> input, id |-> arrived + 1])
  /\ arrived' = arrived + 1
  /\ UNCHANGED <<normalizer, normalized_queue, discarded, handlers, next_handler_id, router,
                 current, walk, settled>>

\* Wrong version of Normalizes: an unknown device is refused by every normaliser.
NormalizesKnown(raw) == normalizer # "none" /\ raw.input.device # "Unknown"

Normalizes(raw) ==
  normalizer = "passthrough" \/ (normalizer = "strict" /\ raw.input.device # "Unknown")

\* Wrong version of NormalizePending: the events before the refused one are kept.
NormalizeSome ==
  LET refused == {i \in DOMAIN raw_queue : ~Normalizes(raw_queue[i])}
      good == IF refused = {} THEN raw_queue ELSE SubSeq(raw_queue, 1, Min(refused) - 1)
  IN /\ Idle /\ raw_queue # <<>> /\ normalizer # "none"
     /\ normalized_queue' = normalized_queue \o good
     /\ raw_queue' = IF refused = {} THEN <<>> ELSE raw_queue
     /\ UNCHANGED <<normalizer, arrived, discarded, handlers, next_handler_id, router, current,
                    walk, settled>>

\* All or nothing: one event that does not normalise keeps the whole queue raw.
NormalizePending ==
  /\ Idle /\ raw_queue # <<>> /\ \A i \in DOMAIN raw_queue : Normalizes(raw_queue[i])
  /\ normalized_queue' = normalized_queue \o raw_queue
  /\ raw_queue' = <<>>
  /\ UNCHANGED <<normalizer, arrived, discarded, handlers, next_handler_id, router, current,
                 walk, settled>>

Ids(queue) == {queue[i].id : i \in DOMAIN queue}

DiscardPending ==
  /\ Idle /\ raw_queue \o normalized_queue # <<>>
  /\ raw_queue' = <<>> /\ normalized_queue' = <<>>
  /\ discarded' = discarded \cup Ids(raw_queue) \cup Ids(normalized_queue)
  /\ UNCHANGED <<normalizer, arrived, handlers, next_handler_id, router, current, walk, settled>>

-----------------------------------------------------------------------------
\* Wrong version of ResolveTargetWindow: capture holds for every device.
ResolveCaptured(input) ==
  IF pointer_capture_window # None THEN pointer_capture_window ELSE input.window_id

ResolveTargetWindow(input) ==
  IF input.device = "Pointer" /\ pointer_capture_window # None THEN pointer_capture_window
  ELSE IF input.window_id # None THEN input.window_id
  ELSE IF input.device = "Keyboard" THEN focused_window
  ELSE None

\* The list Route starts with; None when the event is dropped.
FirstList(input) ==
  LET target == ResolveTargetWindow(input)
  IN CASE target = None -> Global
       [] target # None /\ handlers[target] # <<>> -> target
       [] OTHER -> IF missing_target_policy = "DropWithDiagnostics" THEN None ELSE Global

\* DispatchImmediate, up to the first event.
BeginDispatch ==
  /\ Idle /\ normalized_queue # <<>>
  /\ current' = 1
  /\ UNCHANGED <<normalizer, queues, handlers, next_handler_id, router, walk, settled>>

\* The event is done; after the last one the queue is cleared.
SettleEvent ==
  /\ settled' = Append(settled, normalized_queue[current].id)
  /\ walk' = NoWalk
  /\ current' = IF current = Len(normalized_queue) THEN 0 ELSE current + 1
  /\ normalized_queue' = IF current = Len(normalized_queue) THEN <<>> ELSE normalized_queue

\* Walking a list with nothing left to call moves on: from a window to the global
\* handlers, from there to the next event.
WalkFrom(list, called) ==
  CASE called < Len(handlers[list]) ->
         walk' = [list |-> list, called |-> called + 1]
           /\ UNCHANGED <<current, normalized_queue, settled>>
    [] list # Global /\ called = Len(handlers[list]) /\ handlers[Global] # <<>> ->
         walk' = [list |-> Global, called |-> 1]
           /\ UNCHANGED <<current, normalized_queue, settled>>
    [] OTHER -> SettleEvent

\* Route: the target is resolved when the event's turn comes; the first handler is called.
Route ==
  /\ ~Idle /\ walk = NoWalk
  /\ LET list == FirstList(normalized_queue[current].input)
     IN IF list = None THEN SettleEvent ELSE WalkFrom(list, 0)
  /\ UNCHANGED <<normalizer, raw_queue, arrived, discarded, handlers, next_handler_id, router>>

\* RouteHandlers: the handler that was called returns; a consumer ends the routing.
HandlerReturns(consumed) ==
  /\ walk # NoWalk
  /\ IF consumed THEN SettleEvent ELSE WalkFrom(walk.list, walk.called)
  /\ UNCHANGED <<normalizer, raw_queue, arrived, discarded, handlers, next_handler_id, router>>

\* An exception leaves DispatchImmediate before the queue is cleared: the events it
\* has settled already are still queued and will be routed again.
HandlerThrows ==
  /\ walk # NoWalk
  /\ current' = 0 /\ walk' = NoWalk
  /\ UNCHANGED <<normalizer, queues, handlers, next_handler_id, router, settled>>
=============================================================================
