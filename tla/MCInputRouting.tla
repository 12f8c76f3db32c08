--------------------------- MODULE MCInputRouting ---------------------------
(***************************************************************************)
(* InputRouting with the history of the event being routed.  At most one   *)
(* handler call throws, after which the router stays as it is set.         *)
(***************************************************************************)
EXTENDS InputRouting

CONSTANTS w1, w2
MCInputs == {[device |-> "Pointer", window_id |-> w1], [device |-> "Keyboard", window_id |-> None],
             [device |-> "Unknown", window_id |-> w2]}

VARIABLES
  trail,     \* handler calls made for the event being routed: [list, id]
  asked,     \* what the router was set to when its routing began: [capture, focus]
  consumed,  \* ids of the events a handler consumed
  throws     \* per throw: how many events were settled before it, which of them are still queued

mcVars == <<vars, trail, asked, consumed, throws>>
NotAsked == [capture |-> None, focus |-> None]
MCInit == Init /\ trail = <<>> /\ asked = NotAsked /\ consumed = {} /\ throws = {}

\* A call is added when a handler is entered; a new event starts a new trail.
Trail ==
  LET call == [list |-> walk'.list, id |-> handlers[walk'.list][walk'.called]]
  IN trail' = IF walk' = NoWalk THEN <<>>
              ELSE IF walk' = walk THEN trail ELSE Append(trail, call)

SetRouter ==
  \/ \E l \in Lists : SubscribeOn(l) \/ \E id \in 1..MaxHandlers : UnsubscribeFrom(l, id)
  \/ \E w \in Windows \cup {None} : SetFocusedWindow(w) \/ SetPointerCaptureWindow(w)
  \/ \E p \in {"DropWithDiagnostics", "FallbackToGlobal"} : SetMissingWindowTargetPolicy(p)

Client ==
  \/ throws = {} /\ SetRouter
  \/ \E n \in {"none", "passthrough", "strict"} : SetNormalizer(n)
  \/ \E input \in Inputs : EnqueueRawInput(input)
  \/ DiscardPending

Routing == BeginDispatch \/ Route

Consume(yes) ==
  consumed' = IF yes THEN consumed \cup {normalized_queue[current].id} ELSE consumed

\* What the interrupted dispatch had settled is routed once more.
Throw ==
  LET again == Ids(SubSeq(normalized_queue, 1, current - 1))
  IN /\ throws = {} /\ HandlerThrows
     /\ throws' = {[settled |-> Len(settled), again |-> again]}
     /\ consumed' = consumed \ again

MCNext ==
  /\ \/ (Client \/ NormalizePending \/ Routing) /\ UNCHANGED <<consumed, throws>>
     \/ \E yes \in BOOLEAN : HandlerReturns(yes) /\ Consume(yes) /\ UNCHANGED throws
     \/ Throw
  /\ Trail
  /\ asked' = IF walk' = NoWalk THEN NotAsked
              ELSE IF walk # NoWalk THEN asked
              ELSE [capture |-> pointer_capture_window, focus |-> focused_window]

\* The host's frames keep normalising and dispatching, and handlers return; only one call throws.
Spec ==
  /\ MCInit /\ [][MCNext]_mcVars
  /\ WF_vars(NormalizePending) /\ WF_vars(Routing) /\ WF_vars(\E yes \in BOOLEAN : HandlerReturns(yes))

-----------------------------------------------------------------------------
\* Every event that arrived is in exactly one place, settled, normalised, raw or discarded,
\* and the first three continue each other in the order of arrival: whatever is refused,
\* retried or enqueued from inside a handler, no event is lost, repeated or overtaken.  Only
\* what a dispatch had settled before a handler threw is routed, or discarded, once more.
InputPassesInOrder ==
  LET waiting == IF current = 0 THEN normalized_queue
                 ELSE SubSeq(normalized_queue, current, Len(normalized_queue))
      line == settled \o [i \in DOMAIN (waiting \o raw_queue) |-> (waiting \o raw_queue)[i].id]
      again == UNION {t.again : t \in throws}
  IN /\ \A i, j \in DOMAIN line : i < j =>
          \/ line[i] < line[j]
          \/ \E t \in throws : i <= t.settled /\ t.settled < j /\ line[j] \in t.again
     /\ ToSet(line) \cup discarded = 1..arrived
     /\ ToSet(line) \cap discarded \subseteq again

\* One event reaches the handlers of at most one window, then the global ones, each list in
\* subscription order, no handler twice and none after a consumer; the window is the captured
\* one for a pointer, else the event's own, else the focused one for the keyboard.
RoutingFollowsTarget ==
  LET event == normalized_queue[current].input
      windows == {trail[i].list : i \in DOMAIN trail} \ {Global}
  IN walk # NoWalk =>
       /\ normalized_queue[current].id \notin consumed
       /\ \A i, j \in DOMAIN trail : i < j =>
            /\ trail[i].list = trail[j].list => trail[i].id < trail[j].id
            /\ trail[i].list # trail[j].list => trail[j].list = Global
       /\ \A w \in windows :
            IF event.device = "Pointer" /\ asked.capture # None THEN w = asked.capture
            ELSE IF event.window_id # None THEN w = event.window_id
            ELSE event.device = "Keyboard" /\ w = asked.focus

\* Every event is settled or discarded in the end, unless the client replaces a normaliser
\* that accepts everything: an event that is refused holds back those behind it.
InputIsSettled ==
  \A id \in 1..MaxEvents :
    arrived >= id ~> id \in ToSet(settled) \cup discarded \/ normalizer # "passthrough"
=============================================================================
