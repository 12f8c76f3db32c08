----------------------------- MODULE MCEventBus -----------------------------
(***************************************************************************)
(* Instances of EventBus for TLC; threads are interchangeable when all of  *)
(* them drain.  Deferred events need few handlers and dispatch order needs *)
(* no deferred events, so MCSpec bounds their product: a second handler is *)
(* subscribed only where no deferred event was offered and no call nests,  *)
(* and from then on neither happens.                                       *)
(***************************************************************************)
EXTENDS EventBus

ThreadSymmetry == Permutations(Threads)

Focus ==
  next_handler_id > 2 =>
    /\ next_sequence = 1 /\ dropped = 0
    /\ \A t \in Threads : Len(stack[t]) <= 1

MCSpec == Init /\ [][Next /\ Focus']_vars
=============================================================================
