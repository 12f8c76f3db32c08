SPECIFICATION Spec
CONSTANTS
  w1 = w1
  w2 = w2
  Windows = {w1, w2}
  None = None
  Inputs <- MCInputs
  MaxEvents = 2
  MaxHandlers = 2
INVARIANTS
  InputPassesInOrder
  RoutingFollowsTarget
PROPERTY
  InputIsSettled
