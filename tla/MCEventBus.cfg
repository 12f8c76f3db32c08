SPECIFICATION MCSpec
CONSTANTS
  Threads = {t1, t2}
  Types = {a}
  Policies = {"DropNewest", "FailFast"}
  Capacities = {1, 2}
  Limits = {1, 5}
  MaxHandlers = 3
  MaxSequence = 2
  MaxDepth = 2
SYMMETRY ThreadSymmetry
INVARIANTS EveryEventAccountedFor DeliveryIsFifo MonitorsOnlyObserve HandlersInRegistrationOrder
