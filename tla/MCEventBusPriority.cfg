SPECIFICATION Spec
CONSTANTS
  Threads = {t1}
  Types = {a}
  Policies = {}
  Capacities = {3}
  Limits = {5}
  MaxHandlers = 1
  MaxSequence = 3
  MaxDepth = 1
INVARIANT HigherClassesDrainFirst
