SPECIFICATION MCSpec
CONSTANTS
  Threads = {t1, t2}
  Requests <- MCRequests
  MaxTasks = 3
  MaxRejected = 1
  MaxDepth = 3
  Keys = {k1, k2}
  Services = {inline, s1, s2}
  Inline = inline
  s1 = s1
  s2 = s2
  MaxFreezes = 1
  MaxWork = 3
INVARIANTS
  MetricsAddUp
  TasksRunAtMostOnce
  NoServiceForgotten
PROPERTIES
  ShutdownSettlesEveryTask
  TeardownReversesRegistration
