SPECIFICATION FairSpec
CONSTANTS
  Names = {"ui", "db", "job"}
  Specs <- MCSpecs
  SupervisorAnswers = {TRUE}
  ReportedStates = {"Spawned"}
  RestartWhenStopped = FALSE
  MaxPid = 3
  MaxHeartbeats = 1
INVARIANTS ChildrenAreTracked  RestartBudgetRespected NoChannelLeaks
PROPERTY SilentChildIsRestarted
