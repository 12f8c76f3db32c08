CONSTANTS
  Names = {"db"}
  Specs <- MCOneSpec
  SupervisorAnswers = {TRUE, FALSE}
  ReportedStates = {}
  RestartWhenStopped = FALSE
  MaxPid = 3
  MaxHeartbeats = 1
SPECIFICATION Spec
INVARIANT HandshakesAreOfChildren
