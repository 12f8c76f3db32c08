SPECIFICATION Spec
CONSTANTS
  Configurations <- MCConfigurations
  RecordedOrders = {}
  Hooks <- MCHooks
  Keys = {"Diagnostics", "Configuration", "Timing", "App"}
  ClientKeys = {"App"}
  ReentrantStop = {"start"}
  MaxFreezes = 1
  MaxDeferred = 0
INVARIANT
  StoppedIsClean
