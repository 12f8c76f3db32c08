SPECIFICATION Spec
CONSTANTS
  Configurations <- MCConfigurations
  RecordedOrders = {}
  Hooks <- MCHooks
  Keys = {"Diagnostics", "Configuration", "Timing", "App"}
  ClientKeys = {"App"}
  ReentrantStop = {}
  MaxFreezes = 2
  MaxDeferred = 0
PROPERTY
  RestartFromFaultedRecovers
