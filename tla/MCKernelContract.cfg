SPECIFICATION FairSpec
CONSTANTS
  Configurations <- MCConfigurations
  RecordedOrders = {}
  Hooks <- MCHooks
  Keys = {"Diagnostics", "Configuration", "Timing", "App"}
  ClientKeys = {"App"}
  ReentrantStop = {"stop"}
  MaxFreezes = 2
  MaxDeferred = 1
PROPERTIES ImplementsContract CallsReturn
