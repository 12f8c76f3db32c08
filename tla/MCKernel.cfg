SPECIFICATION Spec
CONSTANTS
  Configurations <- MCConfigurations
  RecordedOrders <- MCRecordedOrders
  Hooks <- MCHooks
  Keys = {"Diagnostics", "Configuration", "Timing", "App"}
  ClientKeys = {"App"}
  ReentrantStop = {"stop"}
  MaxFreezes = 2
  MaxDeferred = 2
INVARIANTS
  TypeOK
  NoModuleForgotten
  ModulesRunOnFrozenServices
  StoppedIsClean
PROPERTIES
  RunningIsReady
  StartSucceedsUnlessClientFails
