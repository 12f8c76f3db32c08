SPECIFICATION Spec
CONSTANTS
  MaxEntries = 2
  Inputs <- MCInputs
INVARIANTS
  IndegreeIsExact
  ConsumersFirst
  CycleVerdictIsExact
  StartupOrderIsDependencyFirst
  BaseOrderIsSmallest
  DeclarationVerdictIsExact
  
  RollbackUndoesLoad
  ManifestsAgreeWithGraph
CHECK_DEADLOCK FALSE
