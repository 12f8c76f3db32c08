SPECIFICATION Spec
CONSTANTS
  Max32 = 3
  Max64 = 15
  Limits <- MCLimits
  PlatformHosts = {p1}
  WindowHosts = {w1}
  None = None
  Policies <- MCPolicies
  Elapsed = {0, 1, 5, 15}
  CocoaBackendAvailable = TRUE
INVARIANTS
  TimeIsConserved
  
  FailFastNeverSlips
  DegradeIsBounded
  NoHostLeaks
PROPERTY
  CleanupCompletes
