CONSTANTS
  NItems <- MCNItems
  MaxGen <- MCMaxGen
  MaxFailures <- MCMaxFailures
  OnConfigMapChange = TRUE
  RequireSecretsDivergence = TRUE
  BootstrapPrevious = TRUE
  RetriggerRollout = TRUE
  None = None
SPECIFICATION Spec
INVARIANTS
  TypeOK
  CursorSound
  RetryBound
PROPERTIES
  CleanupAfterFullRollout
