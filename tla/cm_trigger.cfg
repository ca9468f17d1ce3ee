CONSTANTS
  NItems <- MCNItems1
  MaxGen <- MCMaxGen
  MaxFailures <- MCMaxFailures
  OnConfigMapChange = TRUE
  RequireSecretsDivergence = FALSE
  BootstrapPrevious = TRUE
  RetriggerRollout = TRUE
  None = None
SPECIFICATION Spec
INVARIANTS
  TypeOK
  CursorSound
  RetryBound
PROPERTIES
  CleanupAfterFullRollout
