CONSTANTS
  NItems <- MCNItems1
  MaxGen <- MCMaxGen
  MaxFailures <- MCMaxFailures
  OnConfigMapChange = FALSE
  RequireSecretsDivergence = TRUE
  BootstrapPrevious = TRUE
  RetriggerRollout = FALSE
  None = None
SPECIFICATION Spec
PROPERTIES
  CleanupAfterFullRollout
