CONSTANTS
  NItems <- MCNItems1
  MaxGen <- MCMaxGen
  MaxFailures <- MCMaxFailures
  OnConfigMapChange = TRUE
  RequireSecretsDivergence = TRUE
  BootstrapPrevious = TRUE
  RetriggerRollout = TRUE
  None = None
SPECIFICATION FairSpec
PROPERTIES
  ReconcileEnds
