CONSTANTS
  NItems <- MCNItems
  MaxGen <- MCMaxGen
  MaxFailures <- MCMaxFailures
  OnConfigMapChange = TRUE
  RequireSecretsDivergence = TRUE
  BootstrapPrevious = TRUE
  RetriggerRollout = TRUE
  None = None
SPECIFICATION Spec
PROPERTIES
  AnchorRefinement
