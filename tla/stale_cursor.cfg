CONSTANTS
  NItems <- MCNItems
  MaxGen <- MCMaxGen3
  MaxFailures <- MCMaxFailures
  OnConfigMapChange = TRUE
  RequireSecretsDivergence = TRUE
  BootstrapPrevious = TRUE
  RetriggerRollout = TRUE
  None = None
SPECIFICATION Spec
PROPERTIES
  ResumeWithinRotation
