CONSTANTS
  Objs <- MCObjs
  AnnoValues <- MCAnnoValues
  Selectors <- MCSelectors
  ListsSorted = TRUE
  MaxRV <- MCMaxRV
  MaxChanges <- MCMaxChanges
  None = None
SPECIFICATION Spec
INVARIANTS
  TypeOK
PROPERTIES
  PlanFaithful
