CONSTANTS
  Objs <- MCObjs
  AnnoValues <- MCAnnoValues
  Selectors <- MCSelectors
  ListsSorted = FALSE
  MaxRV <- MCMaxRV
  MaxChanges <- MCMaxChanges
  None = None
SPECIFICATION Spec
PROPERTIES
  HashStable
