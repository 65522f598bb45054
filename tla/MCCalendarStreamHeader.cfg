SPECIFICATION Spec
CONSTANTS
  BlockTypes = {"VTODO", "VALARM"}
  Versions <- MCVersions
  ProdIDs = {"p1"}
  NoProdID = "none"
  Values = {x}
  CallerRetries = FALSE
  CallerAsksHeader = TRUE
  MaxLines = 6
PROPERTIES HeaderErrorSurfaces
CHECK_DEADLOCK FALSE
