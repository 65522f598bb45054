SPECIFICATION Spec
CONSTANTS
  BlockTypes = {"VTODO", "VALARM"}
  Versions <- MCVersions
  ProdIDs = {"p1", "p2"}
  NoProdID = "none"
  Values = {x}
  CallerRetries = TRUE
  CallerAsksHeader = TRUE
  MaxLines = 7
INVARIANTS StreamIsIncrementalBatch YieldedAreBlocks
PROPERTIES FirstErrorIsBatchError EveryCallReturns
CHECK_DEADLOCK FALSE
