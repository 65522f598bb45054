SPECIFICATION ExSpec
CONSTANTS
  NoValue = ""
  Versions <- MCVersions
  Uids = {"u1"}
  CardKinds = {"org"}
  Values = {"x"}
  GroupedNames = {}
  MaxLines = 0
  MaxFaults = 0
  Kinds = {"card"}
  Items = {"i1"}
  CardOf <- Made
  ProdIDs = {"p1"}
  DefaultProdID = "default"
  BufferLines = 4
  MaxCalls = 4
INVARIANTS ReaderGetsWhatWasWritten
CHECK_DEADLOCK FALSE
