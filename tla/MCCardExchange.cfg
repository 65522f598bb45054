SPECIFICATION ExSpec
CONSTANTS
  NoValue = ""
  Versions <- MCVersions
  Uids = {"u1"}
  CardKinds = {"org"}
  Values = {"x"}
  GroupedNames = {"UID"}
  MaxLines = 5
  MaxFaults = 1
  Kinds = {"calendar", "card"}
  Items = {"i1", "i2", "i3"}
  CardOf <- FilledIn
  ProdIDs = {"p1"}
  DefaultProdID = "default"
  BufferLines = 4
  MaxCalls = 6
INVARIANTS WireIsADocumentPrefix AcknowledgedIsOnWire CardsAgreeWithBatch IntactCardsSurvive ReaderGetsWhatWasWritten
PROPERTIES RetriesReachEOF
CHECK_DEADLOCK FALSE
