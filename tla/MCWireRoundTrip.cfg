SPECIFICATION Spec
CONSTANTS
  Pieces = {"p", "q"}
  MaxLines = 5
  MaxFaults = 1
  Limit = 4
  Capital <- MCCapital
  TextNames <- MCTextNames
  Drafts <- MCDrafts
  Written <- MCWritten
INVARIANTS ReturnedPlusPending WhatIsWrittenIsRead
PROPERTIES ReachesEOF
CHECK_DEADLOCK FALSE
