SPECIFICATION Spec
CONSTANTS
  u1 = u1
  s1 = s1
  blank = blank
  padded = padded
  TargetUIDs <- MCTargets
  Statuses <- MCStatuses
  b1 = b1
  b2 = b2
  Bodies <- MCBodies
  NoValue = NoValue
  Empty = Empty
  Trimmed <- MCTrimmed
  TicksPerSecond = 2
  LastSecond = 8
  Writers = {w1}
  Instants <- MCInstants
  ForeignEntries <- MCForeign
  MaxLedger = 2
INVARIANTS OrderDecidesOnlyTies SameUIDTies CleanOnceResolvable
PROPERTIES TamperedNeverSuperseded LaterDecisionPrevails VerdictsNeverWorsen
SYMMETRY BodySymmetry
CHECK_DEADLOCK FALSE
