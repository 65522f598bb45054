SPECIFICATION ScanSpec
CONSTANTS
  s1 = s1
  s2 = s2
  u1 = u1
  u2 = u2
  TargetUIDs <- MCTargets
  Statuses <- MCStatuses
  Bodies = {b1}
  NoValue = NoValue
  Empty = Empty
  Trimmed <- MCTrimmed
  TicksPerSecond = 1
  LastSecond = 8
  Entries <- MCEntries
  MaxScanned = 3
INVARIANTS BestIsLatestSeen
PROPERTIES ImplementsProjection
