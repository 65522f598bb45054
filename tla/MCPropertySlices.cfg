SPECIFICATION Spec
CONSTANTS
  g1 = g1
  g2 = g2
  a = a
  b = b
  x = x
  y = y
  Goroutines <- MCGoroutines
  Components <- MCComponents
  Uses <- OwnCopies
  Uids <- MCUids
  MaxCalls = 3
SYMMETRY AlikeUids
INVARIANTS OnlyAdditionsCollide
CHECK_DEADLOCK FALSE
