SPECIFICATION Spec
CONSTANTS
  Calls <- MCCalls
  MaxIterations = 4
INVARIANTS PrefixOfSeries ExactlyTheWindow NextIsLeastAfter
  NoneLeftOut CapMeansStarved
