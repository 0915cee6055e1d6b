SPECIFICATION FairSpec
CONSTANTS
  a = a
  b = b
  bCased = bCased
  dots = dots
  NoItem = NoItem
  Paths = {a, b, dots}
  PathOf <- OnePathPerCase
  Workers = {w1, w2}
  Items = {a, b, bCased, dots}
  Unsafe = {dots}
  Markers = {}
  Limit = 2
  Runs = {r1, r2}
INVARIANTS
  OneRunPerDirectory
  FailedRunLeavesNothing
  SuccessIsWhole
  CauseNotConsequence
PROPERTIES
  StopsOnceTold
CHECK_DEADLOCK FALSE
