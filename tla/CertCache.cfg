SPECIFICATION FairSpec
CONSTANTS
  Callers = {c1, c2, c3}
  Scopes = {shop, pay}
  Unnamed = Unnamed
  Nothing = Nothing
  Life = 2
  MaxTime = 4
INVARIANTS
  SharedFreshOrGone
PROPERTIES
  KeptForItsLife
  EveryCallReturns
CHECK_DEADLOCK FALSE
