SPECIFICATION Spec
CONSTANTS
  Calls = {k1, k2}
  Containers = {c1, c2}
  Names = {web, old}
  None = None
SYMMETRY Symmetric
INVARIANTS
  StoppedIsJudged
  RemovalIsToldOrRefused
CHECK_DEADLOCK FALSE
