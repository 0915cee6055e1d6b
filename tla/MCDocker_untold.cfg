SPECIFICATION Spec
CONSTANTS
  Calls = {k1}
  Containers = {c1, c2}
  Names = {web, old}
  None = None
INVARIANT RemovalIsAlwaysTold
CHECK_DEADLOCK FALSE
