SPECIFICATION Spec
CONSTANTS
  old = old
  here = here
  there = there
  f1 = f1
  f2 = f2
  Nothing = Nothing
  NoItem = NoItem
  Calls = {c1, c2}
  Requests <- Asks
  Keys = {old, here, there}
  KeyOf <- KeyOfFile
  There = {old}
  Under = {here, there}
  Runs = {u}
  Workers = {w1}
  Items = {f1, f2}
  Limit = 2
  Attempts = 2
INVARIANTS
  ChangesAreAsTold
  FileIsWholeOrGone
PROPERTIES
  NothingSeenIsReplaced
  RemovedIsMoved
SYMMETRY CallsAlike
CHECK_DEADLOCK FALSE
