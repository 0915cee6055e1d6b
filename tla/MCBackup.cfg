SPECIFICATION MCSpec
CONSTANTS
  Dumps = {d1, d2}
  FirstDump = d1
  SecondDump = d2
  FirstRestore = r1
  SecondRestore = r2
  Restores = {r1, r2}
  Rows = {x}
  Absent = Absent
  Foreign = Foreign
INVARIANTS
  DumpWholeOrGone
  CopyAccountedFor
  RestoredIsWhole
  PgAllOrNothing
PROPERTIES
  KeepsPromise
  InterruptedDumpCleansUp
  NothingSeenIsLost
CHECK_DEADLOCK FALSE
