SPECIFICATION FairSpec
CONSTANTS
  Scopes = {shop, pay, web}
  Whole = Whole
  Kinds = {"pods"}
  Width = 2
  MaxCalls = 4
INVARIANTS
  DeadClusterAskedOnce
  ToldTheTruth
  PageIsItsReads
PROPERTIES
  Answered
CHECK_DEADLOCK FALSE
