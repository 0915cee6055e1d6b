SPECIFICATION Spec
CONSTANTS
  Servers <- MCServers
  MaxMoves <- MCMaxMoves
  MaxFails = 1
  NamesAsked = {"x", "y"}
  Reading = Reading
  Failed = Failed
  Members = {"e", "m", "n"}
  Peers = {"p", "q"}
  Zones = {"x", "y"}
  UsageWarn = 800
  Endpoint = "e"
  NoLeader = NoLeader
  NoAnswer = NoAnswer
  catchUpEntries = 3
  Peer = "self"
  overviewCollections = 2
  auditUsers = 3
  Bucket = "b"
  maxBuckets = 4
  bucketsAtOnce = 2
  rowsInATile = 3
  behindWarn = 1
  behindFail = 4
  lagWarn = 1
  lagFail = 4
  connectionsWarn = 80
  connectionsFail = 95
  applierLagWarn = 1
  applierLagFail = 5
  groupQueueWarn = 1
  galeraQueueWarn = 1
  flowControlWarn = 1
  flowControlFail = 5
  Namespaces = {"x", "y"}
  certWarnDays = 7
  BackupNames = {"b1", "b2"}
  restartStorm = 10
  kubeWarnDays = 14
INVARIANTS
  LastingIsTold
  NoFalseAlarm
  UnreadIsSaid
  TokenIsSpared
CHECK_DEADLOCK FALSE
