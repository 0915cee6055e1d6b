SPECIFICATION FairSpec
CONSTANTS
  Calls <- MCCalls
  SettingsOf <- MCSettingsOf
  ServersOf <- MCServersOf
  MaxChanges = 1
INVARIANTS
  SecretAsAsked
  CauseWasSo
  RefusalIsTold
  AdviceKeepsClear
  AdviceLeadsOn
  ToolConnectsToo
  HintReachesTheSame
PROPERTIES
  CallsAreAnswered
CHECK_DEADLOCK FALSE
