SPECIFICATION Spec
CONSTANTS
  Calls <- MCCalls
  SettingsOf <- MCSettingsOf
  ServersOf <- MCServersOf
  MaxChanges = 1
INVARIANTS
  StatusIsAnAnswer
CHECK_DEADLOCK FALSE
