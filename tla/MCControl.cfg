CONSTANTS
  N = 2
  Core = {1, 2}
  YamlFile <- AnyCores
  QueueSize = 2
  MaxCount <- OneFirst
SPECIFICATION FairSpec
INVARIANTS ControlTypeOK PanicsExplained
PROPERTIES StatsKeepComing ExitCompletes
CHECK_DEADLOCK FALSE
