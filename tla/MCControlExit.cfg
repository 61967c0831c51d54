CONSTANTS
  N = 1
  Core = {1}
  YamlFile <- OwnCores
  QueueSize = 2
  MaxCount <- OneEach
SPECIFICATION FairSpec
PROPERTIES CtrlCExits
CHECK_DEADLOCK FALSE
