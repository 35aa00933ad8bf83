SPECIFICATION FairSpec
CONSTANTS
  QueueSize = 2
  MaxRetry = 0
  Requests = {"INIT_STA"}
  MaxClients = 0
  SysQueueSize = 1
PROPERTY
  WaitEnds
CHECK_DEADLOCK FALSE
