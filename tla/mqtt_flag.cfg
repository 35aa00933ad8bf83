SPECIFICATION Spec
CONSTANTS
  QueueSize = 2
  MaxRetry = 0
  Requests = {"INIT_STA"}
  MaxClients = 1
  SysQueueSize = 1
INVARIANT
  ConnectedFlagTruthful
CHECK_DEADLOCK FALSE
