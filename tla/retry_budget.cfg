SPECIFICATION Spec
CONSTANTS
  QueueSize = 2
  MaxRetry = 1
  Requests = {"INIT_STA"}
  MaxClients = 0
  SysQueueSize = 1
PROPERTY
  FailedAttemptsEarned
CHECK_DEADLOCK FALSE
