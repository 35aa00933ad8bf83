SPECIFICATION Spec
CONSTANTS
  QueueSize = 2
  MaxRetry = 0
  Requests = {}
  MaxClients = 0
  SysQueueSize = 1
INVARIANT
  FailureAnnounced
CHECK_DEADLOCK FALSE
