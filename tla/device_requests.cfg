SPECIFICATION Spec
CONSTANTS
  QueueSize = 2
  MaxRetry = 0
  Requests = {"INIT_MQTT", "INIT_STA", "RESTART", "SET_OPTIONS"}
  MaxClients = 1
  SysQueueSize = 2
INVARIANTS
  IdleTaskOwned
  HandlerTargetsLive
  CountExact
  AccessPointServes
  RestartAnswered
  ConfigReadAlone
CHECK_DEADLOCK FALSE
