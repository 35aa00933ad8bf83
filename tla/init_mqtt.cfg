SPECIFICATION Spec
CONSTANTS
  QueueSize = 2
  MaxRetry = 0
  Requests = {"INIT_MQTT"}
  MaxClients = 1
  SysQueueSize = 1
INVARIANT
  InitMqttServed
CHECK_DEADLOCK FALSE
