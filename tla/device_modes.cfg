SPECIFICATION HistorySpec
CONSTANTS
  QueueSize = 2
  MaxRetry = 1
  Requests = {"INIT_STA", "INIT_MQTT"}
  MaxClients = 1
  SysQueueSize = 1
INVARIANTS
  TypeOK
  OneMode
  ScanAlone
  FailedStationRecovers
  WaitAlwaysFed
  StationPublishes
  SilenceExplained
PROPERTIES
  ImplementsModeSwitch
  AttemptsCounted
CHECK_DEADLOCK FALSE
