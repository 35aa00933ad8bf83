SPECIFICATION FairSpec
CONSTANTS
  QueueSize = 2
  MaxRetry = 1
  Requests = {"OTA_UPDATE"}
  MaxClients = 0
  SysQueueSize = 1
PROPERTIES
  BootEnds
  WaitHeldOnlyByFullQueue
  StopsHeldOnlyByQueueOrUpload
CHECK_DEADLOCK FALSE
