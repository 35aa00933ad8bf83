SPECIFICATION FairSpec
CONSTANTS
  QueueSize = 1
  ListSize = 2
  MaxUnlisted = 1
  NumChannels = 2
  Devices = {1, 2, 3, 4}
  Ds18b20s = {1, 3, 4}
  MaxSensors = 2
  MaxMissed = 2
  Files = {v1}
  Firmwares = {v1}
  Size = 1
  Others = {"IDLE", "INIT_MQTT"}
INVARIANTS
  TypeOK
  LeastBusy
  SensorTable
  SensorsReadable
  PromisedImageBoots
  UpdateUnderWay
  RunningIntact
PROPERTIES
  UploadImplementsHttpServer
  SearchEnds
  EverySensorPublishes
  UpdateTakesEffect
  StopHeldOnlyByUploads
