SPECIFICATION Spec
CONSTANTS
  Firmwares = {1, 2}
  WithInfo = {2}
  SizeOf <- MCSizeOf
  Channels = {"c1", "c6"}
  StaOptions = {"home"}
  GoodUris = {"broker"}
  BadUris = {"garbled"}
INVARIANTS
  TypeOK
  SavedInOrder
  RestartKeepsConfig
  RamFits
