SPECIFICATION Spec
CONSTANTS
  Firmwares = {1}
  WithInfo = {}
  SizeOf <- MCSizeOf
  Channels = {"c1"}
  StaOptions = {"home"}
  GoodUris = {"broker"}
  BadUris = {}
INVARIANT
  UnconfiguredStartsAp
