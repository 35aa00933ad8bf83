SPECIFICATION Spec
CONSTANTS
  QueueSize = 1
  Length <- MCLength
  Atoi <- MCAtoi
  Values <- MCValues
INVARIANTS
  TypeOK
  PrefixApplied
  ErrorsClose
  InfoShown
  FieldsTerminated
PROPERTY
  ImplementsHttpServer
