SPECIFICATION Spec
CONSTANTS
  Name <- MCName
  NoName <- MCNoName
  NoBuffer = NoBuffer
  Run = {r1, r2}
  Buffer = {b1, b2, b3}
  MaxSpare = 2
  Sessions <- MCSessions
INVARIANTS
  TypeOK
  DeviceMemoryAccounted
  NoDeadDeviceValue
PROPERTIES
  AnswersDenotation
  EveryRunEnds
CHECK_DEADLOCK FALSE
