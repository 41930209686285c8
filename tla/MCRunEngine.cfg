SPECIFICATION Spec
CONSTANTS
  Name <- MCName
  NoName <- MCNoName
  NoBuffer = NoBuffer
  Run = {r1, r2}
  Sessions <- MCSessions
INVARIANTS
  TypeOK
  RefCountsExact
  HeldWhileNeeded
  BuffersUnshared
PROPERTIES
  AnswersDenotation
  EveryRunEnds
CHECK_DEADLOCK FALSE
