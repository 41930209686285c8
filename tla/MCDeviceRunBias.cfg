SPECIFICATION Spec
CONSTANTS
  Name <- MCName
  NoName <- MCNoName
  NoBuffer = NoBuffer
  Run = {r1}
  Buffer = {b1, b2, b3, b4}
  MaxSpare = 2
  Sessions <- BiasSessions
PROPERTIES
  AnswersDenotation
CHECK_DEADLOCK FALSE
