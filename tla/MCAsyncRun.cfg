SPECIFICATION Spec
CONSTANTS
  Call = {c1, c2}
  Style = {"wait", "again", "spin", "drop"}
INVARIANTS
  TypeOK
  NoLostWakeup
PROPERTIES
  AnswerOnce
  EveryWaiterAnswered
  SessionReleased
CHECK_DEADLOCK FALSE
