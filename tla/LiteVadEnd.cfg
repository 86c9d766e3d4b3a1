CONSTANTS
  BosActive = 30
  BosWeight = 30
  EosSilence = 70
  EosWeight = 30
  MaxWeight = 100
SPECIFICATION Spec
PROPERTIES EndsAsDocumented
CHECK_DEADLOCK FALSE
