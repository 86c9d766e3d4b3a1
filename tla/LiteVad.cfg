CONSTANTS
  BosActive = 30
  BosWeight = 30
  EosSilence = 70
  EosWeight = 30
  MaxWeight = 100
SPECIFICATION Spec
INVARIANTS DecidedInTime TextFollowsSpeech
PROPERTIES SegmentLasts
CHECK_DEADLOCK FALSE
