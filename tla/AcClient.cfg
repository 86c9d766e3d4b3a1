CONSTANTS
  MaxStarts = 2
  MaxReads = 3
  MaxLogins = 2
SPECIFICATION Spec
INVARIANTS StatusNeedsClient AtMostOneLateAnswer JoinCanProceed
PROPERTIES JoinEnds
CHECK_DEADLOCK FALSE
