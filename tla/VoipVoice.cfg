SPECIFICATION FairSpec
CONSTANTS
  Callers = {gui, server}
  NoOne = NoOne
  size_ = 3
  Prefill = 2
  MaxFrames = 5
  MaxSessions = 2
INVARIANTS
  PopsAreCovered
  NoThreadOutlivesSession
PROPERTIES
  SharedQueueIsFifo
  ReleasedByItsOwner
  LockIsGivenBack
CHECK_DEADLOCK FALSE
