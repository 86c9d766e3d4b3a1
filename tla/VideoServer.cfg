CONSTANTS
  Client = {c1, c2}
  NoClient = NoClient
  MaxCalls = 2
  MaxStarts = 2
  HeaderLen = 2
  Retries = 1
  Capacity = 2
  MaxSize = 2
  MaxImages = 2
SPECIFICATION Spec
INVARIANTS NothingLeftBehind ConnectsAreMatched ThreadsCanProceed
PROPERTIES ImagesArriveWhole CallersWritesEnd StopReturns DevicesFollowCaller LivesAsThread
CHECK_DEADLOCK FALSE
