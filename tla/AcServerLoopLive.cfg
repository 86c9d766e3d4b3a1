SPECIFICATION FairSpec
CONSTANTS
  Conns = {c1, c2, c3}
  NoEvent = NoEvent
  EventSlots = 5
  SslSlots = 3
  MaxSends = 1
INVARIANT
  StopCanProceed
PROPERTIES
  StopReturns
  ServedBelowShift
CHECK_DEADLOCK FALSE
