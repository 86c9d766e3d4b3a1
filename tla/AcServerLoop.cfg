SPECIFICATION Spec
CONSTANTS
  Conns = {c1, c2, c3, c4}
  NoEvent = NoEvent
  EventSlots = 5
  SslSlots = 4
  MaxSends = 1
SYMMETRY ConnSymmetry
INVARIANTS
  DispatchInRange
  WaitedOnce
  AgreeBelowShift
  TableIsOpenSockets
PROPERTIES
  ClosedOnlyByItsClient
CHECK_DEADLOCK FALSE
