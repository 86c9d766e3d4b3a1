SPECIFICATION Spec
CONSTANTS
  Conns = {c1, c2, c3}
  NoEvent = NoEvent
  EventSlots = 6
  SslSlots = 10
  MaxSends = 1
SYMMETRY ConnSymmetry
INVARIANTS
  EveryOpenSocketWaitedOn
CHECK_DEADLOCK FALSE
