SPECIFICATION FairSpec
CONSTANTS
  Users = {u1, u2, u3}
  Online = {u1, u2}
  NoUser = NoUser
  MaxCalls = 2
PROPERTIES
  CallIsShown
  AcceptanceArrives
  CalleeIsTransient
CHECK_DEADLOCK FALSE
