SPECIFICATION Spec
CONSTANTS
  Users = {u1, u2, u3}
  Online = {u1, u2, u3}
  NoUser = NoUser
  MaxCalls = 2
SYMMETRY UserSymmetry
INVARIANTS
  OneDialPerCall
  VideoNeedsConsent
  CallsAreConserved
CHECK_DEADLOCK FALSE
