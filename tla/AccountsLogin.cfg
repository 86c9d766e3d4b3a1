SPECIFICATION Spec
CONSTANTS
  e1 = e1
  e2 = e2
  Emails = {e1, e2}
  ContactIDs = {u1, u2}
  Passwords = {p1, p2}
  Conns = {c1}
  NoUser = NoUser
  NoEmail = NoEmail
  NoPassword = NoPassword
  EmailPrefixes <- PrefixPair
  MAX_DEVSIZE = 2
  MAX_ALLOW_LOGIN_ATTEMPT = 1
  CharHalf = 4
  Uninitialised = {0, 2}
  MaxTimers = 2
  MaxTokens = 0
  MaxMonths = 0
  MaxIncidents = 0
SYMMETRY Symmetric
INVARIANTS RestrictionIsWatched
CHECK_DEADLOCK FALSE
