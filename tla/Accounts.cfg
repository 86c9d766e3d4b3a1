SPECIFICATION Spec
CONSTANTS
  e1 = e1
  e2 = e2
  Emails = {e1, e2}
  ContactIDs = {u1, u2}
  Passwords = {p1, p2}
  Conns = {c1, c2}
  NoUser = NoUser
  NoEmail = NoEmail
  NoPassword = NoPassword
  EmailPrefixes <- PrefixPair
  MAX_DEVSIZE = 2
  MAX_ALLOW_LOGIN_ATTEMPT = 0
  CharHalf = 1
  Uninitialised = {0}
  MaxTimers = 0
  MaxTokens = 2
  MaxMonths = 1
  MaxIncidents = 2
SYMMETRY Symmetric
INVARIANTS AccountsDistinct FileKeepsPromises OwnersAdmitted TokensOnceInOrder
CHECK_DEADLOCK FALSE
