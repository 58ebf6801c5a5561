CONSTANTS
  Users = {u1, u2}
  Requests = {r1, r2, r3}
  Passwords = {p1}
  Providers = {"email", "google", "facebook"}
  None = None
  MaxAtOnce = 2
SPECIFICATION Spec
SYMMETRY Symmetry
CONSTRAINT OneHistory
INVARIANTS
  TypeOK
  SerialCookiesWork
  OAuthUserIsComplete
  SerialCodeOpensOnce
  SerialNewestCodeCounts
CHECK_DEADLOCK FALSE
