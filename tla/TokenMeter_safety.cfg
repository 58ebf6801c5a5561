CONSTANTS
  Users = {u1, u2}
  Subs = {s1, s2}
  Requests = {r1, r2}
  None = None
  Plans = {2}
  Managed = {s1, s2}
  Failing = {r1, r2}
  MaxUsage = 2
  MaxTokens = 2
SPECIFICATION Spec
SYMMETRY Symmetry
INVARIANTS
  OrderlyBalanceIsDue
CHECK_DEADLOCK FALSE
