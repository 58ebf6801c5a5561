CONSTANTS
  o1 = o1
  o2 = o2
  x1 = x1
  x2 = x2
  x3 = x3
  Products = {p1, p2, p3}
  Users = {u1}
  Pictures = {f1, f2, url}
  Links = {url}
  Options = {o1, o2}
  Values = {x1, x2, x3}
  OptionOf <- MCOptionOf
  Variants = {v1, v2, v3, v4}
  Calls = {c1, c2}
  None = None
  Limit = 1
  Budgets <- MCBudgets
SPECIFICATION Spec
SYMMETRY Symmetry
INVARIANTS
  TidyOwnerHasPicture
  VariantIsAChoice
  EveryCombinationAsOften
  WalkMissesNothing
CHECK_DEADLOCK FALSE
