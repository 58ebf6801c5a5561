CONSTANTS
  Calls = {c1, c2}
  a1 = a1
  a2 = a2
  a3 = a3
  u1 = u1
  u2 = u2
  Agents = {a1, a2, a3}
  Users = {u1, u2}
  Owner <- MCOwner
  FileLen = 3
  NumProducts = 2
  ChunkSize = 2
  RETRY = 3
  ScrollLimit = 2
  Gone = Gone
  Many = Many
  TopK = 3
  MaxEdits = 1
  Budgets <- MCBudgets
SPECIFICATION AnswersSpec
SYMMETRY Symmetry
INVARIANTS
  AnswersTypeOK
  StoredAsAnswered
  ClearedIsGone
  StoredIsFound
  ShownWasTrue
  AllMeansAll
CHECK_DEADLOCK FALSE
