CONSTANTS
  Agents = {a1}
  Files = {f1, f2}
  Lists = {l1, l2}
  Tasks = {t1}
  None = None
  Attempts = 3
  Workers = 2
  MaxRequests = 4
SPECIFICATION FairSpec
INVARIANTS
  ReadyIsComplete
PROPERTIES
  OrderlyAgentsAreKnowledge
  OrderlyChangesEnd
CHECK_DEADLOCK FALSE
