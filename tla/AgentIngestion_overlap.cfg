CONSTANTS
  Agents = {a1, a2}
  Files = {f1, f2}
  Lists = {l1}
  Tasks = {t1, t2}
  None = None
  Attempts = 1
  Workers = 2
  MaxRequests = 3
SPECIFICATION Spec
SYMMETRY Symmetry
INVARIANTS
  DocumentIsKept
PROPERTIES
  OrderlyAgentsAreKnowledge
CHECK_DEADLOCK FALSE
