CONSTANTS
  Bots = {b1, b2}
  Telegram = {b1}
  Contents = {c1}
  Clients = {t1, t2}
  None = None
  MaxCalls = 1
  MaxMarks = 2
  MaxStops = 1
  MaxWrites = 1
SPECIFICATION Spec
SYMMETRY Symmetry
PROPERTIES
  SerialBotsAreRegistry
INVARIANTS
  RegisteredBotHears
  SerialBotHasOneClient
  SerialStatusIsTrue
  TidyContentIsMarked
CHECK_DEADLOCK FALSE
