CONSTANTS
  Bots = {b1}
  Socks = {s1, s2}
  None = None
  MaxLogouts = 2
  MaxWrites = 1
  MaxTimers = 1
  MaxCalls = 2
  MaxReplies = 0
  MaxSaves = 1
  Observed = {b1}
SPECIFICATION Spec
SYMMETRY Symmetry
PROPERTIES
  SerialBotsAreRegistry
INVARIANTS
  RegisteredIsOwn
  NoDeafConnection
  SerialBotHasOneConnection
  ConnectedBotSurvivesCrash
CHECK_DEADLOCK FALSE
