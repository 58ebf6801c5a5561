CONSTANTS
  Bots = {b1}
  Socks = {s1, s2}
  None = None
  MaxLogouts = 1
  MaxWrites = 1
  MaxTimers = 1
  MaxCalls = 1
  MaxReplies = 0
  MaxSaves = 1
  Observed = {}
SPECIFICATION FairSpec
PROPERTIES
  DroppedConnectionReturns
CHECK_DEADLOCK FALSE
