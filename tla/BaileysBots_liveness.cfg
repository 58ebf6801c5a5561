CONSTANTS
  Bots = {b1}
  Socks = {s1, s2}
  None = None
  MaxLogouts = 1
  MaxWrites = 1
  MaxTimers = 1
  MaxCalls = 1
  MaxReplies = 1
  MaxSaves = 0
  Observed = {}
SPECIFICATION StartSpec
PROPERTIES
  DropIsRetried
  RestartResumes
CHECK_DEADLOCK FALSE
