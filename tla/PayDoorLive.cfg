SPECIFICATION FairSpec
CONSTANTS
  MaxRows = 2
  MaxSessions = 2
  VerifyMax = 1
  HookMax = 1
  PageCalls = 1
  Gap = 1
  MaxPolls = 0
  Elapsed = {1}
  Tabs = {b1}
  Terminals = {m1}
  None = None
PROPERTIES  ReloadsReachAll
