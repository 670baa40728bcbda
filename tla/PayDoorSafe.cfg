SPECIFICATION Spec
CONSTANTS
  MaxRows = 1
  MaxSessions = 1
  VerifyMax = 2
  HookMax = 3
  PageCalls = 1
  Gap = 2
  MaxPolls = 1
  Elapsed = {0, 1}
  Tabs = {b1, b2}
  Terminals = {m1, m2}
  None = None
INVARIANT TypeOK
PROPERTY CallbackNotLost
