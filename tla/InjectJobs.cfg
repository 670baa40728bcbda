SPECIFICATION FairSpec
CONSTANTS
  Made = 2
  Keep = 1
  Workers = {w1, w2, w3}
  Dry = {w3}
  Steady = {w1}
  Attempts = 2
  Reports = 1
INVARIANTS TypeOK StartsFromPack
PROPERTIES LedgerSpec JobEnds
CHECK_DEADLOCK FALSE
