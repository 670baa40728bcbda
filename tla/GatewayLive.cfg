SPECIFICATION FairSpec
CONSTANTS
  Orders = {o1}
  Total <- MCTotal
  Sums = {2}
  Txns = {t1}
  MaxRows = 2
  HookMax = 1
  Refunds = {f1}
  BodyLoss = FALSE
  NoOrder = NoOrder
  NoTxn = NoTxn
PROPERTIES LedgerSpec DecisionReachesOwner ChargeReachesBooks
