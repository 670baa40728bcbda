SPECIFICATION Spec
CONSTANTS
  Orders = {o1}
  Total <- MCTotal
  Sums = {1, 2}
  Txns = {t1, t2}
  MaxRows = 2
  HookMax = 1
  Refunds = {f1, f2}
  BodyLoss = FALSE
  NoOrder = NoOrder
  NoTxn = NoTxn
SYMMETRY MCSymmetry
INVARIANTS TypeOK VerdictMatchesCharge OneTransactionOneRow BooksBracketTruth NeverOverRefunded PaidIsBacked
PROPERTY SettledIsFinal
