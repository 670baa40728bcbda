SPECIFICATION Spec
CONSTANTS
  Items = {i1}
  Keys = {k1, k2}
  ItemOf <- MCOneItem
  Orders = {o1, o2}
  Prices = {1}
  Off = 0
  Limits = {1}
  Codes = {TRUE}
  MaxQty = 2
  PerOrder <- MCPerOrder
  MaxStock = 2
  MaxUnits = 2
  Low = 1
  Losses = {"crash", "export"}
  i1 = i1
  i2 = i2
  k1 = k1
  k2 = k2
SYMMETRY MCSymmetry
INVARIANTS TypeOK UsesBacked StorefrontFollows
PROPERTIES StockFollowsOrders UsesFollowOrders
