\* Two desk sessions race over the two seats of one order.
SPECIFICATION DeskSpec
CONSTANTS
  ga = ga
  NoUser = NoUser
  Orders = {o1}
  Types = {ga}
  Users = {u1}
  Staff = {w1, w2}
  Lines = {1}
  MaxQty = 2
  Horizon = 2
  HoldTtl = 1
  EventEnds = 2
  PresaleUntil = 0
  Rsvped = {}
  MaxCrashes = 1
  Carts <- MCTwoSeatCart
  Price <- MCPrice
  Quantity <- MCQuantity
  MaxPerOrder <- MCUnlimited
  MaxPerUser <- MCUnlimited
  SalesStart <- MCZero
  SalesEnd <- MCOne
  ValidFrom <- MCOne
  ValidTo <- MCUnlimited
SYMMETRY DeskSymmetry
INVARIANTS
  NoValidSeatAfterRefund
PROPERTIES
  DeskFollowsLifecycle
CHECK_DEADLOCK FALSE
