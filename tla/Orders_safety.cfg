\* Two orders of two buyers compete for two seats.
SPECIFICATION Spec
CONSTANTS
  ga = ga
  free = free
  NoUser = NoUser
  Orders = {o1, o2}
  Types = {ga, free}
  Users = {u1, u2}
  Lines = {1, 2}
  MaxQty = 2
  Horizon = 3
  HoldTtl = 1
  EventEnds = 2
  PresaleUntil = 1
  Rsvped = {u1}
  MaxCrashes = 1
  Carts <- MCCarts
  Price <- MCPrice
  Quantity <- MCQuantity
  MaxPerOrder <- MCMaxPerOrder
  MaxPerUser <- MCOneFree
  SalesStart <- MCSalesStart
  SalesEnd <- MCSalesEnd
  ValidFrom <- MCValidFrom
  ValidTo <- MCValidTo
SYMMETRY OrderSymmetry
INVARIANTS
  StockExplained
  FulfilledOnce
PROPERTIES
  ImplementsLifecycle
CHECK_DEADLOCK FALSE
