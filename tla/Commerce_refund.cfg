\* A refund that books money back without asking the provider.
SPECIFICATION CommerceSpec
CONSTANTS
  ga = ga
  NoUser = NoUser
  Orders = {o1}
  Types = {ga}
  Users = {u1}
  Staff = {w1}
  Lines = {1}
  MaxQty = 1
  Horizon = 1
  HoldTtl = 1
  EventEnds = 2
  PresaleUntil = 0
  Rsvped = {}
  MaxCrashes = 1
  LateCharge = FALSE
  Carts <- MCCarts
  Price <- MCPrice
  Quantity <- MCOneSeat
  MaxPerOrder <- MCPlenty
  MaxPerUser <- MCPlenty
  SalesStart <- MCZero
  SalesEnd <- MCZero
  ValidFrom <- MCOneSeat
  ValidTo <- MCPlenty
INVARIANTS
  RefundReturnsMoney
CHECK_DEADLOCK FALSE
