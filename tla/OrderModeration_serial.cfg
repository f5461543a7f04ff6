\* One desk session at a time beside checkout, gate, cron jobs and a crash.
SPECIFICATION DeskSpec
CONSTANTS
  ga = ga
  NoUser = NoUser
  Orders = {o1, o2}
  Types = {ga}
  Users = {u1}
  Staff = {w1}
  Lines = {1}
  MaxQty = 1
  Horizon = 2
  HoldTtl = 1
  EventEnds = 2
  PresaleUntil = 0
  Rsvped = {}
  MaxCrashes = 1
  Carts <- MCOneSeatCart
  Price <- MCPrice
  Quantity <- MCOneSeat
  MaxPerOrder <- MCUnlimited
  MaxPerUser <- MCUnlimited
  SalesStart <- MCZero
  SalesEnd <- MCOne
  ValidFrom <- MCOne
  ValidTo <- MCUnlimited
SYMMETRY DeskSymmetry
INVARIANTS
  BooksExact
CHECK_DEADLOCK FALSE
