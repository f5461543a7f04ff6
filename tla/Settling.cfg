\* Two single-seat orders, paid or free, and one payment with every outcome, stale
\* answers, replays and a crash: under fairness of clock, cron, provider and process.
SPECIFICATION SettlingSpec
CONSTANTS
  ga = ga
  free = free
  NoUser = NoUser
  Orders = {o1, o2}
  Types = {ga, free}
  Users = {u1}
  Lines = {1, 2}
  MaxQty = 2
  Horizon = 3
  HoldTtl = 1
  EventEnds = 4
  PresaleUntil = 1
  Rsvped = {u1}
  MaxCrashes = 1
  Carts <- MCFreeCarts
  Price <- MCPrice
  Quantity <- MCQuantity
  MaxPerOrder <- MCMaxPerOrder
  MaxPerUser <- MCMaxPerUser
  SalesStart <- MCSalesStart
  SalesEnd <- MCSalesEnd
  ValidFrom <- MCNever
  ValidTo <- MCValidTo
  Payments = {p1}
  MaxStops = 1
  LateCharge = TRUE
INVARIANTS
  SuccessIsCovered
  EmittedOnce
PROPERTIES
  ChargeSettles
  PendingSettles
CHECK_DEADLOCK FALSE
