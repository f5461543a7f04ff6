\* One reviewed payout, one session and the sweep, under fairness.
SPECIFICATION FairPayoutsSpec
CONSTANTS
  p1 = p1
  p2 = p2
  s1 = s1
  s2 = s2
  sweep = sweep
  Payouts <- MCOnePayout
  Amount <- MCOneAmount
  Staff <- MCOneStaff
  Cron = sweep
  AutoMax = 1
  ReviewFirst = TRUE
  MaxRefs = 1
  MaxCredits = 1
  MaxUpsets = 2
PROPERTIES
  RecoversStranded
CHECK_DEADLOCK FALSE
