\* One payout sent at once, one that is reviewed, two sessions and the sweep.
SPECIFICATION PayoutsSpec
CONSTANTS
  p1 = p1
  p2 = p2
  s1 = s1
  s2 = s2
  sweep = sweep
  Payouts <- MCPayoutsSet
  Amount <- MCAmount
  Staff <- MCStaff
  Cron = sweep
  AutoMax = 1
  ReviewFirst = FALSE
  MaxRefs = 2
  MaxCredits = 2
  MaxUpsets = 2
SYMMETRY Sessions
INVARIANTS
  BalanceExplained
  PaidIsBacked
  NullRefUnsent
  OneReference
  ReviewDecides
CHECK_DEADLOCK FALSE
