\* Two requests, two addresses, two codes, one token, one challenge or suspension.
SPECIFICATION AccountsSpec
CONSTANTS
  d1 = d1
  d2 = d2
  u1 = u1
  u2 = u2
  e1 = e1
  e2 = e2
  Registered <- MCRegistered
  Emails = {e1, e2}
  Users <- MCUsers
  Challenges = {c1}
  Requests <- Slots
  MaxAttempts = 1
  MaxCodes = 2
  MaxSessions = 1
  MaxRulings = 1
SYMMETRY Alike
CHECK_DEADLOCK FALSE
INVARIANTS VerifiedIsProven SuspendedSessionsExplained GuessesBounded
