SPECIFICATION CommunitySpec
CONSTANTS
  d1 = d1
  d2 = d2
  p1 = p1
  p2 = p2
  x1 = x1
  x2 = x2
  x3 = x3
  Orgs = {o1}
  Staff <- Three
  Offices <- Slots
  MaxMoves = 5
  Attendees <- Two
  Interests = {i1, i2}
  Windows <- Slots
  MaxVisits = 4
  Notes <- Three
  People <- Two
  Threads <- Slots
  DailyCap = 1
  MaxActs = 6
  Seats <- Three
  Patrons <- Two
  Desks <- Slots
  Cap = 2
  MaxMotions = 5
  Banks <- Two
  Clerks <- Slots
  MaxPayouts = 3
  Cooldown = 2
  BackoffBase = 1
  BackoffMax = 2
  Recent = 2
  LastHour = 3
  MaxErrands = 4
  MaxRow = 5
  Chunk = 2
  Kinds = 2
  MaxUpdates = 3
  MaxHit = 3
  MaxScore = 2
  PerPage = 2
  FirstBlocks = 1
  MaxTurns = 1
SYMMETRY Alike
CHECK_DEADLOCK FALSE
INVARIANTS CommunityTypeOK OrganisationsExplained EngagementExplained CommentsExplained   
