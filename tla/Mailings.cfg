SPECIFICATION MailingsSpec
CONSTANTS
  Casts = {k1, k2}
  Emails = {e1, e2}
  Workers = {w1, w2}
  Limit = 1
  ChunkSize = 1
  MaxActs = 3
  MaxFaults = 1
  Notices = {n1}
  Readers = 3
  Admins = {d1, d2}
  UserChunk = 1
  MaxEdits = 3
  Recipients = {u1, u2}
  Members = {u1}
  AdminUsers = {u1}
  Subscribers = {u2}
  Goers = {u2}
  Author = u2
  Buyer = u2
  Tokens = {k1}
  Handlers = {d1, d2}
  Options <- MCOptions
  MaxFanouts = 2
  MaxPosts = 4
CHECK_DEADLOCK FALSE
INVARIANTS MailingsTypeOK BroadcastsExplained AudienceReached ToldOnce
PROPERTIES BroadcastSettles
