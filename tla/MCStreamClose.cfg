SPECIFICATION Spec
CONSTANTS
  c1 = c1
  c2 = c2
  u1 = u1
  t1 = t1
  t2 = t2
  Conns <- OneConn
  Users <- OneUser
  Tokens <- OneToken
  UserOf <- MCUserOf
  TokenOf <- MCTokenOf
  KindOf <- MCMessageClients
  Notifiers = {}
  Closers = {k1}
  EventCap = 1
  MaxNotifies = 0
  MaxDeletions = 1
CHECK_DEADLOCK FALSE
INVARIANTS CloseStopsConnections
