SPECIFICATION FairSpec
CONSTANTS
  c1 = c1
  c2 = c2
  u1 = u1
  t1 = t1
  t2 = t2
  Conns <- OneConn
  Users <- OneUser
  Tokens <- OneToken
  UserOf <- MCUserOf
  TokenOf <- MCTokenOf
  KindOf <- MCMessageClients
  Notifiers = {n1}
  Closers = {k1}
  EventCap = 1
  MaxNotifies = 2
  MaxDeletions = 1
CHECK_DEADLOCK FALSE
PROPERTIES NothingHangs
