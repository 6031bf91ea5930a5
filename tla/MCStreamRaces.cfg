SPECIFICATION Spec
CONSTANTS
  c1 = c1
  c2 = c2
  u1 = u1
  t1 = t1
  t2 = t2
  Conns <- TwoConns
  Users <- OneUser
  Tokens <- TwoTokens
  UserOf <- MCUserOf
  TokenOf <- MCTokenOf
  KindOf <- MCMixedClients
  Notifiers = {n1}
  Closers = {k1}
  EventCap = 1
  MaxNotifies = 2
  MaxDeletions = 1
CHECK_DEADLOCK FALSE
INVARIANTS ClosedOnce NoSilentLoss NoZombieClient
