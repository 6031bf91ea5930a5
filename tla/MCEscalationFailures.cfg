SPECIFICATION FailureSpec
CONSTANTS
    Workers = {w1}
    Apps = {"a", "b"}
    RuleIds = {r1}
    RuleDefs <- UserDefs
    Priorities = {0, 1}
    Users = {u1}
    Mortal = {"b"}
    MaxDepth = 2
    FailingCalls = {"source", "ack", "rule", "resolve", "store", "recipients", "queue", "save", "crash"}
    MaxFailures = 1
    MaxPublished = 1
    MaxMessages = 5
    MaxRuleSaves = 2
    MaxAcks = 1
    MaxDeletes = 1
    MaxClock = 3
CHECK_DEADLOCK FALSE
INVARIANTS EscalatedUnlessExcused
PROPERTIES StateSettles
