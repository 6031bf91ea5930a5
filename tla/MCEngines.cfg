SPECIFICATION EngineSpec
CONSTANTS
    Workers = {e1, e2}
    Apps = {"a", "b"}
    RuleIds = {r1, r2}
    RuleDefs <- RepeatAndChainDefs
    Priorities = {1}
    Users = {u1}
    Mortal = {}
    MaxDepth = 2
    FailingCalls = {"crash", "parent"}
    MaxFailures = 1
    MaxPublished = 1
    MaxMessages = 4
    MaxRuleSaves = 2
    MaxAcks = 1
    MaxDeletes = 1
    MaxClock = 3
    Engines = {e1, e2}
    ConnectionTTL = 1
    MaxTime = 2
    MaxVersion = 2
    MaxFaults = 1
CHECK_DEADLOCK FALSE
SYMMETRY Symmetric
INVARIANTS CopiesBounded ChainsEnd NoEditMissed
PROPERTIES ExclusiveWork
