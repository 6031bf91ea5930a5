SPECIFICATION Spec
CONSTANTS
    Instances = {i1}
    Reliable = {}
    Schedules = {s1}
    Defs <- DefsTwice
    Times <- TimesOverlap
    FailingCalls = {"recipients"}
    MaxFailures = 1
    MaxEdits = 1
CHECK_DEADLOCK FALSE
INVARIANTS
    OncePerOccurrence
