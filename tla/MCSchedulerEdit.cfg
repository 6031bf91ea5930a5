SPECIFICATION Spec
CONSTANTS
    Instances = {i1, i2}
    Reliable = {}
    Schedules = {s1}
    Defs <- DefsEdit
    Times <- TimesEdit
    FailingCalls = {}
    MaxFailures = 0
    MaxEdits = 2
CHECK_DEADLOCK FALSE
SYMMETRY Symmetric
INVARIANTS OccurrencesHandled OncePerOccurrence
