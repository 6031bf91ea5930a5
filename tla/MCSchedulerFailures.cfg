SPECIFICATION FairSpec
CONSTANTS
    Instances = {i1, i2}
    Reliable = {i1}
    Schedules = {s1}
    Defs <- DefsSkip
    Times <- TimesSkip
    FailingCalls = {"lease", "load", "createRun", "store", "recipients", "saveRun", "saveItem", "release"}
    MaxFailures = 1
    MaxEdits = 1
CHECK_DEADLOCK FALSE
INVARIANTS ExclusiveLease DeliveredOnce
PROPERTIES DueHandled
