SPECIFICATION Spec
CONSTANTS
    People = {o, u}
    Admins = {o}
    Groups = {q1, q2}
    Roles = {1, 4}
    Notify = {FALSE}
    NoOne = NoOne
    Threads = {p1, p2}
    MaxChanges = 3
    MaxErrors = 1
    Editors = {p1, p2}
    MaxEdits = 4
    MaxBreaks = 1
    Base = 3
    Heads = 2
    MaxKeys = 4
    MaxMoves = 4
    StartLength = 4
    Clients = {q1, q2}
    Lifetimes = {3}
    Calls = {p1, p2}
    RefreshAge = 1
    ElevationTime = 1
    MaxTime = 4
    MaxCalls = 4
    MaxFailures = 1
    States = {q1, q2}
    Answers = {p1, p2}
    Period = 2
    MaxClock = 5
    MaxAnswers = 2
    Names = {n1, n2}
    Root = n1
    Subjects = {q1, q2}
    Tasks = {p1, p2}
    LinkByUsername = TRUE
    AutoRegister = TRUE
    MaxIds = 3
    MaxTasks = 4
    Codes = {f1, f2, f3, f4}
    Challenges = {q1, q2}
    Jobs = {p1, p2}
    BatchSize = 2
    MaxJobs = 5
CHECK_DEADLOCK FALSE
SYMMETRY Symmetric
INVARIANTS OwnerIsMember GroupAccess ChannelIntact OrderKept NoLooseSocket OnlyIdleRemoved PendingSound LastAdminKept SpentOnce
PROPERTIES BindingKept
