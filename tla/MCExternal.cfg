SPECIFICATION Spec
CONSTANTS
    p1 = p1
    p2 = p2
    p3 = p3
    Payloads = {p1, p2, p3}
    QoS <- Qualities
    PacketIds = {i1}
    MaxResends = 2
    MaxDrops = 1
    MaxUnpublished = 1
    Requests = {r1, r2}
    MaxSecrets = 4
    MaxCalls = 5
    Senders = {s1, s2}
    Processes = {q1, q2}
    Stamps = {1}
    Tolerance = 1
    Limit = 1
    Window = 2
    MaxMoment = 4
    MaxReceived = 3
    MaxRouteSaves = 1
    Managers = {e1, e2}
    NoManager = NoManager
    Urls = {u1, u2}
    MaxEntries = 2
    PollLease = 1
    Interval = 1
    Ahead = 1
    KeepSeen = 0
    MaxMinute = 1
    MaxFailures = 1
    MaxMonitorEdits = 1
    Hosts = {"h1", "h2"}
    ListenLease = 1
    WindowSizes = {0, 1, 2}
    MaxSecond = 3
    MaxLines = 3
    MaxWindowEdits = 1
    MaxMails = 2
    MaxRouteEdits = 1
    a1 = a1
    a2 = a2
    b1 = b1
    x1 = x1
    A = A
    B = B
    Broken = Broken
    NoFile = NoFile
    Files = {a1, a2, b1, x1}
    Modules = {A, B}
    ModuleOf <- Contents
    Askers = {r1, r2}
    MaxRequests = 3
    MaxMishaps = 1
    Calls = {c1, c2}
    NoHolder = NoHolder
    MaxPluginCalls = 4
    MaxRefusals = 2
    MaxSends = 1
    DataEntries = {db, img}
    Database = db
    MaxVersion = 4
    MaxSeconds = 2
    MaxCrashes = 3
    Releases = {v1, v2}
    Bundled = v0
    Installs = {r1, r2}
    MaxInstalls = 3
    MaxStops = 3
CHECK_DEADLOCK FALSE
INVARIANTS QualityKept PairingSound  EntriesSettled DuplicatesApart MailCleared FilesSound RowMatchesInstance RestoreWhole UpdateSound
SYMMETRY Symmetric
