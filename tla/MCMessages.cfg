SPECIFICATION Spec
CONSTANTS
    Workers = {w1, w2}
    MaxPosts = 2
    Priority <- Priorities
    DigestForms <- DigestChoices
    QuietForms <- QuietChoices
    Day = 2
    MaxClock = 2
    MaxSaves = 2
    MaxDeletes = 1
    MaxFailures = 1
    Readers = {o, v}
    Moderators = {v}
    Owner = o
    Reader = v
    Posting = {v}
    Managing = {}
    PageSize = 1
    Requests = {r1, r2}
    MaxMessages = 3
    MaxDeeds = 3
    Authors = {o, v}
    Supers = {o}
    ChannelOwner = o
    Posters = {v}
    Nobody = Nobody
    Works = {r1, r2}
    MaxImages = 2
    MaxSends = 1
    MaxFiles = 2
    MaxTouches = 3
    MaxFaults = 1
CHECK_DEADLOCK FALSE
SYMMETRY Symmetric
INVARIANTS Accounted SentOnce PagingComplete ThreadsWhole RowsConsistent
