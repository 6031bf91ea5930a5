SPECIFICATION CollaborationSpec
CONSTANTS
    Authors = {o, v}
    Supers = {o}
    ChannelOwner = o
    Posters = {v}
    Nobody = Nobody
    Works = {r1, r2}
    MaxImages = 2
    MaxSends = 1
    MaxFiles = 2
    MaxTouches = 1
    MaxFaults = 0
CHECK_DEADLOCK FALSE
INVARIANTS DeliveredComplete
