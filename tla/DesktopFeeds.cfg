\* Three notifications, an eavesdropping channel of two and two icon files; three profiles and one client;
\* two tracks and their covers; four reports of the display; two sources and
\* two streams with channels of two.
CONSTANTS
    Nil = Nil
    n1 = n1
    n2 = n2
    n3 = n3
    k1 = k1
    p1 = p1
    p2 = p2
    t1 = t1
    t2 = t2
    Notes = {n1, n2, n3}
    Source <- MCSource
    Keys = {k1}
    Paths = {p1, p2}
    Profiles = {balanced, performance, saver}
    Clients = {c1}
    Tracks = {t1, t2}
    Key <- MCKey
    Bus = bus
    Casters = {b1, b2}
    Streams = {s1, s2}
    MaxEvents = 2
    ChanCap = 2
    EavesdropCap = 2
    OutCap = 1
    EventsCap = 1
    MaxChanges = 2
    Attempts = 2
    MaxSignals = 2
    MaxWrites = 2
    MaxReports = 4
SPECIFICATION FairSpec
INVARIANTS NotificationsKept OnlyIconsCached ClientsHaveProfile OnlyGenuine StreamsInOrder
PROPERTIES ArtIsRight AllDelivered BroadcastsEnd
CHECK_DEADLOCK FALSE
