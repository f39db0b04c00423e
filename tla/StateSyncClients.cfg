\* Two kinds, their monitors and a command socket handler, one client.
CONSTANTS
    lock = lock
    power = power
    Nil = Nil
    Unread = Unread
    KindSeq <- TwoKinds
    Values = {on, off}
    UdsHandlers = {uds}
    WsClients = {c1}
    RpcStreams = {}
    SubCap = 1
SPECIFICATION FairSpec
INVARIANT ClientsCurrent
PROPERTY BrokenConnectionsLeave
