\* Two kinds, their monitors and a command socket handler, one stream.
CONSTANTS
    lock = lock
    power = power
    Nil = Nil
    Unread = Unread
    KindSeq <- TwoKinds
    Values = {on, off}
    UdsHandlers = {uds}
    WsClients = {}
    RpcStreams = {r1}
    SubCap = 1
SPECIFICATION Spec
INVARIANTS StreamsCurrent SubscribersSafe
