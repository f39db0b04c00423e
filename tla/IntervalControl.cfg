\* One WebSocket client, one RPC stream and the lock monitor, a channel of two.
CONSTANTS
    c1 = c1
    s1 = s1
    lm = lm
    WsClients <- OneClient
    RpcStreams <- OneStream
    LockMonitor = lm
    WsRequests <- ClientRequests
    RpcRequests <- StreamRequests
    UpdateIntervalMS = 2
    LockedUpdateIntervalMS = 0
    MinIntervalMS = 2
    MaxIntervalMS = 4
    ResetCap = 2
SPECIFICATION FairSpec
INVARIANTS SoloWriterWins RequestsNeverPanic
PROPERTY ResetReachesTicker
