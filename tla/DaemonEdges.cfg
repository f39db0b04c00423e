\* Two daemons and a trigger command; one device; two cores and an energy
\* counter that wraps at 2; a client's two frames and an RPC.
CONSTANTS
    Nil = Nil
    Stale = Stale
    Bad = Bad
    NaN = NaN
    Daemons = {d1, d2}
    Clients = {c1}
    Kinds = {"dpms", "telemetry", "custom"}
    CachedKinds = {"dpms"}
    TypedKinds = {"dpms", "telemetry"}
    Serials = {serial}
    Publishers = {monitor}
    Hosts <- MCHosts
    DpmTable <- MCDpmTable
    FileLayers <- MCFileLayers
    EnvLayers <- MCEnvLayers
    FlagLayers <- MCFlagLayers
    Calls = {r1}
    Scripts <- MCScripts
    RpcRequests <- MCRpcRequests
    TextLimit = 4
    Offered = {"balanced"}
    MaxJobs = 1
    Lingering = {"close"}
    MaxCores = 2
    MaxTime = 2
    MaxIdle = 1
    MaxEnergy = 2
    Width = 64
    Workloads <- MCWorkloads
    MaxGap = 2
SPECIFICATION FairSpec
INVARIANTS EdgesTypeOK SocketIsOwned AnswersAreTrue FlagsMatchValues StartsAsConfigured RequestsAnswered HostInputClean
PROPERTIES ReportsAreSound ClientsReturn ShutdownCompletes RequestsHandled
CHECK_DEADLOCK FALSE
