\* The sensors with a pp_dpm file; the other parts do not run.
CONSTANTS
    Nil = Nil
    Stale = Stale
    Bad = Bad
    NaN = NaN
    Daemons = {d1, d2}
    Clients = {c1}
    Kinds = {"dpms", "telemetry", "custom"}
    CachedKinds = {"dpms"}
    TypedKinds = {"dpms", "telemetry"}
    Serials = {serial}
    Publishers = {monitor}
    Hosts <- MCHosts
    DpmTable <- MCDpmTable
    FileLayers <- MCFileLayers
    EnvLayers <- MCEnvLayers
    FlagLayers <- MCFlagLayers
    Calls = {r1}
    Scripts <- MCScripts
    RpcRequests <- MCRpcRequests
    TextLimit = 4
    Offered = {"balanced"}
    MaxJobs = 1
    Lingering = {"close"}
    MaxCores = 2
    MaxTime = 2
    MaxIdle = 1
    MaxEnergy = 2
    Width = 64
    Workloads <- MCWorkloads
    MaxGap = 2
SPECIFICATION SenseSpec
INVARIANT ActiveClock
CHECK_DEADLOCK FALSE
