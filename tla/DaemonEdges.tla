------------------------------ MODULE DaemonEdges ------------------------------
(***************************************************************************)
(* The daemon's edges side by side: start with its configuration, the      *)
(* command socket, the two halves of the metrics reader, the devices on    *)
(* exit, and what companions ask the desktop to do.                        *)
(*                                                                         *)
(* They share no state, so a behaviour is one of one of them: part says    *)
(* which, the variables of the others stay Nil.                            *)
(***************************************************************************)
EXTENDS Integers, Sequences

CONSTANTS
    Daemons, Clients, Kinds, CachedKinds, TypedKinds, Stale,                 \* command socket
    Serials, Publishers, MaxJobs, Lingering,                                 \* devices
    MaxCores, MaxTime, MaxIdle, MaxEnergy, Width, Workloads, MaxGap,         \* counters
    Hosts, DpmTable,                                                         \* sensors
    FileLayers, EnvLayers, FlagLayers, Bad,                                  \* configuration
    Calls, Scripts, RpcRequests, TextLimit, Offered, NaN,                    \* inbound, with Clients
    Nil

VARIABLES
    part,
    file, live, pc, cancelled, refusal, overlap, cpc, conn, req, hpc, done, answer, result, stuck,
    activeSerials, phase, up, stale, plugged, behind, screen, app, tunnel, jobs, late, dpms, pub,
    noAppControl, ctxDone, exit, closing, told, lateLaunch, failed,
    workload, times, cores, energy, lastCPUTimes, lastCoresCPUTimes, lastEnergy, gap, usage, coresUsage,
    power, spent, back, owed,
    host, value, clock, flags,
    start, confFile, layer, conf, verbose, mocked, manager, bound,
    inbox, alive, asked, ipc, expired, outcome, mu, posted, performed, unheard, replies

Socket == INSTANCE CommandSocket
Devices == INSTANCE DeviceSession
Counters == INSTANCE CpuCounters
Sense == INSTANCE Sensors
Config == INSTANCE Configuration
Inbound == INSTANCE InboundCommands WITH pc <- ipc

\* What each part assumes of its constants.
ASSUME EdgesAssumption ==
    /\ Socket!SocketAssumption /\ Counters!CountersAssumption /\ Sense!SensorsAssumption
    /\ Config!ConfigAssumption /\ Inbound!InboundAssumption
    /\ MaxJobs \in Nat \ {0} /\ Nil \notin {"on", "off"}

socketVars == <<file, live, pc, cancelled, refusal, overlap, cpc, conn, req, hpc, done, answer, result, stuck>>
deviceVars == <<activeSerials, phase, up, stale, plugged, behind, screen, app, tunnel, jobs, late, dpms, pub,
                noAppControl, ctxDone, exit, closing, told, lateLaunch, failed>>
counterVars == <<workload, times, cores, energy, lastCPUTimes, lastCoresCPUTimes, lastEnergy, gap, usage,
                 coresUsage, power, spent, back, owed>>
senseVars == <<host, value, clock, flags>>
configVars == <<start, confFile, layer, conf, verbose, mocked, manager, bound>>
inboundVars == <<inbox, alive, asked, ipc, expired, outcome, mu, posted, performed, unheard, replies>>
vars == <<part, socketVars, deviceVars, counterVars, senseVars, configVars, inboundVars>>

\* A part's variables while another one runs.
SocketIdle == /\ file = Nil /\ live = Nil /\ pc = Nil /\ cancelled = Nil /\ refusal = Nil /\ overlap = Nil
              /\ cpc = Nil /\ conn = Nil /\ req = Nil /\ hpc = Nil /\ done = Nil /\ answer = Nil
              /\ result = Nil /\ stuck = Nil
DeviceIdle == /\ activeSerials = Nil /\ phase = Nil /\ up = Nil /\ stale = Nil /\ plugged = Nil
              /\ behind = Nil /\ screen = Nil /\ app = Nil /\ tunnel = Nil /\ jobs = Nil /\ late = Nil
              /\ dpms = Nil /\ pub = Nil /\ noAppControl = Nil /\ ctxDone = Nil /\ exit = Nil /\ closing = Nil
              /\ told = Nil /\ lateLaunch = Nil /\ failed = Nil
CounterIdle == /\ workload = Nil /\ times = Nil /\ cores = Nil /\ energy = Nil /\ lastCPUTimes = Nil
               /\ lastCoresCPUTimes = Nil /\ lastEnergy = Nil /\ gap = Nil /\ usage = Nil
               /\ coresUsage = Nil /\ power = Nil /\ spent = Nil /\ back = Nil /\ owed = Nil
SenseIdle == host = Nil /\ value = Nil /\ clock = Nil /\ flags = Nil
ConfigIdle == /\ start = Nil /\ confFile = Nil /\ layer = Nil /\ conf = Nil /\ verbose = Nil
              /\ mocked = Nil /\ manager = Nil /\ bound = Nil
InboundIdle == /\ inbox = Nil /\ alive = Nil /\ asked = Nil /\ ipc = Nil /\ expired = Nil /\ outcome = Nil
               /\ mu = Nil /\ posted = Nil /\ performed = Nil /\ unheard = Nil /\ replies = Nil

InitSocket ==
    /\ part = "socket" /\ Socket!Init
    /\ DeviceIdle /\ CounterIdle /\ SenseIdle /\ ConfigIdle /\ InboundIdle
InitDevices ==
    /\ part = "devices" /\ Devices!Init
    /\ SocketIdle /\ CounterIdle /\ SenseIdle /\ ConfigIdle /\ InboundIdle
InitCounters ==
    /\ part = "counters" /\ Counters!Init
    /\ SocketIdle /\ DeviceIdle /\ SenseIdle /\ ConfigIdle /\ InboundIdle
InitSense ==
    /\ part = "sensors" /\ Sense!Init
    /\ SocketIdle /\ DeviceIdle /\ CounterIdle /\ ConfigIdle /\ InboundIdle
InitConfig ==
    /\ part = "config" /\ Config!Init
    /\ SocketIdle /\ DeviceIdle /\ CounterIdle /\ SenseIdle /\ InboundIdle
InitInbound ==
    /\ part = "inbound" /\ Inbound!Init
    /\ SocketIdle /\ DeviceIdle /\ CounterIdle /\ SenseIdle /\ ConfigIdle

Init == InitSocket \/ InitDevices \/ InitCounters \/ InitSense \/ InitConfig \/ InitInbound

NextSocket ==
    /\ part = "socket" /\ Socket!Next
    /\ UNCHANGED <<part, deviceVars, counterVars, senseVars, configVars, inboundVars>>
NextDevices ==
    /\ part = "devices" /\ Devices!Next
    /\ UNCHANGED <<part, socketVars, counterVars, senseVars, configVars, inboundVars>>
NextCounters ==
    /\ part = "counters" /\ Counters!Next
    /\ UNCHANGED <<part, socketVars, deviceVars, senseVars, configVars, inboundVars>>
NextSense ==
    /\ part = "sensors" /\ Sense!Next
    /\ UNCHANGED <<part, socketVars, deviceVars, counterVars, configVars, inboundVars>>
NextConfig ==
    /\ part = "config" /\ Config!Next
    /\ UNCHANGED <<part, socketVars, deviceVars, counterVars, senseVars, inboundVars>>
NextInbound ==
    /\ part = "inbound" /\ Inbound!Next
    /\ UNCHANGED <<part, socketVars, deviceVars, counterVars, senseVars, configVars>>

Next == NextSocket \/ NextDevices \/ NextCounters \/ NextSense \/ NextConfig \/ NextInbound

Spec == Init /\ [][Next]_vars

\* The sensors alone, and start alone.
SenseSpec == InitSense /\ [][NextSense]_vars
ConfigSpec == InitConfig /\ [][NextConfig]_vars

\* The fairness of the three parts that state liveness.
FairSpec ==
    /\ Spec
    /\ \A d \in Daemons : WF_(socketVars)(part = "socket" /\ Socket!DaemonStops(d))
    /\ \A c \in Clients :
         /\ WF_(socketVars)(part = "socket" /\ Socket!Handler(c))
         /\ WF_(socketVars)(part = "socket" /\ Socket!Client(c))
    /\ WF_(deviceVars)(part = "devices" /\ Devices!CleanupDevices)
    /\ WF_(deviceVars)(part = "devices" /\ Devices!Exit)
    /\ \A s \in Serials : WF_(deviceVars)(part = "devices" /\ Devices!Work(s, 0))
    /\ \A c \in Clients \cup Calls :
         /\ WF_(inboundVars)(part = "inbound" /\ Inbound!Reads(c))
         /\ WF_(inboundVars)(part = "inbound" /\ Inbound!Handles(c))
         /\ WF_(inboundVars)(part = "inbound" /\ Inbound!Expire(c))

--------------------------------------------------------------------------------
(* The types of each part's variables.                                     *)
EdgesTypeOK ==
    /\ part = "socket" => Socket!TypeOK
    /\ part = "devices" => Devices!TypeOK
    /\ part = "counters" => Counters!TypeOK
    /\ part = "sensors" => Sense!TypeOK
    /\ part = "config" => Config!TypeOK
    /\ part = "inbound" => Inbound!TypeOK

(* CommandSocket.SocketIsOwned: short of overlapping starts and stops, the *)
(* serving daemon is the one at the path, there is only one, and only a    *)
(* live daemon refuses a start.                                            *)
SocketIsOwned == part = "socket" => Socket!SocketIsOwned

(* CommandSocket.AnswersAreTrue: of a success every store and broadcast    *)
(* was run, of a rejection none.                                           *)
AnswersAreTrue == part = "socket" => Socket!AnswersAreTrue

(* CommandSocket.ClientsReturn: a connected trigger command returns.       *)
ClientsReturn ==
    \A c \in Clients :
        (part = "socket" /\ Socket!Connected(c)) ~> (part = "socket" /\ (Socket!Ends(c) \/ stuck))

(* DeviceSession.ShutdownCompletes: shutdown ends whatever became of the   *)
(* devices and the ADB server.                                             *)
ShutdownCompletes == (part = "devices" /\ ctxDone) ~> (part = "devices" /\ exit = "exited")

(* CpuCounters.ReportsAreSound: usage stays within 0 and 100 unless a      *)
(* counter went backwards or as many cores were exchanged, hotplug never   *)
(* mixes lists of different lengths, and wraps and gaps never inflate      *)
(* power.                                                                  *)
ReportsAreSound ==
    [][part = "counters" => Counters!ReportsPercentage /\ Counters!ReportsPower]_<<usage, coresUsage, power, owed>>

(* Sensors.FlagsMatchValues: the support flags are those of this read, but *)
(* for what is there and cannot be parsed.                                 *)
FlagsMatchValues == part = "sensors" => Sense!FlagsMatchValues

(* Sensors.ActiveClock: the clock of the line marked active is reported.   *)
ActiveClock == part = "sensors" => Sense!ActiveClock

(* Configuration.StartsAsConfigured: flags over environment over file over *)
(* defaults, a manager for everything, no address but loopback, and only   *)
(* the file's interval can stop the daemon from starting.                  *)
StartsAsConfigured == part = "config" => Config!StartsAsConfigured

(* Configuration.EnvReachesSettings: the environment sets any setting.     *)
EnvReachesSettings == part = "config" => Config!EnvReachesSettings

(* InboundCommands.RequestsAnswered: one reply each, in order, that agrees *)
(* with what the desktop did, whatever timed out.                          *)
RequestsAnswered == part = "inbound" => Inbound!RequestsAnswered

(* InboundCommands.HostInputClean: no tags, no values out of range.        *)
HostInputClean == part = "inbound" => Inbound!HostInputClean

(* InboundCommands.RequestsHandled: a hanging desktop holds up no client,  *)
(* not even one that waits for the mutex an RPC holds.                     *)
RequestsHandled ==
    \A c \in Clients :
        (part = "inbound" /\ Inbound!Waiting(c)) ~>
            (part = "inbound" /\ (~Inbound!Waiting(c) \/ Inbound!Suspending(c)))
================================================================================
