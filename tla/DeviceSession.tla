----------------------------- MODULE DeviceSession ------------------------------
(***************************************************************************)
(* What the engine does to registered devices: bootstrapDevice when one    *)
(* comes online, a sleep or wake command per DPMS event, cleanupDevices on *)
(* exit.  All of them are ADB commands issued by goroutines that nobody    *)
(* waits for, except cleanup's.  Registration is that of DeviceRegistry.   *)
(*                                                                         *)
(* A goroutine is a list of commands.  For each it dials the ADB server,   *)
(* with the engine's context (bootstrap) or one of its own (the others),   *)
(* sends the command and waits; an error is logged and the next command    *)
(* follows.  A context cancelled after the dial no longer stops a command, *)
(* and one given up by its deadline may still be carried out later.        *)
(***************************************************************************)
EXTENDS Integers, Sequences

CONSTANTS
    Serials,     \* device serial numbers
    Publishers,  \* the DPMS monitor and command socket handlers
    MaxJobs,     \* bound: goroutines at work on one device, cleanup's aside
    Lingering,   \* bound: the commands that may take effect after they were given up
    Nil          \* no DPMS state yet

ASSUME SessionAssumption == MaxJobs \in Nat \ {0} /\ Nil \notin {"on", "off"}

VARIABLES
    activeSerials,  \* e.activeSerials
    phase,          \* the tracking stream, as in DeviceRegistry
    up,             \* the ADB server runs
    stale,          \* the stream belongs to a server that died
    plugged,        \* the device is attached to the host
    behind,         \* it was unplugged since it was registered
    screen,         \* its screen: "on" or "off"
    app,            \* it runs the companion app
    tunnel,         \* the ADB server has its reverse tunnel
    jobs,           \* per device the goroutines at work on it; 0 is cleanup's
    late,           \* commands sent and given up that may still take effect
    dpms,           \* e.lastDpmsState
    pub,            \* the DPMS state each publisher has stored and not acted on
    noAppControl,   \* cfg.ADB.NoAppControl
    ctxDone,        \* the engine's context is cancelled
    exit,           \* cleanupDevices: "run", "closing", "exited"
    closing,        \* the devices it closes the app on
    told,           \* history: the latest DPMS command to the device is in force, and
                    \* nobody else was at work on it when it was started
    lateLaunch,     \* history: the app was launched after cleanup closed it
    failed          \* history: tunnel and close commands that failed

registryVars == <<activeSerials, phase>>
deviceVars == <<plugged, behind, screen, app, tunnel, late>>
exitVars == <<ctxDone, exit, closing>>
dpmsVars == <<dpms, pub>>
historyVars == <<told, lateLaunch, failed>>
vars == <<registryVars, up, stale, deviceVars, jobs, dpmsVars, noAppControl, exitVars, historyVars>>

Registry == INSTANCE DeviceRegistry

Commands == {"wake", "sleep", "launch", "reverse", "close"}
Slots == 0..MaxJobs
NoJob == [todo |-> <<>>, at |-> "dial", own |-> FALSE]

\* The commands of bootstrapDevice, in their order.
BootCommands == IF noAppControl THEN <<"reverse">> ELSE <<"wake", "launch", "reverse">>

DpmsCommandRaw(state) == state

DpmsCommandSwapped(state) == IF state = "on" THEN "sleep" ELSE "wake"

DpmsCommand(state) == IF state = "off" THEN "sleep" ELSE "wake"

Idle(s) == \A i \in Slots : jobs[s][i] = NoJob
Bootstrapping(s) == \E i \in Slots : jobs[s][i].todo # <<>> /\ ~jobs[s][i].own
Free(s) == {i \in Slots \ {0} : jobs[s][i] = NoJob}

\* The jobs of s with a new one in its first free slot.
Spawned(s, todo, own) ==
    [jobs[s] EXCEPT ![CHOOSE i \in Free(s) : \A j \in Free(s) : i <= j] =
        [todo |-> todo, at |-> "dial", own |-> own]]

Init ==
    /\ Registry!Init
    /\ up \in BOOLEAN
    /\ stale = FALSE
    /\ plugged = [s \in Serials |-> FALSE]
    /\ behind = [s \in Serials |-> FALSE]
    /\ screen = [s \in Serials |-> "off"]
    /\ app = [s \in Serials |-> FALSE]
    /\ tunnel = [s \in Serials |-> FALSE]
    /\ jobs = [s \in Serials |-> [i \in Slots |-> NoJob]]
    /\ late = [s \in Serials |-> {}]
    /\ dpms = Nil
    /\ pub = [p \in Publishers |-> Nil]
    /\ noAppControl \in BOOLEAN
    /\ ctxDone = FALSE
    /\ exit = "run"
    /\ closing = {}
    /\ told = [s \in Serials |-> FALSE]
    /\ lateLaunch = [s \in Serials |-> FALSE]
    /\ failed = [s \in Serials |-> {}]

--------------------------------------------------------------------------------
(* Devices and the ADB server                                              *)

\* The process has not exited; nothing is of interest afterwards.
Running == exit # "exited"

\* The jobs of s when its connections break.
Broken(js) == [i \in Slots |-> IF js[i].at = "sent" THEN [js[i] EXCEPT !.at = "broken"] ELSE js[i]]

Plug(s) ==
    /\ Running
    /\ ~plugged[s]
    /\ plugged' = [plugged EXCEPT ![s] = TRUE]
    /\ UNCHANGED <<registryVars, up, stale, behind, screen, app, tunnel, late, jobs, dpmsVars,
                   noAppControl, exitVars, historyVars>>

Unplug(s) ==
    /\ Running
    /\ plugged[s]
    /\ plugged' = [plugged EXCEPT ![s] = FALSE]
    /\ behind' = [behind EXCEPT ![s] = s \in activeSerials]
    /\ tunnel' = [tunnel EXCEPT ![s] = FALSE]
    /\ late' = [late EXCEPT ![s] = {}]
    /\ jobs' = [jobs EXCEPT ![s] = Broken(@)]
    /\ UNCHANGED <<registryVars, up, stale, screen, app, dpmsVars, noAppControl, exitVars,
                   historyVars>>

\* The server forgets its tunnels when it goes away.
ServerStop ==
    /\ Running
    /\ up
    /\ up' = FALSE
    /\ stale' = (phase # "down")
    /\ tunnel' = [s \in Serials |-> FALSE]
    /\ late' = [s \in Serials |-> {}]
    /\ jobs' = [s \in Serials |-> Broken(jobs[s])]
    /\ UNCHANGED <<registryVars, plugged, behind, screen, app, dpmsVars, noAppControl, exitVars,
                   historyVars>>

ServerStart ==
    /\ Running
    /\ ~up
    /\ up' = TRUE
    /\ UNCHANGED <<registryVars, stale, deviceVars, jobs, dpmsVars, noAppControl, exitVars,
                   historyVars>>

--------------------------------------------------------------------------------
(* Registration, and the bootstrap it starts                               *)

HandleOnlineOnce(s) ==
    /\ Running
    /\ Free(s) # {}
    /\ Registry!Attach(s)
    /\ jobs' = IF app[s]
               THEN jobs ELSE [jobs EXCEPT ![s] = Spawned(s, BootCommands, FALSE)]
    /\ behind' = [behind EXCEPT ![s] = ~plugged[s]]
    /\ told' = [told EXCEPT ![s] = FALSE]
    /\ failed' = [failed EXCEPT ![s] = @ \cap {"close"}]
    /\ UNCHANGED <<up, stale, plugged, screen, app, tunnel, late, dpmsVars, noAppControl, exitVars,
                   lateLaunch>>

HandleOnline(s) ==
    /\ Running
    /\ Free(s) # {}
    /\ Registry!Attach(s)
    /\ jobs' = [jobs EXCEPT ![s] = Spawned(s, BootCommands, FALSE)]
    /\ behind' = [behind EXCEPT ![s] = ~plugged[s]]
    /\ told' = [told EXCEPT ![s] = FALSE]
    /\ failed' = [failed EXCEPT ![s] = @ \cap {"close"}]
    /\ UNCHANGED <<up, stale, plugged, screen, app, tunnel, late, dpmsVars, noAppControl, exitVars,
                   lateLaunch>>

HandleOffline(s) ==
    /\ Running
    /\ Registry!Detach(s)
    /\ behind' = [behind EXCEPT ![s] = FALSE]
    /\ failed' = [failed EXCEPT ![s] = @ \cap {"close"}]
    /\ UNCHANGED <<up, stale, plugged, screen, app, tunnel, late, jobs, dpmsVars, noAppControl,
                   exitVars, told, lateLaunch>>

StreamEstablished ==
    /\ Running /\ up
    /\ Registry!Establish
    /\ UNCHANGED <<up, stale, deviceVars, jobs, dpmsVars, noAppControl, exitVars, historyVars>>

StreamLost ==
    /\ Running /\ stale
    /\ Registry!Lose
    /\ stale' = FALSE
    /\ behind' = [s \in Serials |-> FALSE]
    /\ UNCHANGED <<up, plugged, screen, app, tunnel, late, jobs, dpmsVars, noAppControl, exitVars,
                   historyVars>>

TrackerStops ==
    /\ Running /\ ctxDone
    /\ Registry!Stop
    /\ UNCHANGED <<up, stale, deviceVars, jobs, dpmsVars, noAppControl, exitVars, historyVars>>

--------------------------------------------------------------------------------
(* DPMS events                                                             *)

\* Cache the state; the broadcasts that follow are StateSync's.
DpmsStore(p, state) ==
    /\ Running
    /\ pub[p] = Nil
    /\ dpms' = state
    /\ pub' = [pub EXCEPT ![p] = state]
    /\ UNCHANGED <<registryVars, up, stale, deviceVars, jobs, noAppControl, exitVars, historyVars>>

\* Copy the serials and start one goroutine for each.
DpmsSpawn(p) ==
    /\ Running
    /\ pub[p] # Nil
    /\ pub' = [pub EXCEPT ![p] = Nil]
    /\ IF noAppControl
       THEN UNCHANGED <<jobs, told>>
       ELSE /\ \A s \in activeSerials : Free(s) # {}
            /\ jobs' = [s \in Serials |->
                           IF s \in activeSerials
                           THEN Spawned(s, <<DpmsCommand(pub[p])>>, TRUE) ELSE jobs[s]]
            /\ told' = [s \in Serials |->
                           s \in activeSerials /\ dpms = pub[p] /\ Idle(s) /\ late[s] = {}]
    /\ UNCHANGED <<registryVars, up, stale, deviceVars, dpms, noAppControl, exitVars, lateLaunch,
                   failed>>

--------------------------------------------------------------------------------
(* A goroutine at work                                                     *)

\* connectToDevice: the server answers, the device is there, the context lives.
Dial(s, i) ==
    /\ Running
    /\ jobs[s][i].todo # <<>>
    /\ jobs[s][i].at = "dial"
    /\ up /\ plugged[s]
    /\ jobs[s][i].own \/ ~ctxDone
    /\ jobs' = [jobs EXCEPT ![s][i].at = "sent"]
    /\ UNCHANGED <<registryVars, up, stale, deviceVars, dpmsVars, noAppControl, exitVars,
                   historyVars>>

\* The job after its current command.
Advanced(job) ==
    IF Len(job.todo) = 1 THEN NoJob ELSE [job EXCEPT !.todo = Tail(@), !.at = "dial"]

\* What a command does to the device, and whether it was a launch too late.
TakesEffect(s, cmd) ==
    /\ screen' = CASE cmd = "wake" -> [screen EXCEPT ![s] = "on"]
                   [] cmd = "sleep" -> [screen EXCEPT ![s] = "off"]
                   [] OTHER -> screen
    /\ app' = CASE cmd = "launch" -> [app EXCEPT ![s] = TRUE]
                [] cmd = "close" -> [app EXCEPT ![s] = FALSE]
                [] OTHER -> app
    /\ tunnel' = IF cmd = "reverse" THEN [tunnel EXCEPT ![s] = TRUE] ELSE tunnel
    /\ lateLaunch' = IF cmd = "launch" /\ exit = "closing" /\ jobs[s][0] = NoJob
                     THEN [lateLaunch EXCEPT ![s] = TRUE] ELSE lateLaunch

\* The command takes effect on the device.
Effect(s, i) ==
    /\ Running
    /\ jobs[s][i].at = "sent"
    /\ TakesEffect(s, Head(jobs[s][i].todo))
    /\ jobs' = [jobs EXCEPT ![s][i] = Advanced(@)]
    /\ UNCHANGED <<registryVars, up, stale, plugged, behind, late, dpmsVars, noAppControl, exitVars,
                   told, failed>>

\* So does one that was given up, as long as server and device stay.
LateEffect(s, cmd) ==
    /\ Running
    /\ cmd \in late[s]
    /\ TakesEffect(s, cmd)
    /\ late' = [late EXCEPT ![s] = @ \ {cmd}]
    /\ UNCHANGED <<registryVars, up, stale, plugged, behind, jobs, dpmsVars, noAppControl, exitVars,
                   told, failed>>

CommandFailsUntimed(s, i) ==
    /\ Running
    /\ jobs[s][i].todo # <<>>
    /\ jobs[s][i].at # "dial"
    /\ failed' = [failed EXCEPT ![s] = @ \cup ({Head(jobs[s][i].todo)} \cap {"reverse", "close"})]
    /\ told' = [told EXCEPT ![s] = FALSE]
    /\ jobs' = [jobs EXCEPT ![s][i] = Advanced(@)]
    /\ \/ UNCHANGED late
       \/ /\ jobs[s][i].at = "sent"
          /\ late' = [late EXCEPT ![s] = @ \cup ({Head(jobs[s][i].todo)} \cap Lingering)]
    /\ UNCHANGED <<registryVars, up, stale, plugged, behind, screen, app, tunnel, dpmsVars, noAppControl,
                   exitVars, lateLaunch>>

\* Any command may fail: refused, timed out or cut off.  It is only logged;
\* one that was sent may be carried out all the same.
CommandFails(s, i) ==
    /\ Running
    /\ jobs[s][i].todo # <<>>
    /\ failed' = [failed EXCEPT ![s] = @ \cup ({Head(jobs[s][i].todo)} \cap {"reverse", "close"})]
    /\ told' = [told EXCEPT ![s] = FALSE]
    /\ jobs' = [jobs EXCEPT ![s][i] = Advanced(@)]
    /\ \/ UNCHANGED late
       \/ /\ jobs[s][i].at = "sent"
          /\ late' = [late EXCEPT ![s] = @ \cup ({Head(jobs[s][i].todo)} \cap Lingering)]
    /\ UNCHANGED <<registryVars, up, stale, plugged, behind, screen, app, tunnel, dpmsVars, noAppControl,
                   exitVars, lateLaunch>>

--------------------------------------------------------------------------------
(* Shutdown                                                                *)

Cancel ==
    /\ ~ctxDone
    /\ ctxDone' = TRUE
    /\ UNCHANGED <<registryVars, up, stale, deviceVars, jobs, dpmsVars, noAppControl, exit,
                   closing, historyVars>>

\* Copy the serials and start one goroutine for each.
CleanupDevices ==
    /\ exit = "run"
    /\ ctxDone
    /\ exit' = "closing"
    /\ closing' = IF noAppControl THEN {} ELSE activeSerials
    /\ jobs' = [s \in Serials |->
                   IF s \in closing'
                   THEN [jobs[s] EXCEPT ![0] = [todo |-> <<"close">>, at |-> "dial", own |-> TRUE]]
                   ELSE jobs[s]]
    /\ UNCHANGED <<registryVars, up, stale, deviceVars, dpmsVars, noAppControl, ctxDone,
                   historyVars>>

ExitUnwaited ==
    /\ exit = "closing"
    /\ exit' = "exited"
    /\ jobs' = [s \in Serials |-> [i \in Slots |-> NoJob]]
    /\ late' = [s \in Serials |-> {}]
    /\ pub' = [p \in Publishers |-> Nil]
    /\ dpms' = Nil
    /\ told' = [s \in Serials |-> FALSE]
    /\ activeSerials' = {}
    /\ phase' = "stopped"
    /\ stale' = FALSE
    /\ behind' = [s \in Serials |-> FALSE]
    /\ UNCHANGED <<up, plugged, screen, app, tunnel, noAppControl, ctxDone, closing, lateLaunch, failed>>

\* wg.Wait is over and Start returns; the other goroutines and the engine's
\* state end with the process.
Exit ==
    /\ exit = "closing"
    /\ \A s \in closing : jobs[s][0] = NoJob
    /\ exit' = "exited"
    /\ jobs' = [s \in Serials |-> [i \in Slots |-> NoJob]]
    /\ late' = [s \in Serials |-> {}]
    /\ pub' = [p \in Publishers |-> Nil]
    /\ dpms' = Nil
    /\ told' = [s \in Serials |-> FALSE]
    /\ activeSerials' = {}
    /\ phase' = "stopped"
    /\ stale' = FALSE
    /\ behind' = [s \in Serials |-> FALSE]
    /\ UNCHANGED <<up, plugged, screen, app, tunnel, noAppControl, ctxDone, closing, lateLaunch, failed>>

--------------------------------------------------------------------------------
World == ServerStop \/ ServerStart \/ Cancel \/ \E s \in Serials : Plug(s) \/ Unplug(s)

Tracking ==
    \/ StreamEstablished \/ StreamLost \/ TrackerStops
    \/ \E s \in Serials : HandleOnline(s) \/ HandleOffline(s)

Publish ==
    \E p \in Publishers : DpmsSpawn(p) \/ \E state \in {"on", "off"} : DpmsStore(p, state)

Work(s, i) == Dial(s, i) \/ Effect(s, i) \/ CommandFails(s, i)

Afterwards(s) == \E cmd \in late[s] : LateEffect(s, cmd)

Next ==
    \/ World \/ Tracking \/ Publish \/ CleanupDevices \/ Exit
    \/ \E s \in Serials, i \in Slots : Work(s, i)
    \/ \E s \in Serials : Afterwards(s)

Spec == Init /\ [][Next]_vars

\* Start and cleanup's goroutines run; their commands end by the deadline of
\* two seconds at the latest.
FairSpec ==
    /\ Spec
    /\ WF_vars(CleanupDevices) /\ WF_vars(Exit)
    /\ \A s \in Serials : WF_vars(Work(s, 0))

--------------------------------------------------------------------------------
(* Properties                                                              *)

Jobs ==
    [todo : UNION {[1..n -> Commands] : n \in 0..3}, at : {"dial", "sent", "broken"}, own : BOOLEAN]

(* The variables' types; goroutines are given ADB commands only.           *)
TypeOK ==
    /\ activeSerials \subseteq Serials
    /\ phase \in {"down", "up", "stopped"}
    /\ up \in BOOLEAN /\ stale \in BOOLEAN
    /\ plugged \in [Serials -> BOOLEAN]
    /\ behind \in [Serials -> BOOLEAN]
    /\ screen \in [Serials -> {"on", "off"}]
    /\ app \in [Serials -> BOOLEAN]
    /\ tunnel \in [Serials -> BOOLEAN]
    /\ \A s \in Serials : jobs[s] \in [Slots -> Jobs]
    /\ late \in [Serials -> SUBSET Commands]
    /\ dpms \in {"on", "off", Nil}
    /\ pub \in [Publishers -> {"on", "off", Nil}]
    /\ noAppControl \in BOOLEAN
    /\ ctxDone \in BOOLEAN
    /\ exit \in {"run", "closing", "exited"}
    /\ closing \subseteq Serials
    /\ told \in [Serials -> BOOLEAN]
    /\ lateLaunch \in [Serials -> BOOLEAN]
    /\ failed \in [Serials -> SUBSET {"reverse", "close"}]

(* specifications.md:173: a registered device has its reverse tunnel once  *)
(* its bootstraps are done, through unplugging, replugging and restarts of *)
(* the ADB server, unless the tunnel command failed.  While the loss of a  *)
(* server or device has not reached the tracker nothing is claimed.        *)
RegisteredHaveTunnel ==
    \A s \in activeSerials :
        ~Bootstrapping(s) /\ ~behind[s] /\ ~stale /\ up /\ "reverse" \notin failed[s]
            => tunnel[s]

(* On exit the companion app is closed on every device cleanupDevices      *)
(* found, unless the close command failed or a bootstrap that had dialled  *)
(* before the cancellation launched the app after it was closed.           *)
CleanupCloses ==
    exit = "exited" => \A s \in closing : app[s] => lateLaunch[s] \/ "close" \in failed[s]

(* engine.go:467: cleanupDevices "stops/kills the companion app on all     *)
(* active devices before exit".                                            *)
AppsClosedOnExit ==
    exit = "exited" => \A s \in closing : app[s] => "close" \in failed[s]

\* The latest DPMS state was acted on for s with nobody else at work on it, and
\* all work is done.
Commanded(s) == told[s] /\ Idle(s) /\ \A p \in Publishers : pub[p] = Nil

(* A DPMS command that finds nobody at work on a device decides the state  *)
(* of its screen, whatever the ADB server and the device do meanwhile.     *)
SoleCommandDecides == \A s \in Serials : Commanded(s) => screen[s] = dpms

(* design_document.md:228: with no_app_control the daemon neither wakes    *)
(* nor puts to sleep a screen and neither launches nor closes the app.     *)
AppControlBypassed ==
    noAppControl => \A s \in Serials :
        /\ screen[s] = "off" /\ ~app[s]
        /\ \A i \in Slots : \A n \in DOMAIN jobs[s][i].todo : jobs[s][i].todo[n] = "reverse"

(* Screens are under the display's control and nobody else's: an           *)
(* undisturbed DPMS command decides, and no_app_control keeps every        *)
(* command away.                                                           *)
ScreenControlled == SoleCommandDecides /\ AppControlBypassed

(* Shutdown ends, although devices may be unplugged and the ADB server may *)
(* be gone when cleanupDevices runs.                                       *)
ShutdownCompletes == ctxDone ~> exit = "exited"
================================================================================
