# TLA+ models of the PC Dashboard daemon

The daemon (`pkg/daemon`) collects host telemetry and desktop state and pushes
them to a companion app on Android devices: over WebSocket, over ConnectRPC
streams, and through ADB for tunnels, app launch and screen control. It is one
process with many goroutines, buffered channels and small mutexes. This
directory models the parts where those meet.

## Inventory

| Part | State | Operations | Talks to |
|---|---|---|---|
| Telemetry loop and interval control (`engine.go`) | `interval`, `resetChan`, the ticker | config frames, StreamTelemetry, lock transitions, ticks | pool, RPC server, metrics |
| Device tracking (`engine.go`, `adb/socket_client.go`) | `activeDevices`, event channel, `activeSerials`, retry delay | dial, read lists, handle events, retry | ADB server, bootstrap |
| Device bootstrap, screen, cleanup (`engine.go`) | per-device goroutines | wake, launch, reverse port, sleep, close | ADB server |
| System states (`engine.go`, `connection_pool.go`, `connectrpc/server.go`, `command_listener.go`) | `lastLockState`, `lastPowerState`, `lastDpmsState`, pool, subscriber channels | publish, connect, subscribe, leave | everyone |
| Lock and DPMS managers (`lock`, `dpms`) | `isFirstEvent`, `lastState`, `out` | read signals, dedup, close | D-Bus, monitors |
| MPRIS manager (`mpris`) | `activePlayers`, `ownerToService`, `eventsChan`, `trackArtCache`, the extractor's cache | bootstrap, signals, position polling, cover extraction, commands | D-Bus, monitor, handlers |
| Notification manager (`notifications`) | the send mutex, `out`, the icon cache | monitor Notify calls, extract icons, send | D-Bus, monitor, handlers |
| Power profiles manager (`power`) | `profiles`, `activeProfile`, `eventsChan` | read, follow, set | D-Bus, monitor, handlers |
| Inbound commands (`connection_pool.go`, `connectrpc/server.go`, `engine.go`) | read loops, handlers with two-second contexts | ping, action, notification, media and power requests | the managers, systemctl |
| Event streams (`connectrpc/server.go`) | subscriber channels | broadcast, subscribe, leave | telemetry loop, monitors, command socket |
| Command socket (`command_listener.go`, `cmd/trigger.go`) | the socket file, the listener | claim, accept, publish, release | other daemons, CLI |
| Metrics reader (`metrics/host_reader.go`) | previous counters, support flags | one read per tick | procfs, sysfs, nvidia-smi |
| Configuration and start (`config/loader.go`, `cmd/start.go`) | the layers and their result | load file, environment, flags; choose managers; bind | everyone |

What is hard: handlers store under a mutex and act after releasing it; every
channel is bounded and every send has its own policy (wait, drop the newest,
push the oldest out); the ADB server and the buses come and go; shutdown
cancels a context that each goroutine notices at its own time. `PROJECT.json`
lists each hazard at its line with the properties that cover it, or, where the
code lets it happen, with a note on which property names it as an exception.

What makes each part correct:

* interval control: the ticker ends up with `e.interval`; no request can panic it;
* device tracking: `activeSerials` follows the ADB server through restarts, and
  one arrival is one registration;
* bootstrap, screen and cleanup: registered devices have their tunnel, the app
  is closed on exit, screens follow the display;
* system states: clients and streams end with the cached state; no send on a
  closed channel; broken connections leave;
* lock and DPMS managers: they settle on the desktop's state, report only
  transitions, and close their channel once nobody can send;
* MPRIS, notifications, power, artwork: what the desktop has is what the clients
  get, once and in order, unless a full channel discards it; caches hold nothing
  wrong;
* inbound commands: every request is answered once, and truthfully unless its
  deadline passed, whatever the desktop does, and reaches the desktop clean;
* command socket: one daemon serves the path, stale files block nobody, and the
  trigger command's answer is true;
* metrics: figures stay in range over wraps, failed reads and cores that come and
  go, and flags say what was measured; where they do not, it is a named exception;
* configuration: the strongest layer wins; nothing leaves loopback.

## Modules

| Module | Role |
|---|---|
| `IntervalControl`, `MCIntervalControl`, `IntervalControlProofs` | interval writers, `resetChan`, telemetry loop |
| `DeviceRegistry` | abstract specification of what device tracking promises |
| `AdbTracker`, `MCAdbTracker`, `AdbTrackerProofs` | reader goroutine and tracker, implementing `DeviceRegistry` |
| `DeviceSession`, `MCDeviceSession`, `DeviceSessionProofs` | bootstrap, DPMS screen commands, cleanup and exit, on `DeviceRegistry`'s actions |
| `StateSync`, `MCStateSync`, `StateSyncProofs` | caches, pool broadcast, connect-time push, RPC subscribers |
| `TransitionSource`, `MCTransitionSource`, `TransitionSourceProofs` | bus watchers, dedup, event channel, monitor |
| `MediaPlayers`, `MCMediaPlayers`, `MediaPlayersProofs` | MPRIS player list, signal loop, poller, snapshots |
| `NotificationFeed` | Notify calls, a goroutine each, icon tiers and cache, monitor |
| `PowerProfiles` | active profile and list, signals, requests, monitor |
| `Artwork` | cover files, the two artwork caches, the extraction's retries |
| `EventStreams` | RPC streams of telemetry, notifications and media |
| `InboundCommands` | read loops, unary RPCs, handlers and their deadlines |
| `CommandSocket` | socket file, handlers, trigger command |
| `CpuCounters`, `Sensors` | the metrics reader's differences, and its sources and flags |
| `Configuration` | layers, managers, address, first ticker |
| `DesktopFeeds`, `MCDesktopFeeds`, `FeedsProofs` | `NotificationFeed`, `PowerProfiles`, `Artwork`, `TransitionSource` (DPMS) and `EventStreams` side by side |
| `DaemonEdges`, `MCDaemonEdges`, `EdgesProofs` | `Configuration`, `CommandSocket`, `CpuCounters`, `Sensors`, `InboundCommands` and `DeviceSession` (exit) side by side |

`DesktopFeeds` and `DaemonEdges` each hold several components that share no
state. A behaviour is one of exactly one of them: `part` is chosen initially and
never changes, the variables of the other parts stay `Nil`, and a property of a
part is stated as `part = "..." => ...`. This is the union of the components'
behaviours, so a run checks every part in full.

Several properties are conjunctions of named parts that read one promise
together: `EventsAgree`, `OutIsSound`, `SubscribersSafe`, `ScreenControlled`,
`EventsChanSafe`, `NotificationsKept`, `SocketIsOwned`, `StartsAsConfigured` and
`RequestsAnswered`. Each part has its own comment in its module.

An operator whose name extends that of the action defined right after it (such
as `DrainOneSkipped` before `DrainOne`) is that action with one plausible
mistake. `PROJECT.json` pairs each property with the mistake that breaks it.

### IntervalControl

A writer is the read loop of a WebSocket client (interval clamped to 100..10000
ms), a StreamTelemetry handler (any positive interval) or the lock monitor.
`handleConfigChange` and `updateIntervalForLockState` have the same shape:
store under the mutex (`StoreInterval`), then three non-blocking selects
(`TrySend`, `DrainOne`, `Resend`), one step each. The loop starts its ticker,
applies resets, and does not receive while it collects and broadcasts
(`Tick`..`TickDone`). `solo` is a history variable: the calls since the
last quiet moment did not overlap. Time is abstracted: only the value of the
period matters. A request during a locked session replaces the throttled
interval of `docs/specifications.md:498`: the code has no guard there, and
neither has the model. The two configured intervals are arbitrary integers, as
the loader checks neither: a locked interval of 0 panics the ticker at the first
lock, and `RequestsNeverPanic` says that no request can.

### AdbTracker and DeviceRegistry

The reader takes a list, sends one event per difference in the order of the
lines and then of the missing devices, and blocks when the channel is full:
`Report` updates `activeDevices` and leaves the event in `sending`, and `Send`
waits for room in a step of its own. A connection may also break by itself, or
carry a length that is no number (`ConnectionFails`), and end the reader while
the server lives on. The tracker handles events, notices the closed channel only when it is empty,
forgets every serial, waits and dials again. The ADB server (external) changes
devices, dies with its connections and restarts; `server` means up and
answering, so a rejected handshake is a server that is not up. `DeviceRegistry`
says what remains for the rest of the engine: serials come and go one by one
while a stream is up, all go when it is lost, and the set is frozen on shutdown.

### DeviceSession

Every goroutine that talks to a device is a list of commands, and each command
a dial, an effect on the device, or a failure that is only logged. A bootstrap
dials with the engine's context, DPMS and cleanup commands with their own; in
either case the context is consulted during the dial only. A command that was
sent and given up at its deadline stays in `late`: as long as server and device
stay, it may be carried out at any later time (`LateEffect`), after the commands
that followed it, and after cleanup. Registration steps
are `DeviceRegistry`'s actions, so the module stands on what `AdbTracker` is
proved to implement. Devices are plugged and unplugged and the ADB server
restarts at any time; `behind` and `stale` say that the tracker has not yet
been told. A DPMS publisher stores the cache and starts its goroutines in
separate steps. `told`, `lateLaunch` and `failed` are history variables that
name the excuses of the properties: `told` says that a DPMS command found nobody
at work on the device and nothing outstanding, and has not failed. `noAppControl` is chosen initially.

### StateSync

A publisher (a monitor or a command socket handler) stores the cache, copies
the pool, writes to each client of the copy, and then offers the value to every
subscriber under the read lock. A client joins the pool first and is then sent
each cache, read and write being separate steps; a stream subscribes first,
reads all caches, sends them, then turns to its channel. `crossed`, `raced` and
`dropped` are history variables that name the three ways a view can become
stale: two overlapping publications of one kind, a store between
`handleClientConnect`'s read and write, and a full subscriber channel. The
properties say that these are the only ones.

### TransitionSource

`Watchers` are the buses: two for the lock manager, one for DPMS. The desktop
(external) reports states on any subset of the live buses; `partial` remembers
that the latest report did not reach all of them. `UpdateState` is one step
because the code holds the mutex throughout; the channel send never blocks.
Signals that the handlers ignore are left out. `Meaning` is what a handler
makes of a signal: the identity for the lock signals, `PowerSaveState` (in
`DesktopFeeds`) for Mutter's modes. godbus delivers in order as long as its 50 slots suffice; the
model assumes that order.

### MediaPlayers

The bus (external) announces owners of names and properties of players; `Start`
installs its match rules, lists the names, asks for each owner and registers
it, one D-Bus call per step, while signals queue up. The signal loop and the
poller change `activePlayers` under the lock and broadcast a snapshot after
releasing it. `PropertiesChanged` handles the status; metadata is in `Artwork`.
`displaced` and `released` are history variables for what `handleDbusSignal`
does not do: the old owner of a direct handover stays listed, and an owner that
gives up one of two names is removed. `lost` says the latest snapshot met a
full channel. The poller's send on the channel the loop has closed ends the
process; `EventsChanSafe` says that nobody else can.

### NotificationFeed and Artwork

godbus puts the monitored calls into a channel of `EavesdropCap` slots and
discards what finds it full (`discarded`), before the loop has seen it.
A notification's goroutine tries image data, the application's icon where it is
a path, the path of an image-path hint and the themed icon, each file with the
shared cache before it; a read is a step of its own, so two goroutines can miss
together and files can change in between. Images are
abstracted to where they came from. `out` is closed by the loop without waiting
for the goroutines: `pending` remembers who was under way, and a goroutine that
finds both `select` cases ready picks either.
`Artwork` follows one signal at a time from the announcement over the attempts
to stat the cover to `trackArtCache`. Contents of a file say which track's
cover they are. `covers` collects the tracks whose cover a path ever was: the
extractor's cache is keyed by path only, so a player that reuses one file gives
a track the cover of another, which `ArtIsRight` excludes by name.

### PowerProfiles and EventStreams

`PowerProfiles` reads the two properties at start in separate steps, each of
which may fail (`unread`), then follows signals; the channel is closed and
forgotten under the mutex, so nobody sends on it. `EventStreams` is the
cacheless counterpart of `StateSync`'s subscribers: several broadcasters under
the read lock, channels that drop the newest event, and streams that leave
under the write lock whenever their peer is gone or stuck.

### InboundCommands

A caller is a client's read loop, with a script of frames, or a unary RPC. A
handler's `pc` goes from `read` over `lock` (notifications only), `send` and
`wait` to `respond`; `Expire` is its two-second context, which runs from the
start. A request in `posted` may be carried out, refused, carried out with the
reply lost (`BreakOff`: the service or the bus is gone and the handler gets an
error) or left for ever by the desktop, also after its caller has given up;
godbus sends nothing under a context that is already done. `unheard` remembers
the requests for which the desktop itself answered with an error although it had
carried them out. `late` in a reply marks the exception of
`RequestsAnswered`: an error after the deadline leaves open whether the request
will be carried out. The hints an RPC's notification carries, and the filter
`SendNotification` passes them through, are left out. Text is a sequence of bytes, volumes are hundredths plus
`NaN`. Config frames are in `IntervalControl`.

### CommandSocket

Two daemon processes start, serve, shut down or die at any step, on one path
that may hold a stale file. `overlap` remembers that both were starting or
stopping at the same time: the code takes no lock there, and `SocketIsOwned`
says that nothing else separates a serving daemon from the path. A handler decodes, stores, broadcasts to clients
and to streams, and answers; `done` lists what it has run, so a success says that the broadcasts
were run, and a full stream may still drop the event (`StateSync`,
`EventStreams`). `stuck` is a WebSocket peer that stops reading,
which holds up the handler, and with it the trigger command, for ever.

### CpuCounters and Sensors

`CpuCounters` keeps the arithmetic: percentages in integers, unsigned
differences modulo `Width`, counters that move, wrap and step back. Every core
has counters of its own, and cores come and go anywhere in the list. The reader
knows nothing but the list's length (`Matched`): after a core went and another
came, it subtracts counters of different cores. `ReportsAreSound` names that
(`Exchanged`) next to counters that went backwards. A behaviour follows one of
the `Workloads`: the ticks a host may have, the counters a new core may come
with, and whether the times of the host or of the cores are ever corrected.
`Sensors` keeps the provenance: a value is the set of files it was computed
from, so that a flag can be compared with what was measured. A file is absent,
garbled (there, but not parsed) or fine; the fields of nvidia-smi's answer are
files, so a field can be missing or no number. The code ignores such a field and
leaves its flag set over a zero, as it does with an energy counter that does not
parse: `Unparsed` is the exception of `FlagsMatchValues`. Files that stand
in for each other are varied together, the others are all there or all absent.
For `pp_dpm` tables the fields of the active line are modelled, because the
finding below is about them.

### Configuration

A layer maps some settings to values. One setting stands for each treatment:
`host`, `port` (number), `log_level` and `update_interval_ms`, the one whose
name has an underscore. A value of the wrong type fails the load. A section of
the file that is there and null takes the place of the defaults' section, which
is a layer that sets each of its settings to zero. The result is
compared with `Reference`, which looks the strongest layer up directly.

## Runs

| Run | Shows |
|---|---|
| `interval_control` | with three writers and a channel of two, a change that overlaps no other is never lost and reaches the ticker; no request makes it panic, a locked interval of 0 does |
| `adb_tracker` | reader and tracker agree, also while the reader waits for room; one registration per arrival, delays, the abstract registry, recovery |
| `state_sync_clients` | two kinds, their monitors and the command socket: a client shows the cached states outside the named races; a broken connection leaves the pool |
| `state_sync_streams` | two kinds on a one-slot subscriber channel: streams end with the cached state; no send on a closed channel |
| `lock_manager` | two buses settle on the desktop's state; the channel is closed when nobody can send, and always in the end |
| `device_session` | a registered device gets its tunnel through restarts and replugging; cleanup closes the app outside one named race; an undisturbed DPMS command decides the screen; `no_app_control`; commands given up may still be carried out |
| `device_exit` (violation) | a launch already sent follows cleanup's close, against the comment at `engine.go:467` |
| `media_players` | the list settles on the players that run outside two named cases; clients get the latest list unless it was dropped; only the poller can panic |
| `desktop_feeds` | notifications: none lost but in a full eavesdropping channel, none doubled, all others delivered, no failure cached, who can panic; power: a switch during start is not lost; artwork: own and kept, a bounded number of attempts; DPMS: no event without a transition (the lock manager cannot promise this: a lagging bus looks like a transition); streams: order, and no broadcast waits |
| `daemon_edges` | socket: one server at the path, stale files, true answers that arrive; counters: percentages, cores, power over gaps, wraps and hotplug; sensors: flags; both with named exceptions; configuration: precedence, loopback, who can panic; inbound: answers once and true, clean input, nobody held up; devices: shutdown ends |
| `gpu_clock` (violation) | the clock of a `pp_dpm` file is the active level's number, against `docs/specifications.md:96` |
| `env_names` (violation) | variables of settings with underscores set nothing, against the comment at `loader.go:97` |

Exceptions the passing runs name, where the code is weaker than its comments
and documents: two overlapping interval changes can leave the ticker with the
older one (`solo`; `engine.go:429-430` says "always gets the most recent
interval"); a client that connects during a publication can keep the older
state (`raced`; `docs/design_document.md:645`); the commands of two quick DPMS
events can swap on a device (`told` in `ScreenControlled`;
`docs/specifications.md:503`); two daemons that start together can both serve
(`overlap`); a burst of more than 100 notifications loses some (`discarded`); a
command the desktop carried out without a reply is reported as an error
(`unheard`); a launch or a screen command may follow its deadline (`lateLaunch`,
`told`); a core's usage can leave 0..100 after cores were exchanged
(`Exchanged`); a field of nvidia-smi that is no number counts as a supported zero
(`Unparsed`). Each of these properties is false without its exception.

Bounds. Every policy of a channel shows once it can be empty, partly filled and
full, which one or two slots give; the code's capacities (5, 10, 50) only delay
it. Two devices let events of different serials interleave; one list in flight
is enough because a full list also waits in the reader. Delays 1..3 reach the
maximum from a value whose double exceeds it. Requests lie below, in and above
the clamped range and at zero and below for RPC, and the locked interval is 0. Two values tell current from
stale; two kinds share a subscriber channel, and a client is sent one cache
after the other. Clients do not affect each other's views, so one is enough.
`MaxReports` bounds the desktop's reports: three let each bus lag behind by a
lock and an unlock.
`DeviceSession` runs with one device, since devices meet only in cleanup's wait,
and `MaxJobs` of two: two goroutines are enough to race, and a third finds both
slots taken; on exit, one goroutine besides cleanup's is enough to hold it up. `Lingering`
bounds the commands that may take effect late: a wake, which can undo a sleep,
and a launch, which can undo a close; in `daemon_edges` a close. The proofs leave
it open.
Two names and two connections give a handover and a connection with two names.
Three notifications compete for one slot: two of one application, so that one
can fill the cache for the other, and one with image data; an eavesdropping
channel of two discards the third if nothing was taken. Two tracks and two
cover files, written twice, let covers be late, rewritten, shared and missing.
Two broadcasters fill a stream's two slots with events of both. Two daemons and
one trigger command meet in every order; a third daemon would meet the same
file. Two cores let one go and another come; up to two busy ticks, one idle tick and an
energy counter that wraps at 2 reach regressions (usage over 100 included), zero
differences, several wraps and exchanged cores. Three workloads keep these apart:
a host that is corrected and uses energy, cores that are corrected, and cores with
loads of their own of which one is exchanged. An NVIDIA card's answer ends after
three, four, six or seven fields, with any of four fields no number. A client's two frames and one RPC contend for the mutex, expire and hang; the scripts
cover each kind of frame and the RPCs each kind of call, with and without an
error. `CHECK_DEADLOCK FALSE` is set where the system ends: after shutdown, or
when the bounded events are used up.

Fairness. `IntervalControl`: writers and loop run (weak), a sample ends because
clients read what is broadcast (weak `TickDone`; the pool has no write deadline,
so a client that stops reading voids this), and a ready reset is chosen
eventually because Go's select picks at random (strong `ApplyReset`).
`AdbTracker`: reader and tracker run; nothing is assumed of the server, and the
liveness property asks only what follows once it stays up and stops changing.
`StateSync`: HandleClient's goroutine runs. `TransitionSource`: watchers and
coordinator run; the monitor may hang in a broadcast for ever. `DeviceSession`:
cleanup and its goroutines run, and their commands end by the two-second
deadline at the latest; nothing is assumed of bootstraps. `NotificationFeed`:
loop, monitor and goroutines run, and clients read. `EventStreams`: only the broadcasters run;
peers may hang. `CommandSocket`: a daemon that was told to stop stops, and
handlers and trigger command run, the handler until a peer is `stuck`.
`InboundCommands`: read loops and handlers run and time passes; nothing is
assumed of the desktop. `MediaPlayers`, `PowerProfiles`, `Artwork`, `CpuCounters`,
`Sensors` and `Configuration` have safety properties only.

## Proofs

All theorems hold for every value of the constants allowed by the named
assumptions of each module. The assumption of a module that `DesktopFeeds` or
`DaemonEdges` instantiates is an operator (`SocketAssumption`,
`StreamsAssumption`, `PowerAssumption`, `FeedAssumption`, `InboundAssumption`,
`ConfigAssumption`, `CountersAssumption`, `SensorsAssumption`); `FeedsAssumption` and
`EdgesAssumption` assume them all, and TLC evaluates those two on every run of
the composed modules. Most of them say that capacities are numbers and that
`Nil` is no value. The others come from the code: `SyncAssumption` has at least
one kind and none twice, as `handleClientConnect` lists them; `FeedAssumption`
has one themed icon per application and icon name; `ConfigAssumption` lets flags
set only the port and the log level, and the file's interval be a number or not
parse; `CountersAssumption` has both counters wrap somewhere and workloads made of
ticks and times; `SensorsAssumption` has every file absent, garbled or fine; `InboundAssumption` has a text in every
notification but an RPC's, which may lack one, and a number (or NaN, or nothing)
as a media command's value.

`FeedsProofs` and `EdgesProofs` argue in two steps. A lemma whose name ends in
`Alone` proves the property of a component from its own `Init` and `Next`,
without fairness. A lemma whose name ends in `Part` says that the behaviours of
a part are behaviours of its component and that `part` never changes. Together
they give the theorem about `Spec` of the composed module, which is about the
very definition the run checks.

* `IntervalControlProofs`: `TypeCorrect`, `SoloWriterWinsAlways`,
  `RequestsNeverPanicAlways`. `SoloWriterWins` talks about quiet states only, so its
  inductive form says for the single writer under way what the channel looks
  like between the selects: after `TrySend` failed, only the loop can have made
  room, so after the drain there is room, and the writer's value goes last.
  `RequestsNeverPanic` needs every stored, pending and buffered period to be
  positive or one of the two configured intervals, whatever these are: the clamp
  and the RPC guard give it.
* `AdbTrackerProofs`: `TypeCorrect`, `PendingEventsAgreeAlways`,
  `EveryEventIsAChangeAlways`, together `EventsAgreeAlways`, `DelayDoublesAlways`
  and `TrackerImplementsRegistry`. `After` gives the
  effect of a prefix of the channel on one serial without recursion. The
  invariant adds that without a stream there is no serial and no reader, and
  that the reader reports as missing only devices it has as active and waits to
  send in the middle of a list only (`SendsWithinList`); what is on its way is the
  channel with the event that waits (`Pending`). Sending moves the event and leaves
  `Pending` as it is; handling the head and reporting preserve both properties, and every
  tracker step maps to a registry step or a stutter. The delays are compared with
  the recursive function `Doubled`; that it exists, one value for each natural,
  is `DoubledIs`.
* `TransitionSourceProofs`: `TypeCorrect`, `HandedOverAgreesAlways`,
  `SettlesOnActualAlways`, `NoSendOnClosedAlways`, together `OutIsSoundAlways`.
  The invariant adds that,
  when all buses were told of the latest report, every unread queue ends with
  the desktop's state, and that with nothing unread the manager remembers it:
  the watcher that reads the very last signal of all leaves the right state.
* `StateSyncProofs`: `SubscribersSafeAlways`, `ClientsCurrentAlways`,
  `StreamsCurrentAlways`. The last two talk about kinds nobody is publishing;
  the invariant says for all others what is still to come: a client that does
  not show the cached value is ahead of `handleClientConnect` or on the list of
  a publisher that carries that value (`ShownOrComing`), and the last value of a
  kind in a stream's channel, or the initial state where it has none, is the
  cached one or will be followed by it (`QueuedOrComing`, `BaseOrComing`).
  `SoleInv` ties publisher and cache together: without overlap there is one
  publisher of the kind, and it carries the cached value.
* `DeviceSessionProofs`: `SessionTypes`, `TunnelsKept`, `CleanupClosesAlways`,
  `ScreenControlledAlways`. The key is that a goroutine is one of five lists of
  commands at every moment, and that slot 0 is cleanup's alone (`JobsType`).
  Then a registered device without a tunnel has a bootstrap that still has the
  `reverse` command to do, or a named excuse; the app is closed from the end of
  cleanup's goroutine on; and while a lone DPMS command decides, whoever works
  on the device carries the same command and nothing is left in `late` (`SoleInv`);
  without app control only tunnels are ever late (`BypassInv`). A free slot exists because a set of
  naturals has a least element (`Least`, from well-foundedness).
* `MediaPlayersProofs`: `EventsChanSafeAlways`, `ClientsGetLatestAlways`,
  `PlayersSettleAlways`. The last needs, for the queue of signals, whether a
  removal of an owner comes after all its additions and which status is the last
  announced (`Ends`, `Lacks`, with lemmas for a queue that grows or loses its
  head): an owner without a name is unlisted or about to be removed
  (`NamelessGo`), one with a name is listed, being registered, or its addition
  is queued (`HoldersListed`), and its status is right or news of it are queued.
* `FeedsProofs`: `FeedsTypesAlways`, and by component
  `EventStreams` (`StreamsInOrderAlways`): a stream a broadcast has still to
  reach has nothing as new as its event.
  `PowerProfiles` (`ClientsHaveProfileAlways`): the newest signal is the active
  profile and the newest event the stored one.
  `NotificationFeed` (`NotificationsKeptAlways`, `OnlyIconsCachedAlways`): every
  notification is in exactly one of six places, among them those discarded from the
  full eavesdropping channel, and once in its queue.
  `Artwork` (`ArtIsRightAlways`, an action property): what is on disk, in either
  cache or on its way belongs to a track the path was announced for, and what is
  shown is what `trackArtCache` has.
  `TransitionSource` for DPMS (`OnlyGenuineAlways`): it counts transitions, so
  the invariant numbers every unread signal with the changes the desktop had
  made when it was reported. Signals that differ have different numbers, and
  what was emitted never exceeds the next signal's number. This needs the one
  bus: with two, one that lags behind looks like a transition.
* `EdgesProofs`, by component:
  `CommandSocket` (`SocketTypes`, `SocketIsOwnedAlways`, `AnswersAreTrueAlways`):
  without an overlap one daemon at a time is between its look at the path and
  its last write to it (`OneBusy`), so what it saw is still true when it acts
  (`PathAsSeen`). For answers, the effects of a handler are those before its
  program counter (`EffectsSoFar`).
  `InboundCommands` (`RequestsAnsweredAlways`): what each program counter knows
  of its request's fate (`HandlerKnows`), where a request the desktop carried out
  and answered with an error counts as not denied by that error (`Undenied` has all
  others), and replies numbered by requests.
  `HostInputCleanAlways` adds that whatever is on its way to the desktop, or
  about to be, was checked (`HostInv`), and rests on two theorems about
  `SanitizeHTML` for any text: `SanitizedHasNoTags` and, so that it is not the
  empty text that has none, `SanitizeKeepsPlainText`. The fold's function exists
  (`FoldExists`), and along it what was let out has no tag and what is held back
  starts with the bracket that opened it (`ScanInv`).
  `Configuration` (`StartsAsConfiguredAlways`): after each step of the start the
  merged settings are what the layers so far say.
  `Sensors` (`FlagsMatchValuesAlways`): each of `ReadGPU`'s three ways assigns
  every flag from what it read, but for NVIDIA's, which are set with the answer.
  `CpuCounters` (`ReportsAreSoundAlways`, an action property): a sample is not
  ahead of the counters, of the host or of any core of a list of the same length,
  unless one stepped back or cores were plugged (`SamplesBehind`), and the energy counter is no
  further from its sample than the energy used, through wraps.
  `EdgesTypesAlways` puts the types of all parts together. Three are more than
  types: a goroutine that has dialled has a command left (`SoundJobs`), whoever
  holds the mutex is at the desktop (`MutexHeld`), and a metric is computed from
  files there are.

Induction over data. The library's induction theorems are about a predicate and
out of the provers' reach; `SetInduction` is about a set of naturals that has 0
and every successor, and follows from the library's fact that the naturals are
well-founded. It gives the existence and the values of `Doubled` and of the
sanitizer's fold.

Only model-checked: the nine liveness properties (`ResetReachesTicker`,
`TracksDevices`, `BrokenConnectionsLeave`, `OutIsClosed`, `AllDelivered`,
`BroadcastsEnd`, `ClientsReturn`, `ShutdownCompletes`, `RequestsHandled`):
liveness under fairness is beyond this prover. Every safety property that a
passing run checks, the refinement included, is also proved. `TracksDevices` asks
for a server that stays up and streams that no longer break.

## Plan

1. (done) `IntervalControl`, `AdbTracker` over `DeviceRegistry`, `StateSync`,
   `TransitionSource`, `DeviceSession`.
2. (done) The managers of the desktop, the event streams, inbound commands, the
   command socket, the metrics reader and the configuration.
3. (done) Proofs of every safety property that a passing run checks.

## Not modelled

* The functions of `connectrpc/server.go` that map payloads to protocol
  messages, and payload contents in general: field by field copies.
* Decoding and scaling of images, the search order of icon directories, how
  MPRIS finds a player's display name: pure functions of files and strings.
* The HTTP server's start and shutdown, usage texts and logging set-up: library
  calls in sequence.
* The filter of hints in `SendNotification`: a lookup in a fixed list, key by key.
* The channels of D-Bus signals of the lock, DPMS, MPRIS and power managers are
  queues without a bound and in order. godbus hands signals to goroutines when
  they are full (50 or 100 slots), which loses none but their order. Monitored
  calls are different, and `NotificationFeed` discards them as godbus does.
* Characters: texts are bytes, so a cut inside a UTF-8 sequence is not seen.
* Mock managers emulate hardware for development. Protocol code is generated.
* Wall-clock time: deadlines and tickers are events that happen at any time.
