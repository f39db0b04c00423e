------------------------------ MODULE DesktopFeeds ------------------------------
(***************************************************************************)
(* The desktop's smaller event sources side by side: the notification      *)
(* feed, the power profiles manager, the artwork extraction, the DPMS      *)
(* manager, and the RPC streams on which events leave the daemon.          *)
(*                                                                         *)
(* They share no state, so a behaviour is one of one of them: part says    *)
(* which, the variables of the others stay Nil.  A variable two of the     *)
(* modules have in common belongs to whichever part it is.                 *)
(***************************************************************************)
EXTENDS Integers, Sequences

CONSTANTS
    Notes, Source, Paths, Keys, EavesdropCap, OutCap,  \* notifications
    Profiles, Clients, EventsCap, MaxChanges,          \* power profiles
    Tracks, Key, Attempts, MaxSignals, MaxWrites,      \* artwork, which has Paths too
    Bus, MaxReports,                                   \* the DPMS manager's one bus
    Casters, Streams, MaxEvents, ChanCap,              \* event streams
    Nil

VARIABLES
    part,
    cancelled, closed, out, monitoring, panicked, loop, disk, cache, signals, lost, changes,
    sent, ch, busUp, job, icon, delivered, existed, discarded, pending,
    offered, active, profiles, activeProfile, eventsChan, lastPowerState, request, connUp, unread,
    writes, announced, pc, now, tries, art, trackArtCache, shown, covers,
    actual, sigChan, busOpen, running, isFirstEvent, lastState, received, reports, emitted, partial,
    serial, todo, locked, spc, subs, subCh, got, sentClosed

Feed == INSTANCE NotificationFeed
Power == INSTANCE PowerProfiles
Art == INSTANCE Artwork

Modes == 0..2

\* Standby, suspend and off are all off.
PowerSaveState(mode) == IF mode > 0 THEN "off" ELSE "on"

Buses == {Bus}
ModeState == [mode \in Modes |-> PowerSaveState(mode)]

Dpms == INSTANCE TransitionSource WITH Watchers <- Buses, Signals <- Modes, Meaning <- ModeState

Streaming == INSTANCE EventStreams

\* What each part assumes of its constants.
ASSUME FeedsAssumption ==
    /\ Feed!FeedAssumption /\ Power!PowerAssumption /\ Streaming!StreamsAssumption
    /\ OutCap \in Nat \ {0} /\ MaxReports \in Nat /\ Attempts \in Nat /\ Nil \notin {"on", "off"}

feedVars == <<sent, ch, busUp, job, icon, delivered, existed, discarded, pending>>
powerVars == <<offered, active, profiles, activeProfile, eventsChan, lastPowerState, request,
                connUp, unread>>
artVars == <<writes, announced, pc, now, tries, art, trackArtCache, shown, covers>>
dpmsVars == <<actual, sigChan, busOpen, running, isFirstEvent, lastState, received, reports,
               emitted, partial>>
streamVars == <<serial, todo, locked, spc, subs, subCh, got, sentClosed>>
vars == <<part, cancelled, closed, out, monitoring, panicked, loop, disk, cache, signals,
          lost, changes, feedVars, powerVars, artVars, dpmsVars, streamVars>>

\* A part's own variables while another one runs.
FeedIdle == sent = Nil /\ ch = Nil /\ busUp = Nil /\ job = Nil /\ icon = Nil /\ delivered = Nil /\
            existed = Nil /\ discarded = Nil /\ pending = Nil
PowerIdle == offered = Nil /\ active = Nil /\ profiles = Nil /\ activeProfile = Nil /\ eventsChan
             = Nil /\ lastPowerState = Nil /\ request = Nil /\ connUp = Nil /\ unread = Nil
ArtIdle == writes = Nil /\ announced = Nil /\ pc = Nil /\ now = Nil /\ tries = Nil /\ art = Nil /\
           trackArtCache = Nil /\ shown = Nil /\ covers = Nil
DpmsIdle == actual = Nil /\ sigChan = Nil /\ busOpen = Nil /\ running = Nil /\ isFirstEvent = Nil
            /\ lastState = Nil /\ received = Nil /\ reports = Nil /\ emitted = Nil /\ partial =
            Nil
StreamIdle == /\ serial = Nil /\ todo = Nil /\ locked = Nil /\ spc = Nil /\ subs = Nil /\ subCh = Nil
              /\ got = Nil /\ sentClosed = Nil

Init ==
    \/ /\ part = "notifications" /\ Feed!Init
       /\ PowerIdle /\ ArtIdle /\ DpmsIdle /\ StreamIdle
       /\ signals = Nil /\ lost = Nil /\ changes = Nil
    \/ /\ part = "power" /\ Power!Init
       /\ FeedIdle /\ ArtIdle /\ DpmsIdle /\ StreamIdle
       /\ out = Nil /\ monitoring = Nil /\ panicked = Nil /\ disk = Nil /\ cache = Nil
    \/ /\ part = "artwork" /\ Art!Init
       /\ FeedIdle /\ PowerIdle /\ DpmsIdle /\ StreamIdle
       /\ cancelled = Nil /\ closed = Nil /\ out = Nil /\ monitoring = Nil /\ panicked = Nil /\
          loop = Nil /\ lost = Nil /\ changes = Nil
    \/ /\ part = "dpms" /\ Dpms!Init
       /\ FeedIdle /\ PowerIdle /\ ArtIdle /\ StreamIdle
       /\ loop = Nil /\ disk = Nil /\ cache = Nil /\ signals = Nil
    \/ /\ part = "streams" /\ Streaming!Init
       /\ FeedIdle /\ PowerIdle /\ ArtIdle /\ DpmsIdle
       /\ cancelled = Nil /\ closed = Nil /\ out = Nil /\ monitoring = Nil /\ panicked = Nil /\
          loop = Nil /\ disk = Nil /\ cache = Nil /\ signals = Nil /\ lost = Nil /\ changes = Nil

Next ==
    \/ /\ part = "notifications" /\ Feed!Next
       /\ UNCHANGED <<part, signals, lost, changes, powerVars, artVars, dpmsVars, streamVars>>
    \/ /\ part = "power" /\ Power!Next
       /\ UNCHANGED <<part, out, monitoring, panicked, disk, cache, feedVars, artVars, dpmsVars,
                       streamVars>>
    \/ /\ part = "artwork" /\ Art!Next
       /\ UNCHANGED <<part, cancelled, closed, out, monitoring, panicked, loop, lost, changes,
                       feedVars, powerVars, dpmsVars, streamVars>>
    \/ /\ part = "dpms" /\ Dpms!Next
       /\ UNCHANGED <<part, loop, disk, cache, signals, feedVars, powerVars, artVars, streamVars>>
    \/ /\ part = "streams" /\ Streaming!Next
       /\ UNCHANGED <<part, cancelled, closed, out, monitoring, panicked, loop, disk, cache, signals, lost,
                       changes, feedVars, powerVars, artVars, dpmsVars>>

Spec == Init /\ [][Next]_vars

\* The fairness of the two parts that state liveness.
FairSpec ==
    /\ Spec
    /\ WF_(Feed!vars)(part = "notifications" /\ Feed!LoopStep)
    /\ WF_(Feed!vars)(part = "notifications" /\ Feed!MonitorStep)
    /\ \A n \in Notes : WF_(Feed!vars)(part = "notifications" /\ Feed!GoroutineStep(n))
    /\ \A b \in Casters : WF_(streamVars)(part = "streams" /\ Streaming!Casts(b))

--------------------------------------------------------------------------------
(* The types of each part's variables; in EventStreams also that nobody    *)
(* sends on a stream's closed channel.                                     *)
FeedsTypeOK ==
    /\ part = "notifications" => Feed!TypeOK
    /\ part = "power" => Power!TypeOK
    /\ part = "artwork" => Art!TypeOK
    /\ part = "dpms" => Dpms!TypeOK
    /\ part = "streams" => Streaming!TypeOK

(* NotificationFeed.NotificationsKept: no notification is lost or doubled  *)
(* between the bus, its goroutine, out and the clients but for those that  *)
(* met a full eavesdropping channel, and only goroutines under way when    *)
(* the loop closed out can send on it.                                     *)
NotificationsKept == part = "notifications" => Feed!NotificationsKept

(* NotificationFeed.OnlyIconsCached: IconExtractor.cache holds no failure  *)
(* and never wins over image data.                                         *)
OnlyIconsCached == part = "notifications" => Feed!OnlyIconsCached

(* NotificationFeed.AllDelivered: what the bus announced and the           *)
(* eavesdropping channel had room for reaches the clients while the daemon *)
(* runs.                                                                   *)
AllDelivered == []<>(part = "notifications" => Feed!NothingOwed)

(* PowerProfiles.ClientsHaveProfile: a switch during Start is not lost.    *)
ClientsHaveProfile == part = "power" => Power!ClientsHaveProfile

(* Artwork.ArtIsRight: the two caches never mix up tracks, and artwork     *)
(* known for a track is not taken away.                                    *)
ArtIsRight == Art!ArtIsRight

(* EventStreams.StreamsInOrder: order per source, no duplicates.           *)
StreamsInOrder == part = "streams" => Streaming!StreamsInOrder

(* EventStreams.BroadcastsEnd: stuck streams hold up no broadcast.         *)
BroadcastsEnd ==
    \A b \in Casters :
        (part = "streams" /\ Streaming!Casting(b)) ~> (part = "streams" /\ Streaming!CastOver(b))

(* TransitionSource.OnlyGenuine for the DPMS manager's one bus: repeated   *)
(* signals and different power-save modes of one state are no transitions. *)
OnlyGenuine == part = "dpms" => Dpms!OnlyGenuine
================================================================================
