---------------------------- MODULE NotificationFeed ----------------------------
(***************************************************************************)
(* DbusNotificationManager.Start with IconExtractor, and the engine's      *)
(* runNotificationMonitor: desktop notifications on their way to clients.  *)
(*                                                                         *)
(* godbus puts the eavesdropped Notify calls into a bounded channel and    *)
(* discards those that find it full.  The loop reads them and starts one   *)
(* goroutine for each.  A goroutine looks for an icon tier by tier (image  *)
(* data in the hints, the app icon where it is a path, the path of an      *)
(* image-path hint, the application's themed icon) through a cache all     *)
(* goroutines share, and then hands the event to out: it waits for room,   *)
(* or gives up once the context is done.  The loop closes out when it      *)
(* returns and does not wait for the goroutines.                           *)
(***************************************************************************)
EXTENDS Integers, Sequences, SequencesExt

CONSTANTS
    Notes,     \* notifications
    Source,    \* for each: valid image data, app icon's path, image-path hint, app:icon key, themed icon's path
    Paths,     \* icon files
    Keys,      \* app:icon keys of themed icons
    Nil,       \* no path, no icon
    EavesdropCap, \* capacity of ch, 100 in the code
    OutCap     \* capacity of out, 50 in the code

\* A key is of one application and icon name, which lead to one file.
FeedAssumption ==
    /\ Source \in [Notes -> [hint : BOOLEAN, path : Paths \cup {Nil}, image : Paths \cup {Nil}, key : Keys,
                            theme : Paths \cup {Nil}]]
    /\ \A m, n \in Notes : Source[m].key = Source[n].key => Source[m].theme = Source[n].theme
    /\ Keys \cap (Paths \cup {Nil}) = {} /\ Nil \notin Paths
    /\ EavesdropCap \in Nat /\ OutCap \in Nat

VARIABLES
    sent,        \* Notify calls seen on the bus so far
    ch,          \* calls the loop has still to read
    busUp,       \* monitorConn is alive
    loop,        \* the loop is running
    job,         \* each notification's goroutine: the tier it is at
    icon,        \* the icon it has found
    disk,        \* the icon files that exist and are small enough
    cache,       \* IconExtractor.cache: paths and app:icon keys
    out,         \* events for the monitor
    closed,      \* out is closed
    delivered,   \* events the monitor has passed on
    monitoring,  \* the monitor is in its loop
    cancelled,   \* the context is done
    existed,     \* history: icon files that existed at some time
    discarded,   \* history: calls that found ch full
    pending,     \* history: goroutines under way when out was closed
    panicked     \* history: sends on the closed channel

vars == <<sent, ch, busUp, loop, job, icon, disk, cache, out, closed, delivered, monitoring,
          cancelled, existed, discarded, pending, panicked>>

Working == {"hints", "path", "readPath", "image", "readImage", "theme", "readTheme", "send"}

Init ==
    /\ sent = {} /\ ch = <<>> /\ busUp = TRUE /\ loop = TRUE
    /\ job = [n \in Notes |-> "none"] /\ icon = [n \in Notes |-> Nil]
    /\ disk \in SUBSET Paths /\ existed = disk /\ cache = {} /\ discarded = {}
    /\ out = <<>> /\ closed = FALSE /\ delivered = <<>> /\ monitoring = TRUE
    /\ cancelled = FALSE /\ pending = {} /\ panicked = {}

--------------------------------------------------------------------------------
(* The desktop                                                             *)

\* Another application calls Notify; godbus never waits for room in ch.
Notify(n) ==
    /\ busUp /\ n \notin sent
    /\ sent' = sent \cup {n}
    /\ IF Len(ch) < EavesdropCap THEN ch' = Append(ch, n) /\ UNCHANGED discarded
       ELSE discarded' = discarded \cup {n} /\ UNCHANGED ch
    /\ UNCHANGED <<busUp, loop, job, icon, disk, existed, cache, out, closed, delivered, monitoring,
                   cancelled, pending, panicked>>

\* An icon file is installed or removed.
ChangeFile(p) ==
    /\ disk' = IF p \in disk THEN disk \ {p} ELSE disk \cup {p}
    /\ existed' = existed \cup disk'
    /\ UNCHANGED <<discarded, sent, ch, busUp, loop, job, icon, cache, out, closed, delivered, monitoring,
                   cancelled, pending, panicked>>

LoseBus ==
    /\ busUp
    /\ busUp' = FALSE
    /\ UNCHANGED <<discarded, sent, ch, loop, job, icon, disk, existed, cache, out, closed, delivered, monitoring,
                   cancelled, pending, panicked>>

Cancel ==
    /\ ~cancelled
    /\ cancelled' = TRUE
    /\ UNCHANGED <<discarded, sent, ch, busUp, loop, job, icon, disk, existed, cache, out, closed, delivered,
                   monitoring, pending, panicked>>

--------------------------------------------------------------------------------
(* The loop                                                                *)

\* A call is parsed and gets a goroutine; select may prefer it to ctx.Done.
TakeCall ==
    /\ loop /\ ch # <<>>
    /\ ch' = Tail(ch)
    /\ job' = [job EXCEPT ![Head(ch)] = "hints"]
    /\ UNCHANGED <<discarded, sent, busUp, loop, icon, disk, existed, cache, out, closed, delivered, monitoring,
                   cancelled, pending, panicked>>

LoopReturns ==
    /\ loop
    /\ cancelled \/ (~busUp /\ ch = <<>>)
    /\ loop' = FALSE /\ busUp' = FALSE /\ closed' = TRUE
    /\ pending' = {n \in Notes : job[n] \in Working}
    /\ UNCHANGED <<discarded, sent, ch, job, icon, disk, existed, cache, out, delivered, monitoring, cancelled, panicked>>

--------------------------------------------------------------------------------
(* IconExtractor.Extract, a tier at a time                                 *)

\* The goroutine found an icon, goes on to another tier, or reads a file.
Found(n, i) == icon' = [icon EXCEPT ![n] = i] /\ job' = [job EXCEPT ![n] = "send"]
Goto(n, tier) == job' = [job EXCEPT ![n] = tier] /\ UNCHANGED icon

ExtractFromHints(n) ==
    /\ job[n] = "hints"
    /\ IF Source[n].hint THEN Found(n, n) ELSE Goto(n, "path")
    /\ UNCHANGED <<discarded, sent, ch, busUp, loop, disk, existed, cache, out, closed, delivered, monitoring,
                   cancelled, pending, panicked>>

\* The app icon where it is a path, then the path of a hint.
PathOf(n, tier) == IF tier = "path" THEN Source[n].path ELSE Source[n].image
ReadOf(tier) == IF tier = "path" THEN "readPath" ELSE "readImage"
After(tier) == IF tier = "path" THEN "image" ELSE "theme"

\* ExtractFromPath: the cache first.
ExtractFromPath(n, tier) ==
    LET p == PathOf(n, tier) IN
    /\ job[n] = tier
    /\ CASE p = Nil -> Goto(n, After(tier))
         [] p # Nil /\ p \in cache -> Found(n, p)
         [] OTHER -> Goto(n, ReadOf(tier))
    /\ UNCHANGED <<discarded, sent, ch, busUp, loop, disk, existed, cache, out, closed, delivered, monitoring,
                   cancelled, pending, panicked>>

ReadPathCachesMisses(n, tier) ==
    LET p == PathOf(n, tier) IN
    /\ job[n] = ReadOf(tier)
    /\ cache' = cache \cup {p}
    /\ IF p \in disk THEN Found(n, p) ELSE Goto(n, After(tier))
    /\ UNCHANGED <<discarded, sent, ch, busUp, loop, disk, existed, out, closed, delivered, monitoring, cancelled,
                   pending, panicked>>

\* A file that is missing, a directory or too large yields nothing.
ReadPath(n, tier) ==
    LET p == PathOf(n, tier) IN
    /\ job[n] = ReadOf(tier)
    /\ IF p \in disk THEN Found(n, p) /\ cache' = cache \cup {p} ELSE Goto(n, After(tier)) /\ UNCHANGED cache
    /\ UNCHANGED <<discarded, sent, ch, busUp, loop, disk, existed, out, closed, delivered, monitoring, cancelled,
                   pending, panicked>>

\* ExtractFromThemedName: its own cache key, then the file the desktop entry
\* or the icon theme leads to, through ExtractFromPath's cache again.
ExtractFromThemedName(n) ==
    LET p == Source[n].theme
        key == Source[n].key IN
    /\ job[n] = "theme"
    /\ CASE key \in cache -> Found(n, p) /\ UNCHANGED cache
         [] key \notin cache /\ p = Nil -> Found(n, Nil) /\ UNCHANGED cache
         [] key \notin cache /\ p # Nil /\ p \in cache -> Found(n, p) /\ cache' = cache \cup {key}
         [] OTHER -> Goto(n, "readTheme") /\ UNCHANGED cache
    /\ UNCHANGED <<discarded, sent, ch, busUp, loop, disk, existed, out, closed, delivered, monitoring, cancelled,
                   pending, panicked>>

ReadTheme(n) ==
    LET p == Source[n].theme IN
    /\ job[n] = "readTheme"
    /\ IF p \in disk THEN Found(n, p) /\ cache' = cache \cup {p, Source[n].key} ELSE Found(n, Nil) /\ UNCHANGED cache
    /\ UNCHANGED <<discarded, sent, ch, busUp, loop, disk, existed, out, closed, delivered, monitoring, cancelled,
                   pending, panicked>>

--------------------------------------------------------------------------------
(* Delivery                                                                *)

SendDrops(n) ==
    /\ job[n] = "send"
    /\ job' = [job EXCEPT ![n] = "done"]
    /\ out' = IF ~closed /\ Len(out) < OutCap THEN Append(out, n) ELSE out
    /\ panicked' = IF closed THEN panicked \cup {n} ELSE panicked
    /\ UNCHANGED <<discarded, sent, ch, busUp, loop, icon, disk, existed, cache, closed, delivered, monitoring,
                   cancelled, pending>>

\* The send waits for room; on a closed channel it panics.
Send(n) ==
    /\ job[n] = "send"
    /\ closed \/ Len(out) < OutCap
    /\ job' = [job EXCEPT ![n] = "done"]
    /\ out' = IF closed THEN out ELSE Append(out, n)
    /\ panicked' = IF closed THEN panicked \cup {n} ELSE panicked
    /\ UNCHANGED <<discarded, sent, ch, busUp, loop, icon, disk, existed, cache, closed, delivered, monitoring,
                   cancelled, pending>>

\* The other case of the select.
GiveUp(n) ==
    /\ job[n] = "send" /\ cancelled
    /\ job' = [job EXCEPT ![n] = "done"]
    /\ UNCHANGED <<discarded, sent, ch, busUp, loop, icon, disk, existed, cache, out, closed, delivered, monitoring,
                   cancelled, pending, panicked>>

\* runNotificationMonitor broadcasts the next event.
Deliver ==
    /\ monitoring /\ out # <<>>
    /\ out' = Tail(out)
    /\ delivered' = Append(delivered, Head(out))
    /\ UNCHANGED <<discarded, sent, ch, busUp, loop, job, icon, disk, existed, cache, closed, monitoring, cancelled,
                   pending, panicked>>

StopMonitorIdle ==
    /\ monitoring
    /\ cancelled \/ (loop /\ out = <<>> /\ delivered # <<>>)
    /\ monitoring' = FALSE
    /\ UNCHANGED <<discarded, sent, ch, busUp, loop, job, icon, disk, existed, cache, out, closed, delivered,
                   cancelled, pending, panicked>>

StopMonitor ==
    /\ monitoring
    /\ cancelled \/ (closed /\ out = <<>>)
    /\ monitoring' = FALSE
    /\ UNCHANGED <<discarded, sent, ch, busUp, loop, job, icon, disk, existed, cache, out, closed, delivered,
                   cancelled, pending, panicked>>

--------------------------------------------------------------------------------
Goroutine(n) ==
    \/ ExtractFromHints(n) \/ \E tier \in {"path", "image"} : ExtractFromPath(n, tier) \/ ReadPath(n, tier)
    \/ ExtractFromThemedName(n) \/ ReadTheme(n)
    \/ Send(n) \/ GiveUp(n)

Desktop == (\E n \in Notes : Notify(n)) \/ (\E p \in Paths : ChangeFile(p)) \/ LoseBus \/ Cancel

\* A panic ends the process.
Next ==
    /\ panicked = {}
    /\ Desktop \/ TakeCall \/ LoopReturns \/ Deliver \/ StopMonitor \/ \E n \in Notes : Goroutine(n)

LoopStep == panicked = {} /\ TakeCall
MonitorStep == panicked = {} /\ Deliver
GoroutineStep(n) == panicked = {} /\ Goroutine(n)

\* The loop, the goroutines and the monitor run; nothing is assumed of the desktop.
Spec ==
    /\ Init /\ [][Next]_vars
    /\ WF_vars(LoopStep) /\ WF_vars(MonitorStep) /\ \A n \in Notes : WF_vars(GoroutineStep(n))

--------------------------------------------------------------------------------
(* Properties                                                              *)

(* The variables' types; out never exceeds its capacity.                   *)
TypeOK ==
    /\ sent \subseteq Notes /\ discarded \subseteq sent /\ ch \in Seq(Notes) /\ loop \in BOOLEAN /\ busUp \in BOOLEAN
    /\ job \in [Notes -> Working \cup {"none", "done"}]
    /\ icon \in [Notes -> Notes \cup Paths \cup {Nil}]
    /\ disk \subseteq Paths /\ cache \subseteq Keys \cup Paths
    /\ out \in Seq(Notes) /\ Len(out) <= OutCap /\ delivered \in Seq(Notes)

\* Where an event can be; each notification is in exactly one of them.
InFlight(n) == <<n \in Notes \ sent, n \in discarded, Contains(ch, n), job[n] \in Working, Contains(out, n),
                 Contains(delivered, n)>>

(* Until the context is done, no notification is lost or doubled, however  *)
(* goroutines and a full out interleave: it waits on the bus, in a         *)
(* goroutine or in out, or the clients have it.  The one exception is a    *)
(* burst that fills the eavesdropping channel, where godbus discards what  *)
(* comes next before the loop has seen it.                                 *)
NoneLost ==
    ~cancelled /\ panicked = {} =>
        /\ \A n \in Notes : \E i \in 1..6 : InFlight(n)[i] /\ \A j \in 1..6 : InFlight(n)[j] => j = i
        /\ IsInjective(delivered \o out)

(* The shared cache never holds a failure: what it has, for a path or for  *)
(* a themed icon, was once read from a file, so an icon that is installed  *)
(* late is found by the next notification.  Image data, where there is     *)
(* any, wins over whatever the cache holds.                                *)
OnlyIconsCached ==
    /\ cache \cap Paths \subseteq existed
    /\ \A n \in Notes : Source[n].key \in cache => Source[n].theme \in cache
    /\ \A n \in Notes : Source[n].hint /\ job[n] \in {"send", "done"} => icon[n] = n

(* Only a goroutine that was under way when the loop closed out can send   *)
(* on the closed channel, which ends the process.                          *)
PanicsWerePending == panicked \subseteq pending

(* Once the loop could have seen it, a notification is lost only with the  *)
(* process, and the process only through the goroutines the closing of out *)
(* left behind.                                                            *)
NotificationsKept == NoneLost /\ PanicsWerePending

Announced(n) == n \in sent \ discarded
Reached(n) == Contains(delivered, n) \/ cancelled \/ closed \/ panicked # {}
NothingOwed == \A n \in Notes : Announced(n) => Reached(n)

(* Every notification that found room in the eavesdropping channel reaches *)
(* the clients, unless the context is done, the loop lost the bus, or the  *)
(* process has ended: there is always a later moment when nothing is owed. *)
AllDelivered == []<>NothingOwed
================================================================================
