------------------------------- MODULE AdbTracker -------------------------------
(***************************************************************************)
(* ADB device tracking: the reader goroutine of TrackDevices               *)
(* (pkg/adb/socket_client.go) and runADBTracker / trackADBDevices          *)
(* (pkg/daemon/engine.go).                                                 *)
(*                                                                         *)
(* The ADB server sends a complete device list on every change.  The       *)
(* reader compares each list with activeDevices and sends one event per    *)
(* difference on the bounded channel out; the tracker applies the events   *)
(* to activeSerials.  When the stream ends the reader closes out, the      *)
(* tracker receives what is still buffered, forgets every serial and dials *)
(* again after a delay that doubles up to a maximum.                       *)
(***************************************************************************)
EXTENDS Integers, Sequences

CONSTANTS
    Serials,    \* device serial numbers
    OutCap,     \* capacity of the event channel, 10 in TrackDevices
    RetryMin,   \* e.adbRetryMin
    RetryMax,   \* e.adbRetryMax
    MaxFrames   \* bound: lists in flight on the TCP connection

ASSUME TrackerAssumption ==
    /\ OutCap \in Nat \ {0}
    /\ RetryMin \in Nat \ {0}
    /\ RetryMax \in Nat
    /\ RetryMin <= RetryMax
    /\ MaxFrames \in Nat \ {0}

VARIABLES
    server,         \* the ADB server is up and answers
    attached,       \* its device list: "device", another state, or not listed
    conn,           \* the tracking connection: "none", "open" or "broken"
    frames,         \* device lists sent and not yet read
    reader,         \* where the reader goroutine is
    cur,            \* the list the reader is working on
    todo,           \* serials it still has to look at
    activeDevices,  \* its activeDevices map
    sending,        \* the event it is sending, at most one
    out,            \* the event channel
    tracker,        \* where runADBTracker is
    activeSerials,  \* e.activeSerials
    backoff,        \* the delay before the next dial
    retries,        \* history: delays since the start or the last established stream
    ctxDone         \* the engine's context is cancelled

envVars == <<server, attached>>
connVars == <<conn, frames>>
readerVars == <<reader, cur, todo, activeDevices, sending>>
trackerVars == <<tracker, activeSerials, backoff, retries>>
vars == <<envVars, connVars, readerVars, out, trackerVars, ctxDone>>

DeviceStates == {"device", "offline", "absent"}
Lists == [Serials -> DeviceStates]
Events == [serial : Serials, online : BOOLEAN]

Online(s) == [serial |-> s, online |-> TRUE]
Offline(s) == [serial |-> s, online |-> FALSE]

NoDevices == [s \in Serials |-> "absent"]

Init ==
    /\ server \in BOOLEAN
    /\ attached = NoDevices
    /\ conn = "none"
    /\ frames = <<>>
    /\ reader = "none"
    /\ cur = NoDevices
    /\ todo = {}
    /\ activeDevices = {}
    /\ sending = <<>>
    /\ out = <<>>
    /\ tracker = "dial"
    /\ activeSerials = {}
    /\ backoff = RetryMin
    /\ retries = 0
    /\ ctxDone = FALSE

--------------------------------------------------------------------------------
(* The ADB server: it starts and dies, devices come, change state and go,  *)
(* and every change is sent as a new list over an open connection.         *)

DeviceChange(s, st) ==
    /\ server
    /\ attached[s] # st
    /\ attached' = [attached EXCEPT ![s] = st]
    /\ IF conn = "open"
       THEN Len(frames) < MaxFrames /\ frames' = Append(frames, attached')
       ELSE UNCHANGED frames
    /\ UNCHANGED <<server, conn, readerVars, out, trackerVars, ctxDone>>

ServerStart ==
    /\ ~server
    /\ server' = TRUE
    /\ UNCHANGED <<attached, connVars, readerVars, out, trackerVars, ctxDone>>

\* The server dies with its connections; a restarted one finds devices anew.
ServerStop ==
    /\ server
    /\ server' = FALSE
    /\ attached' = NoDevices
    /\ conn' = IF conn = "open" THEN "broken" ELSE conn
    /\ UNCHANGED <<frames, readerVars, out, trackerVars, ctxDone>>

\* The connection breaks, or what arrives on it is no list: its length is not
\* a number.  The server knows nothing of it.
ConnectionFails ==
    /\ conn = "open"
    /\ conn' = "broken"
    /\ UNCHANGED <<envVars, frames, readerVars, out, trackerVars, ctxDone>>

CancelContext ==
    /\ ~ctxDone
    /\ ctxDone' = TRUE
    /\ UNCHANGED <<envVars, connVars, readerVars, out, trackerVars>>

--------------------------------------------------------------------------------
(* The reader goroutine                                                    *)

\* Read one list: first the serials it names, in the order it names them.
ReadList ==
    /\ reader = "read"
    /\ frames # <<>>
    /\ cur' = Head(frames)
    /\ frames' = Tail(frames)
    /\ todo' = {s \in Serials : Head(frames)[s] # "absent"}
    /\ reader' = "lines"
    /\ UNCHANGED <<envVars, conn, activeDevices, sending, out, trackerVars, ctxDone>>

\* A read fails once the connection is broken or the cancelled context closed it.
ReadFails ==
    /\ reader = "read"
    /\ conn = "broken" \/ ctxDone
    /\ reader' = "closed"
    /\ UNCHANGED <<envVars, connVars, cur, todo, activeDevices, sending, out, trackerVars, ctxDone>>

\* activeDevices is updated, then the event sent.
Report(s, online) ==
    /\ activeDevices' = IF online THEN activeDevices \cup {s} ELSE activeDevices \ {s}
    /\ sending' = <<IF online THEN Online(s) ELSE Offline(s)>>

\* The send waits for room, and the reader with it.
Send ==
    /\ sending # <<>>
    /\ Len(out) < OutCap
    /\ out' = Append(out, Head(sending))
    /\ sending' = <<>>
    /\ UNCHANGED <<envVars, connVars, reader, cur, todo, activeDevices, trackerVars, ctxDone>>

ReadLine(s) ==
    /\ reader = "lines" /\ sending = <<>>
    /\ s \in todo
    /\ todo' = todo \ {s}
    /\ IF (cur[s] = "device") # (s \in activeDevices)
       THEN Report(s, cur[s] = "device")
       ELSE UNCHANGED <<activeDevices, sending>>
    /\ UNCHANGED <<envVars, connVars, reader, cur, out, trackerVars, ctxDone>>

\* Then the active serials the list does not have as "device".
LinesDone ==
    /\ reader = "lines" /\ sending = <<>>
    /\ todo = {}
    /\ todo' = {s \in activeDevices : cur[s] # "device"}
    /\ reader' = "missing"
    /\ UNCHANGED <<envVars, connVars, cur, activeDevices, sending, out, trackerVars, ctxDone>>

ReportMissingLost(s) ==
    /\ reader = "missing" /\ sending = <<>>
    /\ s \in todo
    /\ todo' = todo \ {s}
    /\ activeDevices' = activeDevices \ {s}
    /\ UNCHANGED <<envVars, connVars, reader, cur, sending, out, trackerVars, ctxDone>>

ReportMissing(s) ==
    /\ reader = "missing" /\ sending = <<>>
    /\ s \in todo
    /\ todo' = todo \ {s}
    /\ Report(s, FALSE)
    /\ UNCHANGED <<envVars, connVars, reader, cur, out, trackerVars, ctxDone>>

ListDone ==
    /\ reader = "missing" /\ sending = <<>>
    /\ todo = {}
    /\ reader' = "read"
    /\ UNCHANGED <<envVars, connVars, cur, todo, activeDevices, sending, out, trackerVars, ctxDone>>

--------------------------------------------------------------------------------
(* runADBTracker and trackADBDevices                                       *)

\* TrackDevices succeeds: a new stream, whose first list is the present one.
Established ==
    /\ tracker = "dial"
    /\ server /\ ~ctxDone
    /\ tracker' = "track"
    /\ conn' = "open"
    /\ frames' = <<attached>>
    /\ reader' = "read"
    /\ activeDevices' = {}
    /\ out' = <<>>
    /\ UNCHANGED <<envVars, cur, todo, sending, activeSerials, backoff, retries, ctxDone>>

\* After trackADBDevices returned and the context is alive: forget every
\* serial, restart the delays if there was a stream, and wait.
ForgetAndWaitKeepsDelay(connected) ==
    /\ tracker' = "wait"
    /\ activeSerials' = {}
    /\ retries' = IF connected THEN 0 ELSE retries
    /\ UNCHANGED backoff

ForgetAndWaitKeepsSerials(connected) ==
    /\ tracker' = "wait"
    /\ backoff' = IF connected THEN RetryMin ELSE backoff
    /\ retries' = IF connected THEN 0 ELSE retries
    /\ UNCHANGED activeSerials

ForgetAndWait(connected) ==
    /\ tracker' = "wait"
    /\ activeSerials' = {}
    /\ backoff' = IF connected THEN RetryMin ELSE backoff
    /\ retries' = IF connected THEN 0 ELSE retries

Stopped ==
    /\ ctxDone
    /\ tracker' = "stopped"
    /\ UNCHANGED <<activeSerials, backoff, retries>>

\* TrackDevices cannot dial or its handshake fails.
DialFailsGivesUp ==
    /\ tracker = "dial"
    /\ ~server \/ ctxDone
    /\ tracker' = "stopped"
    /\ UNCHANGED <<envVars, connVars, readerVars, out, activeSerials, backoff, retries, ctxDone>>

DialFails ==
    /\ tracker = "dial"
    /\ ~server \/ ctxDone
    /\ \/ ~ctxDone /\ ForgetAndWait(FALSE)
       \/ Stopped
    /\ UNCHANGED <<envVars, connVars, readerVars, out, ctxDone>>

\* Receive one event; an online one also starts a bootstrap goroutine.
HandleEvent ==
    /\ tracker = "track"
    /\ out # <<>>
    /\ out' = Tail(out)
    /\ activeSerials' = IF Head(out).online
                        THEN activeSerials \cup {Head(out).serial}
                        ELSE activeSerials \ {Head(out).serial}
    /\ UNCHANGED <<envVars, connVars, readerVars, tracker, backoff, retries, ctxDone>>

\* The closed channel is empty: the stream is over.
StreamEnds ==
    /\ tracker = "track"
    /\ out = <<>>
    /\ reader = "closed"
    /\ \/ ~ctxDone /\ ForgetAndWait(TRUE)
       \/ Stopped
    /\ conn' = "none"
    /\ frames' = <<>>
    /\ reader' = "none"
    /\ UNCHANGED <<envVars, cur, todo, activeDevices, sending, out, ctxDone>>

\* Either select of the tracker may take the cancelled context.
StopTracking ==
    /\ tracker \in {"track", "wait"}
    /\ Stopped
    /\ UNCHANGED <<envVars, connVars, readerVars, out, ctxDone>>

\* The delay is over; the next one is twice as long, up to the maximum.
WaitOver ==
    /\ tracker = "wait"
    /\ tracker' = "dial"
    /\ backoff' = IF backoff * 2 < RetryMax THEN backoff * 2 ELSE RetryMax
    /\ retries' = IF backoff = RetryMax THEN retries ELSE retries + 1
    /\ UNCHANGED <<envVars, connVars, readerVars, out, activeSerials, ctxDone>>

Reader ==
    \/ ReadList \/ ReadFails \/ Send \/ LinesDone \/ ListDone
    \/ \E s \in Serials : ReadLine(s) \/ ReportMissing(s)

Tracker ==
    \/ Established \/ DialFails \/ HandleEvent \/ StreamEnds \/ StopTracking \/ WaitOver

Environment ==
    \/ \E s \in Serials, st \in DeviceStates : DeviceChange(s, st)
    \/ ServerStart \/ ServerStop \/ ConnectionFails \/ CancelContext

Next == Reader \/ Tracker \/ Environment

Spec == Init /\ [][Next]_vars

\* Both goroutines keep running; nothing is assumed of the ADB server.
FairSpec == Spec /\ WF_vars(Reader) /\ WF_vars(Tracker)

--------------------------------------------------------------------------------
(* Properties                                                              *)

(* The variables' types; the event channel never exceeds its capacity and  *)
(* the delay stays between adbRetryMin and adbRetryMax.                    *)
TypeOK ==
    /\ server \in BOOLEAN
    /\ attached \in Lists
    /\ conn \in {"none", "open", "broken"}
    /\ frames \in Seq(Lists)
    /\ reader \in {"none", "read", "lines", "missing", "closed"}
    /\ cur \in Lists
    /\ todo \subseteq Serials
    /\ activeDevices \subseteq Serials
    /\ sending = <<>> \/ \E e \in Events : sending = <<e>>
    /\ out \in Seq(Events)
    /\ Len(out) <= OutCap
    /\ tracker \in {"dial", "track", "wait", "stopped"}
    /\ activeSerials \subseteq Serials
    /\ backoff \in RetryMin..RetryMax
    /\ retries \in Nat
    /\ ctxDone \in BOOLEAN

\* Serial s is in a set that starts as base, once the first k events of q are handled.
After(q, base, k, s) ==
    IF \E i \in 1..k : q[i].serial = s
    THEN \E i \in 1..k : /\ q[i].serial = s
                         /\ q[i].online
                         /\ \A j \in (i + 1)..k : q[j].serial # s
    ELSE s \in base

\* The events on their way: those in the channel and the one being sent.
Pending == IF sending = <<>> THEN out ELSE Append(out, Head(sending))

(* The two goroutines never disagree: while a stream is tracked, handling  *)
(* the events still on their way would make activeSerials equal to the     *)
(* reader's activeDevices, whatever lists arrived and however long a full  *)
(* channel holds the reader up.                                            *)
PendingEventsAgree ==
    tracker = "track" =>
        \A s \in Serials : After(Pending, activeSerials, Len(Pending), s) <=> s \in activeDevices

(* Every event on its way is a real change at the moment it will be        *)
(* handled: a device that is already registered is not bootstrapped a      *)
(* second time.                                                            *)
EveryEventIsAChange ==
    tracker = "track" => \A i \in 1..Len(Pending) :
        Pending[i].online <=> ~After(Pending, activeSerials, i - 1, Pending[i].serial)

(* The event channel keeps reader and tracker together: its events and the *)
(* one that waits for room, none of them idle, lead from the one's devices *)
(* to the other's.                                                         *)
EventsAgree == PendingEventsAgree /\ EveryEventIsAChange

\* 2^n, by recursion.
Doubled[n \in Nat] == IF n = 0 THEN 1 ELSE 2 * Doubled[n - 1]

(* The delay before the n-th dial since the start or since the last stream *)
(* was established doubles from adbRetryMin and stays at adbRetryMax.      *)
DelayDoubles ==
    backoff = IF RetryMin * Doubled[retries] < RetryMax THEN RetryMin * Doubled[retries] ELSE RetryMax

Registry == INSTANCE DeviceRegistry WITH
    phase <- CASE tracker = "track" -> "up"
               [] tracker = "stopped" -> "stopped"
               [] OTHER -> "down"

(* Tracking keeps the promise the engine relies on (DeviceRegistry).       *)
ImplementsRegistry == Registry!Spec

(* Tracking is never given up: once the ADB server stays up, streams no    *)
(* longer break and the device list stays the same, activeSerials becomes  *)
(* and stays that list's online devices, after any number of restarts,     *)
(* broken streams, lists and changes before.                               *)
TracksDevices ==
    <>[](server /\ ~ctxDone) /\ <>[][attached' = attached /\ ~ConnectionFails]_vars
        => <>[](activeSerials = {s \in Serials : attached[s] = "device"})
================================================================================
