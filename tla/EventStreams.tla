------------------------------ MODULE EventStreams ------------------------------
(***************************************************************************)
(* StreamTelemetry, StreamNotifications and StreamMediaState with their    *)
(* broadcasts: events without a cache on their way to RPC streams.         *)
(*                                                                         *)
(* A broadcast takes the subscribers' read lock, offers the event to every *)
(* channel without waiting and releases the lock; the engine's monitor and *)
(* command socket handlers may do so at the same time.  A stream enters    *)
(* and leaves the subscribers under the write lock, closing its channel as *)
(* it leaves.  Sending to the peer may take for ever.                      *)
(***************************************************************************)
EXTENDS Integers, Sequences

CONSTANTS
    Casters,    \* goroutines that broadcast
    Streams,    \* RPC streams
    MaxEvents,  \* bound on the events of each caster
    ChanCap     \* capacity of a subscriber's channel, 10 in the code

StreamsAssumption == MaxEvents \in Nat /\ ChanCap \in Nat

VARIABLES
    serial,    \* events each caster has begun to broadcast
    todo,      \* subscribers a broadcast has still to offer its event to
    locked,    \* casters that hold the read lock
    spc,       \* where each stream is
    subs,      \* the subscribers
    subCh,     \* their channels
    got,       \* the last event of each caster its peer was sent
    sentClosed \* history: somebody sent on a closed channel

vars == <<serial, todo, locked, spc, subs, subCh, got, sentClosed>>

Event(b) == <<b, serial[b]>>

Init ==
    /\ serial = [b \in Casters |-> 0] /\ todo = [b \in Casters |-> {}] /\ locked = {}
    /\ spc = [s \in Streams |-> "new"] /\ subs = {}
    /\ subCh = [s \in Streams |-> <<>>] /\ got = [s \in Streams |-> [b \in Casters |-> 0]]
    /\ sentClosed = FALSE

--------------------------------------------------------------------------------
BroadcastEvent(b) ==
    /\ b \notin locked /\ serial[b] < MaxEvents
    /\ serial' = [serial EXCEPT ![b] = @ + 1]
    /\ locked' = locked \cup {b}
    /\ todo' = [todo EXCEPT ![b] = subs]
    /\ UNCHANGED <<spc, subs, subCh, got, sentClosed>>

OfferWaits(b, s) ==
    /\ b \in locked /\ s \in todo[b]
    /\ Len(subCh[s]) < ChanCap
    /\ todo' = [todo EXCEPT ![b] = @ \ {s}]
    /\ subCh' = [subCh EXCEPT ![s] = Append(@, Event(b))]
    /\ UNCHANGED <<serial, locked, spc, subs, got, sentClosed>>

OfferReplacesFirst(b, s) ==
    /\ b \in locked /\ s \in todo[b]
    /\ todo' = [todo EXCEPT ![b] = @ \ {s}]
    /\ subCh' = [subCh EXCEPT ![s] = IF Len(@) < ChanCap THEN Append(@, Event(b)) ELSE [@ EXCEPT ![1] = Event(b)]]
    /\ UNCHANGED <<serial, locked, spc, subs, got, sentClosed>>

\* select with a default: a full channel loses the event.
Offer(b, s) ==
    /\ b \in locked /\ s \in todo[b]
    /\ todo' = [todo EXCEPT ![b] = @ \ {s}]
    /\ sentClosed' = (sentClosed \/ spc[s] = "gone")
    /\ subCh' = [subCh EXCEPT ![s] = IF Len(@) < ChanCap THEN Append(@, Event(b)) ELSE @]
    /\ UNCHANGED <<serial, locked, spc, subs, got>>

Unlock(b) ==
    /\ b \in locked /\ todo[b] = {}
    /\ locked' = locked \ {b}
    /\ UNCHANGED <<serial, todo, spc, subs, subCh, got, sentClosed>>

--------------------------------------------------------------------------------
Subscribe(s) ==
    /\ spc[s] = "new" /\ locked = {}
    /\ spc' = [spc EXCEPT ![s] = "on"]
    /\ subs' = subs \cup {s}
    /\ UNCHANGED <<serial, todo, locked, subCh, got, sentClosed>>

\* The next event is sent; the stream goes on, or ends with an error.
Send(s) ==
    /\ spc[s] = "on" /\ subCh[s] # <<>>
    /\ subCh' = [subCh EXCEPT ![s] = Tail(@)]
    /\ \/ got' = [got EXCEPT ![s][Head(subCh[s])[1]] = Head(subCh[s])[2]] /\ UNCHANGED spc
       \/ spc' = [spc EXCEPT ![s] = "leaving"] /\ UNCHANGED got
    /\ UNCHANGED <<serial, todo, locked, subs, sentClosed>>

\* The peer hangs up; its context is done.
HangUp(s) ==
    /\ spc[s] = "on"
    /\ spc' = [spc EXCEPT ![s] = "leaving"]
    /\ UNCHANGED <<serial, todo, locked, subs, subCh, got, sentClosed>>

UnsubscribeUnlocked(s) ==
    /\ spc[s] = "leaving"
    /\ spc' = [spc EXCEPT ![s] = "gone"]
    /\ subs' = subs \ {s}
    /\ UNCHANGED <<serial, todo, locked, subCh, got, sentClosed>>

\* delete and close under the write lock.
Unsubscribe(s) ==
    /\ spc[s] = "leaving" /\ locked = {}
    /\ spc' = [spc EXCEPT ![s] = "gone"]
    /\ subs' = subs \ {s}
    /\ UNCHANGED <<serial, todo, locked, subCh, got, sentClosed>>

--------------------------------------------------------------------------------
Casts(b) == (\E s \in Streams : Offer(b, s)) \/ Unlock(b)

Next ==
    \/ \E b \in Casters : BroadcastEvent(b) \/ Casts(b)
    \/ \E s \in Streams : Subscribe(s) \/ Send(s) \/ HangUp(s) \/ Unsubscribe(s)

\* A broadcast that has begun runs on; a stream may be stuck in Send.
Spec == Init /\ [][Next]_vars /\ \A b \in Casters : WF_vars(Casts(b))

--------------------------------------------------------------------------------
(* Properties                                                              *)

(* The variables' types; a channel never exceeds its capacity, and nobody  *)
(* sends on one that is closed.                                            *)
TypeOK ==
    /\ serial \in [Casters -> 0..MaxEvents] /\ locked \subseteq Casters
    /\ \A s \in Streams : Len(subCh[s]) <= ChanCap
    /\ spc \in [Streams -> {"new", "on", "leaving", "gone"}]
    /\ subs = {s \in Streams : spc[s] \in {"on", "leaving"}}
    /\ ~sentClosed

(* A stream gets the events of each source in their order and none twice,  *)
(* with several sources broadcasting at once and a channel that overflows. *)
StreamsInOrder ==
    \A s \in Streams :
        \A j \in DOMAIN subCh[s] :
            LET b == subCh[s][j][1] IN
            /\ subCh[s][j][2] > got[s][b]
            /\ \A i \in 1..(j - 1) : subCh[s][i][1] = b => subCh[s][i][2] < subCh[s][j][2]

Casting(b) == b \in locked
CastOver(b) == b \notin locked

(* A broadcast ends although streams may be stuck: neither a full channel  *)
(* nor a stream that waits to leave holds up the telemetry loop, the       *)
(* monitors or the command socket.                                         *)
BroadcastsEnd == \A b \in Casters : Casting(b) ~> CastOver(b)
================================================================================
