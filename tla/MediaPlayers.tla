------------------------------ MODULE MediaPlayers ------------------------------
(***************************************************************************)
(* DbusMPRISManager: the media players on the session bus, as the daemon   *)
(* sees them, and runMPRISMonitor, which passes the list on.               *)
(*                                                                         *)
(* Start subscribes to the bus, registers the players that already run and *)
(* starts two goroutines: the signal loop, which registers, removes and    *)
(* updates players one signal at a time, and the poller, which refreshes   *)
(* the position of playing players.  Both change activePlayers under m.mu  *)
(* and then hand a snapshot to eventsChan without blocking.  D-Bus calls   *)
(* are made without the lock.  A bus name can pass from one connection     *)
(* straight to another, and a connection can hold two names.               *)
(***************************************************************************)
EXTENDS Integers, Sequences, FiniteSets

CONSTANTS
    Services,     \* well-known names under org.mpris.MediaPlayer2
    Owners,       \* unique names of connections
    Nil,          \* no owner, no player, nothing received
    EventsCap,    \* capacity of eventsChan, 50 in the code
    MaxSignals    \* bound on what the bus announces

Statuses == {"Playing", "Stopped"}
Positions == {"fetched", "polled"}   \* where the stored position comes from

\* A PlayerState with the service ownerToService keeps for its owner.
Players == [service : Services, status : Statuses, position : Positions]

ASSUME MediaAssumption ==
    /\ Nil \notin Owners \cup Services \cup Players
    /\ IsFiniteSet(Services)
    /\ EventsCap \in Nat \ {0}
    /\ MaxSignals \in Nat

VARIABLES
    nameOwner,      \* the bus: who holds each service name
    status,         \* the bus: playback status of each connection
    subscribed,     \* the match rules are in place
    signals,        \* ch: signals the loop has still to read
    announced,      \* number of signals so far
    busUp,          \* monitorConn is alive
    loop,           \* the goroutine of Start and its signal loop
    names,          \* bootstrap: names still to be registered
    work,           \* the registration in progress
    activePlayers,  \* m.activePlayers with m.ownerToService
    poller,         \* the polling goroutine
    toPoll,         \* playing players of this poll, with their service
    polled,         \* the owner whose position was just read
    updated,        \* a position was stored in this poll
    eventsChan,     \* m.eventsChan: the number of snapshots in it
    latest,         \* the last snapshot handed over: what the clients end with
    closed,         \* eventsChan is closed
    cancelled,      \* the context is done
    displaced,      \* history: owners that lost a name directly to another one
    released,       \* history: owners that gave up one of two names
    unread,         \* history: owners whose properties could not be read
    lost,           \* history: the latest snapshot found eventsChan full
    panicked        \* history: the goroutine that sent on a closed eventsChan

busVars == <<nameOwner, status, subscribed, signals, announced, busUp, displaced, released>>
loopVars == <<loop, names, work, unread>>
pollVars == <<poller, toPoll, polled, updated>>
chanVars == <<eventsChan, latest, lost, panicked>>
vars == <<busVars, loopVars, activePlayers, pollVars, chanVars, closed, cancelled>>

NoPlayers == [o \in Owners |-> Nil]

Registered == {o \in Owners : activePlayers[o] # Nil}

Holds(o) == {s \in Services : nameOwner[s] = o}

Init ==
    /\ nameOwner \in [Services -> Owners \cup {Nil}]
    /\ status \in [Owners -> Statuses]
    /\ \A o \in Owners : Holds(o) = {} => status[o] = "Stopped"
    /\ subscribed = FALSE /\ signals = <<>> /\ announced = 0 /\ busUp = TRUE
    /\ loop = "start" /\ names = {} /\ work = Nil
    /\ activePlayers = NoPlayers
    /\ poller = "off" /\ toPoll = {} /\ polled = Nil /\ updated = FALSE
    /\ eventsChan = 0 /\ latest = NoPlayers /\ closed = FALSE
    /\ cancelled = FALSE
    /\ displaced = {} /\ released = {} /\ unread = {} /\ lost = FALSE /\ panicked = Nil

--------------------------------------------------------------------------------
(* The session bus                                                         *)

Announce(sig) ==
    /\ busUp
    /\ announced < MaxSignals
    /\ announced' = announced + 1
    /\ signals' = IF subscribed THEN Append(signals, sig) ELSE signals

\* A name is taken, released or handed over.
ChangeOwner(s, new) ==
    LET old == nameOwner[s] IN
    /\ old # new
    /\ Announce([member |-> "NameOwnerChanged", service |-> s, old |-> old, new |-> new])
    /\ nameOwner' = [nameOwner EXCEPT ![s] = new]
    /\ displaced' = IF old # Nil /\ new # Nil THEN displaced \cup {old} ELSE displaced
    /\ released' = IF old # Nil /\ Cardinality(Holds(old)) > 1 THEN released \cup {old} ELSE released
    /\ UNCHANGED <<status, subscribed, busUp, loopVars, activePlayers, pollVars, chanVars, closed, cancelled>>

\* A player that holds a name starts or stops playing.
ChangeStatus(o, st) ==
    /\ Holds(o) # {} /\ status[o] # st
    /\ Announce([member |-> "PropertiesChanged", sender |-> o, status |-> st])
    /\ status' = [status EXCEPT ![o] = st]
    /\ UNCHANGED <<nameOwner, subscribed, busUp, displaced, released, loopVars, activePlayers,
                   pollVars, chanVars, closed, cancelled>>

\* The connection breaks: ch is closed, what it holds can still be read.
LoseBus ==
    /\ busUp
    /\ busUp' = FALSE
    /\ UNCHANGED <<nameOwner, status, subscribed, signals, announced, displaced, released, loopVars,
                   activePlayers, pollVars, chanVars, closed, cancelled>>

Cancel ==
    /\ ~cancelled
    /\ cancelled' = TRUE
    /\ UNCHANGED <<busVars, loopVars, activePlayers, pollVars, chanVars, closed>>

--------------------------------------------------------------------------------
(* Registration and snapshots                                              *)

\* broadcastState: snapshot and non-blocking send under the read lock.
BroadcastState(who) ==
    /\ lost' = (eventsChan = EventsCap)
    /\ eventsChan' = IF lost' THEN eventsChan ELSE eventsChan + 1
    /\ latest' = IF lost' THEN latest ELSE activePlayers
    /\ panicked' = IF closed THEN who ELSE Nil

\* fetchAndRegisterPlayer asks the service, whoever holds it by then, for its
\* properties; a call that fails, as it does when nobody holds the name,
\* leaves the defaults.
Fetch ==
    /\ loop \in {"bootFetch", "fetch"}
    /\ LET holder == nameOwner[work.service]
           Player(st) == [service |-> work.service, status |-> st, position |-> "fetched"] IN
       \/ /\ holder # Nil /\ busUp
          /\ work' = [owner |-> work.owner, player |-> Player(status[holder])]
          /\ unread' = unread \ {work.owner}
       \/ /\ work' = [owner |-> work.owner, player |-> Player("Stopped")]
          /\ unread' = unread \cup {work.owner}
    /\ loop' = IF loop = "bootFetch" THEN "bootStore" ELSE "store"
    /\ UNCHANGED <<busVars, names, activePlayers, pollVars, chanVars, closed, cancelled>>

Register ==
    /\ loop \in {"bootStore", "store"}
    /\ activePlayers' = [activePlayers EXCEPT ![work.owner] = work.player]
    /\ work' = Nil
    /\ loop' = IF loop = "bootStore" THEN "bootNext" ELSE "broadcast"
    /\ UNCHANGED <<busVars, names, unread, pollVars, chanVars, closed, cancelled>>

--------------------------------------------------------------------------------
(* Start                                                                   *)

\* No connection, or a match rule is refused: Start returns the error.
StartFails ==
    /\ loop = "start"
    /\ loop' = "failed"
    /\ UNCHANGED <<busVars, names, work, unread, activePlayers, pollVars, chanVars, closed, cancelled>>

\* AddMatch for both signals, before the names are listed.
Subscribe ==
    /\ loop = "start"
    /\ subscribed' = TRUE
    /\ loop' = "list"
    /\ UNCHANGED <<nameOwner, status, signals, announced, busUp, displaced, released, names, work, unread,
                   activePlayers, pollVars, chanVars, closed, cancelled>>

\* bootstrapActivePlayers: ListNames; it gives up when the call fails.
ListNames ==
    /\ loop = "list"
    /\ \/ names' = {s \in Services : nameOwner[s] # Nil} /\ loop' = "bootNext"
       \/ ~busUp /\ names' = {} /\ loop' = "started"
    /\ UNCHANGED <<busVars, work, unread, activePlayers, pollVars, chanVars, closed, cancelled>>

\* GetNameOwner for the next name; a name that is gone is skipped.
GetNameOwner(s) ==
    /\ loop = "bootNext" /\ s \in names
    /\ names' = names \ {s}
    /\ IF nameOwner[s] = Nil
       THEN UNCHANGED <<loop, work>>
       ELSE loop' = "bootFetch" /\ work' = [owner |-> nameOwner[s], service |-> s]
    /\ UNCHANGED <<busVars, unread, activePlayers, pollVars, chanVars, closed, cancelled>>

BootBroadcast ==
    /\ loop = "bootNext" /\ names = {}
    /\ BroadcastState("start")
    /\ loop' = "started"
    /\ UNCHANGED <<busVars, names, work, unread, activePlayers, pollVars, closed, cancelled>>

\* Start launches both goroutines and returns.
Launch ==
    /\ loop = "started"
    /\ loop' = "select"
    /\ poller' = "select"
    /\ UNCHANGED <<busVars, names, work, unread, activePlayers, toPoll, polled, updated, chanVars, closed, cancelled>>

--------------------------------------------------------------------------------
(* The signal loop                                                         *)

OwnerChangedReplaces(sig) ==
    \/ /\ sig.old # Nil
       /\ activePlayers' = [activePlayers EXCEPT ![sig.old] = Nil]
       /\ loop' = "broadcast" /\ UNCHANGED work
    \/ /\ sig.old = Nil /\ sig.new # Nil
       /\ loop' = "fetch" /\ work' = [owner |-> sig.new, service |-> sig.service]
       /\ UNCHANGED activePlayers

\* NameOwnerChanged: a name without a new owner removes the old one, any
\* other change registers the new owner.
OwnerChanged(sig) ==
    \/ /\ sig.old # Nil /\ sig.new = Nil
       /\ activePlayers' = [activePlayers EXCEPT ![sig.old] = Nil]
       /\ loop' = "broadcast" /\ UNCHANGED work
    \/ /\ sig.new # Nil
       /\ loop' = "fetch" /\ work' = [owner |-> sig.new, service |-> sig.service]
       /\ UNCHANGED activePlayers

PropertiesChangedSilent(sig) ==
    /\ activePlayers' = IF activePlayers[sig.sender] = Nil THEN activePlayers
                        ELSE [activePlayers EXCEPT ![sig.sender].status = sig.status]
    /\ loop' = IF activePlayers[sig.sender] = Nil \/ sig.status = "Stopped" THEN "select" ELSE "broadcast"
    /\ UNCHANGED work

\* PropertiesChanged: by sender; one nobody registered is ignored.
PropertiesChanged(sig) ==
    /\ activePlayers' = IF activePlayers[sig.sender] = Nil THEN activePlayers
                        ELSE [activePlayers EXCEPT ![sig.sender].status = sig.status]
    /\ loop' = IF activePlayers[sig.sender] = Nil THEN "select" ELSE "broadcast"
    /\ UNCHANGED work

\* select takes a signal, also after cancellation, and handles it.
HandleDbusSignal ==
    /\ loop = "select" /\ signals # <<>>
    /\ signals' = Tail(signals)
    /\ LET sig == Head(signals) IN
       IF sig.member = "NameOwnerChanged" THEN OwnerChanged(sig) ELSE PropertiesChanged(sig)
    /\ UNCHANGED <<nameOwner, status, subscribed, announced, busUp, displaced, released, names,
                   unread, pollVars, chanVars, closed, cancelled>>

LoopBroadcast ==
    /\ loop = "broadcast"
    /\ BroadcastState("loop")
    /\ loop' = "select"
    /\ UNCHANGED <<busVars, names, work, unread, activePlayers, pollVars, closed, cancelled>>

LoopReturnsAtOnce ==
    /\ loop \in {"select", "broadcast"}
    /\ cancelled \/ (~busUp /\ signals = <<>>)
    /\ loop' = IF loop = "select" THEN "done" ELSE loop
    /\ closed' = TRUE
    /\ busUp' = FALSE
    /\ UNCHANGED <<nameOwner, status, subscribed, signals, announced, displaced, released, names,
                   work, unread, activePlayers, pollVars, chanVars, cancelled>>

\* The loop returns when the context is done or ch is closed; its deferred
\* calls close the connection and eventsChan.
LoopReturns ==
    /\ loop = "select"
    /\ cancelled \/ (~busUp /\ signals = <<>>)
    /\ loop' = "done"
    /\ closed' = TRUE
    /\ busUp' = FALSE
    /\ UNCHANGED <<nameOwner, status, subscribed, signals, announced, displaced, released, names,
                   work, unread, activePlayers, pollVars, chanVars, cancelled>>

--------------------------------------------------------------------------------
(* The poller                                                              *)

\* A tick: copy the playing players and their services under the lock.
PollCopy ==
    /\ poller = "select"
    /\ toPoll' = {<<o, activePlayers[o].service>> :
                     o \in {p \in Registered : activePlayers[p].status = "Playing"}}
    /\ toPoll' # {}
    /\ updated' = FALSE
    /\ poller' = "read"
    /\ UNCHANGED <<busVars, loopVars, activePlayers, polled, chanVars, closed, cancelled>>

\* Ask the next service, whoever holds it now, for its position; a call that
\* fails skips the player.
PollRead ==
    /\ poller = "read" /\ toPoll # {}
    /\ \E e \in toPoll :
         \/ /\ nameOwner[e[2]] # Nil
            /\ polled' = e[1]
            /\ poller' = "write" /\ toPoll' = toPoll \ {e}
         \/ toPoll' = toPoll \ {e} /\ UNCHANGED <<poller, polled>>
    /\ UNCHANGED <<busVars, loopVars, activePlayers, updated, chanVars, closed, cancelled>>

\* Store it, unless the player is gone.
PollWrite ==
    /\ poller = "write"
    /\ IF activePlayers[polled] = Nil
       THEN UNCHANGED <<activePlayers, updated>>
       ELSE /\ activePlayers' = [activePlayers EXCEPT ![polled].position = "polled"]
            /\ updated' = TRUE
    /\ polled' = Nil /\ poller' = "read"
    /\ UNCHANGED <<busVars, loopVars, toPoll, chanVars, closed, cancelled>>

\* End of the poll: a stored position is broadcast.
PollEnd ==
    /\ poller = "read" /\ toPoll = {}
    /\ IF updated THEN BroadcastState("poller") ELSE UNCHANGED chanVars
    /\ poller' = "select"
    /\ updated' = FALSE
    /\ UNCHANGED <<busVars, loopVars, activePlayers, toPoll, polled, closed, cancelled>>

PollerReturns ==
    /\ poller = "select" /\ cancelled
    /\ poller' = "done"
    /\ UNCHANGED <<busVars, loopVars, activePlayers, toPoll, polled, updated, chanVars, closed, cancelled>>

--------------------------------------------------------------------------------
\* runMPRISMonitor passes each list on to the clients.
Monitor ==
    /\ eventsChan > 0
    /\ eventsChan' = eventsChan - 1
    /\ UNCHANGED <<busVars, loopVars, activePlayers, pollVars, latest, lost, panicked, closed, cancelled>>

Bus ==
    \/ \E s \in Services, new \in Owners \cup {Nil} : ChangeOwner(s, new)
    \/ \E o \in Owners, st \in Statuses : ChangeStatus(o, st)
    \/ LoseBus
    \/ Cancel

Boot == StartFails \/ Subscribe \/ ListNames \/ (\E s \in Services : GetNameOwner(s)) \/ BootBroadcast
        \/ Launch

Loop == Fetch \/ Register \/ HandleDbusSignal \/ LoopBroadcast \/ LoopReturns

Poller == PollCopy \/ PollRead \/ PollWrite \/ PollEnd \/ PollerReturns

\* A panic ends the process.
Next == panicked = Nil /\ (Bus \/ Boot \/ Loop \/ Poller \/ Monitor)

Spec == Init /\ [][Next]_vars

--------------------------------------------------------------------------------
(* Properties                                                              *)

(* The variables' types; eventsChan never exceeds its capacity.            *)
TypeOK ==
    /\ nameOwner \in [Services -> Owners \cup {Nil}]
    /\ status \in [Owners -> Statuses]
    /\ activePlayers \in [Owners -> Players \cup {Nil}]
    /\ toPoll \subseteq Owners \X Services
    /\ eventsChan \in 0..EventsCap /\ latest \in [Owners -> Players \cup {Nil}]
    /\ announced \in 0..MaxSignals /\ names \subseteq Services
    /\ displaced \subseteq Owners /\ released \subseteq Owners
    /\ panicked \in {Nil, "start", "loop", "poller"}

\* The loop has nothing left to do: every signal is handled.
Settled == loop = "select" /\ signals = <<>>

(* Registration races nothing: the match rules precede the listing, D-Bus  *)
(* calls are made unlocked while names change hands, and still, once every *)
(* signal is handled, a player that holds a name is listed with the status *)
(* it has (if it could be read), and a listed player holds one.  The two   *)
(* exceptions are what handleDbusSignal leaves out: an owner displaced by  *)
(* a direct handover is never removed, and one that gave up one of two     *)
(* names is removed whole.                                                 *)
PlayersSettle ==
    Settled /\ busUp =>
        \A o \in Owners :
            /\ o \in Registered => Holds(o) # {} \/ o \in displaced
            /\ Holds(o) # {} /\ o \notin released \cup displaced =>
                   o \in Registered /\ (o \notin unread => activePlayers[o].status = status[o])

(* Loop and poller both change the list and broadcast it after unlocking:  *)
(* unless the latest snapshot was dropped, or one of them is still on its  *)
(* way to broadcastState, the clients have or get the list as it is.       *)
ClientsGetLatest ==
    ~lost /\ loop = "select" /\ ~updated /\ panicked = Nil => latest = activePlayers

(* Only the poller can send on the closed eventsChan, which ends the       *)
(* process: the loop closes it itself, after its last broadcast.           *)
OnlyPollerPanics == panicked \in {Nil, "poller"}

(* With every variable in its type, eventsChan stays within its capacity,  *)
(* and a send after its close can only be the poller's.                    *)
EventsChanSafe == TypeOK /\ OnlyPollerPanics
================================================================================
