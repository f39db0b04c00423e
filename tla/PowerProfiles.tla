------------------------------ MODULE PowerProfiles ------------------------------
(***************************************************************************)
(* DbusPowerProfilesManager and runPowerProfilesMonitor: the host's power  *)
(* profile, from power-profiles-daemon to the clients and back.            *)
(*                                                                         *)
(* Start subscribes, reads the active profile and the list of profiles     *)
(* once, and then follows PropertiesChanged signals.  A client's request   *)
(* is checked against the list read at start, without a lock held while    *)
(* the service is called.  The loop closes eventsChan and forgets it in    *)
(* one critical section.                                                   *)
(***************************************************************************)
EXTENDS Integers, Sequences

CONSTANTS
    Profiles,     \* profiles the service may offer
    Clients,      \* goroutines that serve power profile requests
    Nil,          \* nothing read yet, no request
    EventsCap,    \* capacity of eventsChan, 10 in the code
    MaxChanges    \* bound on the changes of the active profile

PowerAssumption == EventsCap \in Nat /\ MaxChanges \in Nat

VARIABLES
    offered,        \* the service: profiles it offers
    active,         \* the service: its active profile
    changes,        \* number of changes so far
    signals,        \* ch: changes the loop has still to read
    loop,           \* Start and the signal loop
    profiles,       \* m.profiles
    activeProfile,  \* m.activeProfile
    eventsChan,     \* the profiles in m.eventsChan
    closed,         \* it is closed and m.eventsChan is nil
    lastPowerState, \* e.lastPowerState: what the clients have
    request,        \* the profile each client's goroutine is about to set
    connUp,         \* m.conn is open
    cancelled,      \* the context is done
    unread,         \* history: the service did not answer at start
    lost            \* history: the latest state found eventsChan full

serviceVars == <<offered, active, changes, signals>>
managerVars == <<loop, profiles, activeProfile, connUp, unread>>
chanVars == <<eventsChan, closed, lastPowerState, lost>>
vars == <<serviceVars, managerVars, chanVars, request, cancelled>>

Init ==
    /\ offered \in SUBSET Profiles \ {{}} /\ active \in offered
    /\ changes = 0 /\ signals = <<>>
    /\ loop = "start" /\ profiles = {} /\ activeProfile = Nil /\ connUp = TRUE
    /\ eventsChan = <<>> /\ closed = FALSE /\ lastPowerState = Nil
    /\ request = [c \in Clients |-> Nil]
    /\ cancelled = FALSE /\ unread = FALSE /\ lost = FALSE

--------------------------------------------------------------------------------
(* The service                                                             *)

Activate(p) ==
    /\ active' = p
    /\ signals' = IF loop = "start" THEN signals ELSE Append(signals, p)

\* The desktop switches the profile.
Switch(p) ==
    /\ changes < MaxChanges /\ p \in offered \ {active}
    /\ changes' = changes + 1
    /\ Activate(p)
    /\ UNCHANGED <<offered, managerVars, chanVars, request, cancelled>>

Cancel ==
    /\ ~cancelled
    /\ cancelled' = TRUE
    /\ UNCHANGED <<serviceVars, managerVars, chanVars, request>>

LoseBus ==
    /\ connUp
    /\ connUp' = FALSE
    /\ UNCHANGED <<serviceVars, loop, profiles, activeProfile, unread, chanVars, request, cancelled>>

--------------------------------------------------------------------------------
(* Start and the loop                                                      *)

\* broadcastState, under the read lock: nothing once the channel is gone.
BroadcastState(p) ==
    IF closed THEN UNCHANGED <<eventsChan, lost>>
    ELSE /\ lost' = (Len(eventsChan) >= EventsCap)
         /\ eventsChan' = IF lost' THEN eventsChan ELSE Append(eventsChan, p)

\* The match rule is in place before the properties are read.
Subscribe ==
    /\ loop = "start"
    /\ loop' = "readActive"
    /\ UNCHANGED <<serviceVars, profiles, activeProfile, connUp, unread, chanVars, request, cancelled>>

\* The rule is refused: Start returns the error and can be called again.
StartFails ==
    /\ loop = "start"
    /\ loop' = "failed"
    /\ UNCHANGED <<serviceVars, profiles, activeProfile, connUp, unread, chanVars, request, cancelled>>

\* fetchInitialState reads two properties; either call can fail.
FetchActive ==
    /\ loop = "readActive"
    /\ \/ connUp /\ activeProfile' = active /\ UNCHANGED unread
       \/ unread' = TRUE /\ UNCHANGED activeProfile
    /\ loop' = "readProfiles"
    /\ UNCHANGED <<serviceVars, profiles, connUp, chanVars, request, cancelled>>

FetchProfiles ==
    /\ loop = "readProfiles"
    /\ \/ connUp /\ profiles' = offered
       \/ profiles' = {}
    /\ loop' = "select"
    /\ BroadcastState(activeProfile)
    /\ UNCHANGED <<serviceVars, activeProfile, connUp, unread, closed, lastPowerState, request, cancelled>>

HandleDbusSignalSwapped ==
    /\ loop = "select" /\ signals # <<>>
    /\ signals' = Tail(signals)
    /\ BroadcastState(activeProfile)
    /\ activeProfile' = Head(signals)
    /\ UNCHANGED <<offered, active, changes, loop, profiles, connUp, unread, closed,
                   lastPowerState, request, cancelled>>

\* PropertiesChanged: store the profile and broadcast it.
HandleDbusSignal ==
    /\ loop = "select" /\ signals # <<>>
    /\ signals' = Tail(signals)
    /\ activeProfile' = Head(signals)
    /\ BroadcastState(activeProfile')
    /\ UNCHANGED <<offered, active, changes, loop, profiles, connUp, unread, closed,
                   lastPowerState, request, cancelled>>

\* The loop returns: eventsChan is closed and set to nil, the connection closed.
LoopReturns ==
    /\ loop = "select"
    /\ cancelled \/ (~connUp /\ signals = <<>>)
    /\ loop' = "done" /\ connUp' = FALSE
    /\ closed' = TRUE
    /\ UNCHANGED <<serviceVars, profiles, activeProfile, unread, eventsChan, lastPowerState, lost,
                   request, cancelled>>

\* runPowerProfilesMonitor caches the state before it broadcasts it.
Monitor ==
    /\ eventsChan # <<>>
    /\ lastPowerState' = Head(eventsChan)
    /\ eventsChan' = Tail(eventsChan)
    /\ UNCHANGED <<serviceVars, managerVars, closed, lost, request, cancelled>>

--------------------------------------------------------------------------------
(* Requests                                                                *)

\* SetPowerProfile validates the profile under the lock.
Validate(c, p) ==
    /\ request[c] = Nil
    /\ p \in profiles
    /\ request' = [request EXCEPT ![c] = p]
    /\ UNCHANGED <<serviceVars, managerVars, chanVars, cancelled>>

\* The call to the service, which may fail.
SetProperty(c) ==
    LET p == request[c] IN
    /\ p # Nil
    /\ request' = [request EXCEPT ![c] = Nil]
    /\ \/ /\ connUp /\ changes < MaxChanges /\ p \in offered \ {active}
          /\ changes' = changes + 1
          /\ Activate(p)
          /\ UNCHANGED offered
       \/ UNCHANGED serviceVars
    /\ UNCHANGED <<managerVars, chanVars, cancelled>>

--------------------------------------------------------------------------------
Next ==
    \/ \E p \in Profiles : Switch(p)
    \/ Cancel \/ LoseBus
    \/ StartFails \/ Subscribe \/ FetchActive \/ FetchProfiles \/ HandleDbusSignal \/ LoopReturns
    \/ Monitor
    \/ \E c \in Clients : SetProperty(c) \/ \E p \in Profiles : Validate(c, p)

Spec == Init /\ [][Next]_vars

--------------------------------------------------------------------------------
(* Properties                                                              *)

(* The variables' types; eventsChan never exceeds its capacity.            *)
TypeOK ==
    /\ offered \subseteq Profiles /\ active \in offered /\ changes \in 0..MaxChanges
    /\ signals \in Seq(Profiles)
    /\ profiles \subseteq Profiles /\ activeProfile \in Profiles \cup {Nil}
    /\ eventsChan \in Seq(Profiles \cup {Nil}) /\ Len(eventsChan) <= EventsCap
    /\ lastPowerState \in Profiles \cup {Nil}
    /\ request \in [Clients -> Profiles \cup {Nil}]

(* A switch during Start, between the subscription and the reading of the  *)
(* active profile, or by two requests at once, is neither lost nor undone: *)
(* with every signal handled and no event dropped, the clients have the    *)
(* service's profile, or none when it could not be read and never changed. *)
ClientsHaveProfile ==
    loop = "select" /\ signals = <<>> /\ eventsChan = <<>> /\ ~lost =>
        /\ lastPowerState = activeProfile
        /\ activeProfile = active \/ (activeProfile = Nil /\ unread)
================================================================================
