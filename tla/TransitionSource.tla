---------------------------- MODULE TransitionSource ----------------------------
(***************************************************************************)
(* DbusLockManager and DbusDpmsManager: desktop signals in, deduplicated   *)
(* state transitions out.                                                  *)
(*                                                                         *)
(* One watcher goroutine per bus reads its signals; updateState, under the *)
(* manager's mutex, drops a state equal to the last one and hands a new    *)
(* one to a buffered channel without blocking.  The lock manager has two   *)
(* watchers (screen saver, logind), the DPMS manager one.  The channel is  *)
(* closed when every watcher has stopped; the engine's monitor reads it    *)
(* into its cache.  Signals the handlers ignore change nothing and are not *)
(* in the model.                                                           *)
(***************************************************************************)
EXTENDS Integers, Sequences

CONSTANTS
    Watchers,    \* buses with a live connection
    Signals,     \* what a bus can report
    Meaning,     \* the state each signal stands for
    Nil,         \* nothing received yet
    OutCap,      \* capacity of out, 50 in the code
    MaxReports   \* bound on the desktop's reports

States == {Meaning[s] : s \in Signals}

ASSUME SourceAssumption ==
    /\ Meaning \in [Signals -> States]
    /\ Nil \notin States
    /\ Watchers # {}
    /\ OutCap \in Nat \ {0}
    /\ MaxReports \in Nat

VARIABLES
    actual,        \* the desktop's state
    sigChan,       \* signals each watcher has still to read
    busOpen,       \* the bus connection of each watcher is up
    running,       \* the watcher is in its loop
    isFirstEvent,  \* m.isFirstEvent
    lastState,     \* m.lastState
    out,           \* the channel of transitions
    closed,        \* out is closed
    received,      \* the monitor's cache: e.lastLockState, e.lastDpmsState
    monitoring,    \* the monitor is in its loop
    cancelled,     \* the context is done
    reports,       \* number of reports so far
    changes,       \* history: how often the desktop's state changed
    emitted,       \* history: how many transitions were handed to out
    partial,       \* history: not every watcher was told of the latest report
    lost,          \* history: the latest transition found out full
    panicked       \* history: a send on the closed channel

deskVars == <<actual, busOpen, reports, changes, partial>>
managerVars == <<isFirstEvent, lastState, out, emitted, lost, panicked>>
monitorVars == <<received, monitoring>>
vars == <<deskVars, sigChan, running, managerVars, closed, monitorVars, cancelled>>

Init ==
    /\ actual \in States
    /\ sigChan = [w \in Watchers |-> <<>>]
    /\ busOpen = [w \in Watchers |-> TRUE]
    /\ running = [w \in Watchers |-> TRUE]
    /\ isFirstEvent = TRUE
    /\ lastState = Nil
    /\ out = <<>>
    /\ closed = FALSE
    /\ received = Nil
    /\ monitoring = TRUE
    /\ cancelled = FALSE
    /\ reports = 0 /\ changes = 0 /\ emitted = 0
    /\ partial = FALSE /\ lost = FALSE /\ panicked = FALSE

--------------------------------------------------------------------------------
(* The desktop and its buses                                               *)

\* The desktop reports a state, possibly the one it already had, on some of
\* the buses that are still up.
Report(s, told) ==
    /\ reports < MaxReports
    /\ \A w \in told : busOpen[w]
    /\ sigChan' = [w \in Watchers |-> IF w \in told THEN Append(sigChan[w], s) ELSE sigChan[w]]
    /\ actual' = Meaning[s]
    /\ changes' = IF Meaning[s] = actual THEN changes ELSE changes + 1
    /\ reports' = reports + 1
    /\ partial' = (told # Watchers)
    /\ UNCHANGED <<busOpen, running, managerVars, closed, monitorVars, cancelled>>

\* A lost bus closes the signal channel; what it holds can still be read.
LoseBus(w) ==
    /\ busOpen[w]
    /\ busOpen' = [busOpen EXCEPT ![w] = FALSE]
    /\ UNCHANGED <<actual, reports, changes, partial, sigChan, running, managerVars, closed,
                   monitorVars, cancelled>>

Cancel ==
    /\ ~cancelled
    /\ cancelled' = TRUE
    /\ UNCHANGED <<deskVars, sigChan, running, managerVars, closed, monitorVars>>

--------------------------------------------------------------------------------
(* The manager                                                             *)

UpdateStateUnchecked(v) ==
    /\ isFirstEvent' = FALSE
    /\ lastState' = v
    /\ out' = IF Len(out) < OutCap THEN Append(out, v) ELSE out
    /\ emitted' = IF Len(out) < OutCap THEN emitted + 1 ELSE emitted
    /\ lost' = (Len(out) >= OutCap)
    /\ panicked' = (panicked \/ closed)

UpdateStateForgets(v) ==
    IF isFirstEvent \/ lastState # v
    THEN /\ isFirstEvent' = FALSE
         /\ lastState' = IF isFirstEvent THEN v ELSE lastState
         /\ out' = IF Len(out) < OutCap THEN Append(out, v) ELSE out
         /\ emitted' = IF Len(out) < OutCap THEN emitted + 1 ELSE emitted
         /\ lost' = (Len(out) >= OutCap)
         /\ panicked' = (panicked \/ closed)
    ELSE UNCHANGED managerVars

\* updateState, whole under m.mu.
UpdateState(v) ==
    IF isFirstEvent \/ lastState # v
    THEN /\ isFirstEvent' = FALSE
         /\ lastState' = v
         /\ out' = IF Len(out) < OutCap THEN Append(out, v) ELSE out
         /\ emitted' = IF Len(out) < OutCap THEN emitted + 1 ELSE emitted
         /\ lost' = (Len(out) >= OutCap)
         /\ panicked' = (panicked \/ closed)
    ELSE UNCHANGED managerVars

\* A watcher reads one signal; select may still choose it after cancellation.
Watch(w) ==
    /\ running[w]
    /\ sigChan[w] # <<>>
    /\ sigChan' = [sigChan EXCEPT ![w] = Tail(@)]
    /\ UpdateState(Meaning[Head(sigChan[w])])
    /\ UNCHANGED <<deskVars, running, closed, monitorVars, cancelled>>

StopWatchingOnlyCancelled(w) ==
    /\ running[w]
    /\ cancelled
    /\ running' = [running EXCEPT ![w] = FALSE]
    /\ busOpen' = [busOpen EXCEPT ![w] = FALSE]
    /\ UNCHANGED <<actual, reports, changes, partial, sigChan, managerVars, closed, monitorVars,
                   cancelled>>

\* A watcher returns: the context is done, or its channel is closed and empty.
StopWatching(w) ==
    /\ running[w]
    /\ cancelled \/ (~busOpen[w] /\ sigChan[w] = <<>>)
    /\ running' = [running EXCEPT ![w] = FALSE]
    /\ busOpen' = [busOpen EXCEPT ![w] = FALSE]
    /\ UNCHANGED <<actual, reports, changes, partial, sigChan, managerVars, closed, monitorVars,
                   cancelled>>

\* The coordinator: wg.Wait, then close(out).
CloseOut ==
    /\ ~closed
    /\ \A w \in Watchers : ~running[w]
    /\ closed' = TRUE
    /\ UNCHANGED <<deskVars, sigChan, running, managerVars, monitorVars, cancelled>>

--------------------------------------------------------------------------------
(* The engine's monitor                                                    *)

Consume ==
    /\ monitoring
    /\ out # <<>>
    /\ received' = Head(out)
    /\ out' = Tail(out)
    /\ UNCHANGED <<deskVars, sigChan, running, isFirstEvent, lastState, emitted, lost, panicked,
                   closed, monitoring, cancelled>>

StopMonitor ==
    /\ monitoring
    /\ cancelled \/ (closed /\ out = <<>>)
    /\ monitoring' = FALSE
    /\ UNCHANGED <<deskVars, sigChan, running, managerVars, closed, received, cancelled>>

--------------------------------------------------------------------------------
Desktop ==
    \/ \E s \in Signals, told \in SUBSET Watchers : Report(s, told)
    \/ \E w \in Watchers : LoseBus(w)
    \/ Cancel

Manager == CloseOut \/ \E w \in Watchers : Watch(w) \/ StopWatching(w)

Monitor == Consume \/ StopMonitor

Next == Desktop \/ Manager \/ Monitor

Spec == Init /\ [][Next]_vars

\* The daemon's goroutines run; nothing is assumed of the desktop, and the
\* monitor may stay in a broadcast to a slow client for ever.
FairSpec ==
    /\ Spec
    /\ WF_vars(CloseOut)
    /\ \A w \in Watchers : WF_vars(StopWatching(w)) /\ WF_vars(Watch(w))

--------------------------------------------------------------------------------
(* Properties                                                              *)

(* The variables' types; out never holds more than its capacity.           *)
TypeOK ==
    /\ actual \in States
    /\ sigChan \in [Watchers -> Seq(Signals)]
    /\ busOpen \in [Watchers -> BOOLEAN]
    /\ running \in [Watchers -> BOOLEAN]
    /\ isFirstEvent \in BOOLEAN
    /\ lastState \in States \cup {Nil}
    /\ out \in Seq(States)
    /\ Len(out) <= OutCap
    /\ closed \in BOOLEAN
    /\ received \in States \cup {Nil}
    /\ monitoring \in BOOLEAN
    /\ cancelled \in BOOLEAN
    /\ reports \in 0..MaxReports /\ changes \in 0..reports /\ emitted \in Nat
    /\ partial \in BOOLEAN /\ lost \in BOOLEAN /\ panicked \in BOOLEAN

\* The state the monitor holds once it has read everything in out.
Latest == IF out = <<>> THEN received ELSE out[Len(out)]

(* Dedup remembers what was handed over: unless the latest transition was  *)
(* dropped because out was full, the monitor has, or will read last, the   *)
(* state the manager dedups against (lastState of updateState).            *)
HandedOverAgrees == ~lost => Latest = lastState

(* The two buses cannot leave the daemon with a stale state when each of   *)
(* them reports every change: once all signals are read and nothing was    *)
(* dropped, the monitor has or will read the desktop's state last, however *)
(* the watchers interleaved in updateState.                                *)
SettlesOnActual ==
    (\A w \in Watchers : sigChan[w] = <<>>) /\ ~partial /\ ~lost /\ reports > 0
        => Latest = actual

(* Nobody sends on out after the coordinator closed it, which would end    *)
(* the daemon, although watchers stop at different times.                  *)
NoSendOnClosed == ~panicked

(* What goes through out is right: unless something was dropped it ends    *)
(* with what the manager remembers and, once every bus has been read, with *)
(* the desktop's state; and it ends before out is closed.                  *)
OutIsSound == HandedOverAgrees /\ SettlesOnActual /\ NoSendOnClosed

(* specifications.md:492: an event reaches the clients only if "a genuine  *)
(* transition has occurred", so the manager emits no more events than the  *)
(* desktop had changes, plus the first report, which is always passed on.  *)
(* Holds for one watcher; with two, a lagging bus looks like a transition. *)
OnlyGenuine == emitted <= changes + 1

(* Cancellation, or the loss of every bus, closes out, so the monitor is   *)
(* not left reading a channel nobody will ever close.                      *)
OutIsClosed == (cancelled \/ \A w \in Watchers : ~busOpen[w]) ~> closed
================================================================================
