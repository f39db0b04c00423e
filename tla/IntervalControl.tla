---------------------------- MODULE IntervalControl ----------------------------
(***************************************************************************)
(* Control of the telemetry polling interval (pkg/daemon/engine.go).       *)
(*                                                                         *)
(* Three kinds of goroutine change the interval: the read loop of every    *)
(* WebSocket client ("config" frames, clamped), every StreamTelemetry RPC  *)
(* (its positive interval_ms, not clamped) and the session lock monitor.   *)
(* A writer stores e.interval under intervalMu and afterwards, without the *)
(* mutex, offers the value on resetChan with three non-blocking selects.   *)
(* runTelemetryLoop is the only receiver; it moves the value into its      *)
(* ticker whenever it is not busy collecting and broadcasting a sample.    *)
(***************************************************************************)
EXTENDS Integers, Sequences

CONSTANTS
    WsClients,              \* read loops of WebSocket clients
    RpcStreams,             \* StreamTelemetry handlers
    LockMonitor,            \* the runLockMonitor goroutine
    WsRequests,             \* interval_ms values of "config" frames
    RpcRequests,            \* interval_ms values of StreamTelemetry requests
    UpdateIntervalMS,       \* cfg.Daemon.UpdateIntervalMS
    LockedUpdateIntervalMS, \* cfg.Daemon.LockedUpdateIntervalMS
    MinIntervalMS,          \* 100 in connection_pool.go
    MaxIntervalMS,          \* 10000 in connection_pool.go
    ResetCap                \* capacity of resetChan, 5 in NewEngine

Writers == WsClients \cup RpcStreams \cup {LockMonitor}

(* Requests and the two configured intervals are arbitrary integers: the   *)
(* loader checks neither interval.                                         *)
ASSUME IntervalAssumption ==
    /\ WsRequests \subseteq Int
    /\ RpcRequests \subseteq Int
    /\ UpdateIntervalMS \in Int
    /\ LockedUpdateIntervalMS \in Int
    /\ MinIntervalMS \in Nat \ {0}
    /\ MaxIntervalMS \in Nat
    /\ MinIntervalMS <= MaxIntervalMS
    /\ ResetCap \in Nat \ {0}

VARIABLES
    interval,   \* e.interval
    resetChan,  \* e.resetChan
    ticker,     \* period of the loop's ticker, 0 before NewTicker
    loop,       \* where runTelemetryLoop is
    ctxDone,    \* the engine's context is cancelled
    pc,         \* where each writer is in its handler
    duration,   \* the value each writer is about to offer
    solo        \* history: the writers' calls since the last quiet moment did not overlap

vars == <<interval, resetChan, ticker, loop, ctxDone, pc, duration, solo>>
writerVars == <<interval, pc, duration, solo>>

--------------------------------------------------------------------------------
\* Go panics when a ticker is created or reset with a non-positive period.
LoopAfter(period) == IF period > 0 THEN "select" ELSE "panicked"

\* The boundary check of the "config" case in HandleClient.
Clamp(ms) ==
    IF ms < MinIntervalMS THEN MinIntervalMS
    ELSE IF ms > MaxIntervalMS THEN MaxIntervalMS ELSE ms

\* No writer is inside handleConfigChange or updateIntervalForLockState.
Quiescent == \A w \in Writers : pc[w] = "idle"

\* The value sent last among those still buffered.
Newest(q) == q[Len(q)]

\* The period the ticker will have once the loop has received what is buffered.
Effective ==
    IF resetChan # <<>> THEN Newest(resetChan)
    ELSE IF loop = "boot" THEN interval ELSE ticker

Init ==
    /\ interval = UpdateIntervalMS
    /\ resetChan = <<>>
    /\ ticker = 0
    /\ loop = "boot"
    /\ ctxDone = FALSE
    /\ pc = [w \in Writers |-> "idle"]
    /\ duration = [w \in Writers |-> UpdateIntervalMS]
    /\ solo = TRUE

--------------------------------------------------------------------------------
(* The writers                                                             *)

\* lock; e.interval = ms; unlock.  Common to both handlers.
StoreInterval(w, ms) ==
    /\ pc[w] = "idle"
    /\ interval' = ms
    /\ duration' = [duration EXCEPT ![w] = ms]
    /\ pc' = [pc EXCEPT ![w] = "send"]
    /\ solo' = Quiescent
    /\ UNCHANGED <<resetChan, ticker, loop, ctxDone>>

WsConfig(w, ms) == w \in WsClients /\ StoreInterval(w, Clamp(ms))

RpcStreamTelemetryUnguarded(w, ms) ==
    /\ w \in RpcStreams
    /\ StoreInterval(w, ms)

RpcStreamTelemetry(w, ms) ==
    /\ w \in RpcStreams
    /\ ms > 0
    /\ StoreInterval(w, ms)

LockInterval(l) == IF l THEN LockedUpdateIntervalMS ELSE UpdateIntervalMS

LockTransition(l) == StoreInterval(LockMonitor, LockInterval(l))

\* The outer select: send if there is room, otherwise go to the default branch.
TrySend(w) ==
    /\ pc[w] = "send"
    /\ \/ /\ Len(resetChan) < ResetCap
          /\ resetChan' = Append(resetChan, duration[w])
          /\ pc' = [pc EXCEPT ![w] = "idle"]
       \/ /\ Len(resetChan) >= ResetCap
          /\ pc' = [pc EXCEPT ![w] = "drain"]
          /\ UNCHANGED resetChan
    /\ UNCHANGED <<interval, ticker, loop, ctxDone, duration, solo>>

\* The second select: take out the oldest value, if there still is one.
DrainOneSkipped(w) ==
    /\ pc[w] = "drain"
    /\ pc' = [pc EXCEPT ![w] = "resend"]
    /\ UNCHANGED <<resetChan, interval, ticker, loop, ctxDone, duration, solo>>

DrainOne(w) ==
    /\ pc[w] = "drain"
    /\ resetChan' = IF resetChan # <<>> THEN Tail(resetChan) ELSE resetChan
    /\ pc' = [pc EXCEPT ![w] = "resend"]
    /\ UNCHANGED <<interval, ticker, loop, ctxDone, duration, solo>>

\* The third select: send if there is room, otherwise give the value up.
Resend(w) ==
    /\ pc[w] = "resend"
    /\ resetChan' = IF Len(resetChan) < ResetCap
                    THEN Append(resetChan, duration[w]) ELSE resetChan
    /\ pc' = [pc EXCEPT ![w] = "idle"]
    /\ UNCHANGED <<interval, ticker, loop, ctxDone, duration, solo>>

--------------------------------------------------------------------------------
(* runTelemetryLoop                                                        *)

\* Read e.interval and create the ticker.
StartTicker ==
    /\ loop = "boot"
    /\ ticker' = interval
    /\ loop' = LoopAfter(interval)
    /\ UNCHANGED <<resetChan, ctxDone, writerVars>>

ApplyResetIgnored ==
    /\ loop = "select"
    /\ resetChan # <<>>
    /\ resetChan' = Tail(resetChan)
    /\ UNCHANGED <<ticker, loop, ctxDone, writerVars>>

ApplyReset ==
    /\ loop = "select"
    /\ resetChan # <<>>
    /\ resetChan' = Tail(resetChan)
    /\ ticker' = Head(resetChan)
    /\ loop' = LoopAfter(Head(resetChan))
    /\ UNCHANGED <<ctxDone, writerVars>>

\* A tick: read every sensor and broadcast; resetChan is not received meanwhile.
Tick ==
    /\ loop = "select"
    /\ loop' = "collect"
    /\ UNCHANGED <<resetChan, ticker, ctxDone, writerVars>>

TickDone ==
    /\ loop = "collect"
    /\ loop' = "select"
    /\ UNCHANGED <<resetChan, ticker, ctxDone, writerVars>>

StopLoop ==
    /\ loop = "select"
    /\ ctxDone
    /\ loop' = "stopped"
    /\ UNCHANGED <<resetChan, ticker, ctxDone, writerVars>>

\* The engine's context ends: a signal, or an error of another goroutine.
CancelContext ==
    /\ ~ctxDone
    /\ ctxDone' = TRUE
    /\ UNCHANGED <<resetChan, ticker, loop, writerVars>>

Offer(w) == TrySend(w) \/ DrainOne(w) \/ Resend(w)

Loop == StartTicker \/ ApplyReset \/ Tick \/ TickDone \/ StopLoop

Next ==
    \/ \E w \in WsClients, ms \in WsRequests : WsConfig(w, ms)
    \/ \E w \in RpcStreams, ms \in RpcRequests : RpcStreamTelemetry(w, ms)
    \/ \E l \in BOOLEAN : LockTransition(l)
    \/ \E w \in Writers : Offer(w)
    \/ Loop
    \/ CancelContext

Spec == Init /\ [][Next]_vars

(* The goroutines keep running: a writer finishes its selects, the loop    *)
(* starts and finishes a sample (clients keep reading what is broadcast),  *)
(* and, since Go picks at random among the ready cases of a select, a      *)
(* buffered reset is not passed over for ever in favour of ticks.          *)
Fairness ==
    /\ \A w \in Writers : WF_vars(Offer(w))
    /\ WF_vars(StartTicker)
    /\ WF_vars(TickDone)
    /\ SF_vars(ApplyReset)

FairSpec == Spec /\ Fairness

--------------------------------------------------------------------------------
(* Properties                                                              *)

Periods == Int

(* The variables' types; resetChan never exceeds its capacity.             *)
TypeOK ==
    /\ interval \in Periods
    /\ resetChan \in Seq(Periods)
    /\ Len(resetChan) <= ResetCap
    /\ ticker \in Periods
    /\ loop \in {"boot", "select", "collect", "stopped", "panicked"}
    /\ ctxDone \in BOOLEAN
    /\ pc \in [Writers -> {"idle", "send", "drain", "resend"}]
    /\ duration \in [Writers -> Periods]
    /\ solo \in BOOLEAN

(* A change made while no other goroutine is inside a handler is never     *)
(* lost: once it has returned, what the loop will end up with is           *)
(* e.interval, whatever overlapping changes left in the channel before and *)
(* whatever the loop receives between the selects.                         *)
SoloWriterWins == Quiescent /\ solo => Effective = interval

(* time.NewTicker and Ticker.Reset panic on a non-positive period, which   *)
(* ends the daemon.  No interval a client asks for ever gets there, through*)
(* the clamp, the guard of the RPC and the channel: only a configured      *)
(* interval that is not positive, the locked one at the first lock, can.   *)
RequestsNeverPanic ==
    loop = "panicked" => ticker <= 0 /\ ticker \in {UpdateIntervalMS, LockedUpdateIntervalMS}

(* A change that did not overlap another one reaches the ticker, unless    *)
(* another change starts or the daemon ends.                               *)
ResetReachesTicker ==
    Quiescent /\ solo ~> (ticker = interval \/ ~Quiescent \/ ctxDone \/ loop = "panicked")
================================================================================
