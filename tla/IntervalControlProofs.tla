------------------------- MODULE IntervalControlProofs -------------------------
(* Proofs about IntervalControl for any writers, requests and capacity.    *)
EXTENDS IntervalControl, TLAPS

(* The inductive strengthening of SoloWriterWins.  While only one call is  *)
(* in flight, its value is e.interval, and it reaches the third select     *)
(* only with room in the channel, because nobody else can refill it.       *)
SoloInFlight ==
    solo => \A w \in Writers : pc[w] # "idle" =>
        /\ duration[w] = interval
        /\ \A v \in Writers : pc[v] # "idle" => v = w
        /\ pc[w] = "resend" => Len(resetChan) < ResetCap

SoloInv == SoloInFlight /\ SoloWriterWins

(* Every value on its way to the ticker is positive or configured.         *)
Sane(ms) == ms > 0 \/ ms \in {UpdateIntervalMS, LockedUpdateIntervalMS}

SanePeriods ==
    /\ Sane(interval)
    /\ \A w \in Writers : Sane(duration[w])
    /\ \A i \in 1..Len(resetChan) : Sane(resetChan[i])

PanicInv == SanePeriods /\ RequestsNeverPanic

--------------------------------------------------------------------------------
(* What a FIFO channel keeps when a value is received or sent.             *)
LEMMA ChannelTail ==
    ASSUME NEW q \in Seq(Int), q # <<>>
    PROVE  /\ Tail(q) \in Seq(Int)
           /\ Head(q) \in Int
           /\ Len(Tail(q)) = Len(q) - 1
           /\ \A i \in 1..Len(Tail(q)) : Tail(q)[i] = q[i + 1]
           /\ Len(q) > 0
           /\ Head(q) = q[1]
           /\ Tail(q) # <<>> => Newest(Tail(q)) = Newest(q)
           /\ Tail(q) = <<>> => Newest(q) = Head(q)
<1>1. Len(q) \in Nat /\ Len(q) > 0 /\ Head(q) = q[1] /\ Head(q) \in Int
  OBVIOUS
<1>2. Tail(q) \in Seq(Int) /\ Len(Tail(q)) = Len(q) - 1
  OBVIOUS
<1>3. \A i \in 1..Len(Tail(q)) : Tail(q)[i] = q[i + 1]
  OBVIOUS
<1>4. Tail(q) # <<>> => Newest(Tail(q)) = Newest(q)
  <2> SUFFICES ASSUME Tail(q) # <<>> PROVE Tail(q)[Len(q) - 1] = q[Len(q)]
    BY <1>2 DEF Newest
  <2>1. Len(q) - 1 \in 1..Len(Tail(q))
    BY <1>1, <1>2
  <2> QED
    BY <1>1, <1>3, <2>1
<1>5. Tail(q) = <<>> => Newest(q) = Head(q)
  BY <1>1, <1>2 DEF Newest
<1> QED
  BY <1>1, <1>2, <1>3, <1>4, <1>5

(* Appending a period to a channel of periods.                             *)
LEMMA ChannelAppend ==
    ASSUME NEW q \in Seq(Int), NEW e \in Int
    PROVE  /\ Append(q, e) \in Seq(Int)
           /\ Append(q, e) # <<>>
           /\ Len(Append(q, e)) = Len(q) + 1
           /\ Newest(Append(q, e)) = e
           /\ \A i \in 1..Len(Append(q, e)) : Append(q, e)[i] = e \/ (i \in 1..Len(q) /\ Append(q, e)[i] = q[i])
  BY DEF Newest

(* The clamp returns an integer within its boundaries.                     *)
LEMMA ClampBounds ==
    ASSUME NEW ms \in Int
    PROVE  Clamp(ms) \in MinIntervalMS..MaxIntervalMS
  BY IntervalAssumption DEF Clamp

(* The lock monitor stores one of the two configured intervals.            *)
LEMMA LockIntervalConfigured ==
    ASSUME NEW l \in BOOLEAN
    PROVE  LockInterval(l) \in Int /\ Sane(LockInterval(l))
<1>1. CASE l = TRUE
  BY <1>1, IntervalAssumption DEF LockInterval, Sane
<1>2. CASE l = FALSE
  BY <1>2, IntervalAssumption DEF LockInterval, Sane
<1> QED
  BY <1>1, <1>2

--------------------------------------------------------------------------------
(* Type correctness of IntervalControl: in particular the writers never    *)
(* put more than ResetCap values into resetChan.                           *)
THEOREM TypeCorrect == Spec => []TypeOK
<1>1. Init => TypeOK
  <2> SUFFICES ASSUME Init PROVE TypeOK
    OBVIOUS
  <2>1. resetChan \in Seq(Periods) /\ Len(resetChan) <= ResetCap
    BY IntervalAssumption DEF Init
  <2>2. interval \in Periods /\ ticker \in Periods /\ duration \in [Writers -> Periods]
    BY IntervalAssumption DEF Init, Periods
  <2>3. ctxDone \in BOOLEAN /\ solo \in BOOLEAN
    BY DEF Init
  <2> QED
    BY <2>1, <2>2, <2>3 DEF Init, TypeOK
<1>2. TypeOK /\ [Next]_vars => TypeOK'
  <2> SUFFICES ASSUME TypeOK, [Next]_vars PROVE TypeOK'
    OBVIOUS
  <2> USE DEF TypeOK, Periods
  <2>1. ASSUME NEW w \in Writers, NEW ms \in Int, StoreInterval(w, ms)
        PROVE  TypeOK'
    BY <2>1 DEF StoreInterval, Quiescent
  <2>2. CASE \E w \in WsClients, ms \in WsRequests : WsConfig(w, ms)
    <3>1. PICK w \in WsClients, ms \in WsRequests : WsConfig(w, ms)
      BY <2>2
    <3>2. Clamp(ms) \in Int
      BY ClampBounds, IntervalAssumption
    <3> QED
      BY <2>1, <3>1, <3>2 DEF WsConfig, Writers
  <2>3. CASE \E w \in RpcStreams, ms \in RpcRequests : RpcStreamTelemetry(w, ms)
    BY <2>1, <2>3, IntervalAssumption DEF RpcStreamTelemetry, Writers
  <2>4. CASE \E l \in BOOLEAN : LockTransition(l)
    <3>1. PICK l \in BOOLEAN : LockTransition(l)
      BY <2>4
    <3> QED
      BY <2>1, <3>1, LockIntervalConfigured DEF LockTransition, Writers
  <2>5. ASSUME NEW w \in Writers, TrySend(w) PROVE TypeOK'
    <3>1. resetChan' \in Seq(Int) /\ Len(resetChan') <= ResetCap
      <4>1. duration[w] \in Int /\ Len(resetChan) \in Nat
        OBVIOUS
      <4>2. CASE Len(resetChan) < ResetCap
        <5>1. resetChan' = Append(resetChan, duration[w])
          BY <2>5, <4>1, <4>2, IntervalAssumption DEF TrySend
        <5>2. Append(resetChan, duration[w]) \in Seq(Int) /\ Len(Append(resetChan, duration[w])) = Len(resetChan) + 1
          BY <4>1, ChannelAppend
        <5> QED
          BY <4>1, <4>2, <5>1, <5>2, IntervalAssumption
      <4>3. CASE Len(resetChan) >= ResetCap
        BY <2>5, <4>1, <4>3, IntervalAssumption DEF TrySend
      <4> QED
        BY <4>1, <4>2, <4>3, IntervalAssumption
    <3> QED
      BY <2>5, <3>1 DEF TrySend
  <2>6. ASSUME NEW w \in Writers, DrainOne(w) PROVE TypeOK'
    <3>1. CASE resetChan = <<>>
      BY <2>6, <3>1 DEF DrainOne
    <3>2. CASE resetChan # <<>>
      <4>1. resetChan' \in Seq(Int) /\ Len(resetChan') <= ResetCap
        BY <2>6, <3>2, ChannelTail, IntervalAssumption DEF DrainOne
      <4> QED
        BY <2>6, <4>1 DEF DrainOne
    <3> QED
      BY <3>1, <3>2
  <2>7. ASSUME NEW w \in Writers, Resend(w) PROVE TypeOK'
    BY <2>7, IntervalAssumption, ChannelAppend DEF Resend
  <2>8. CASE Loop
    <3>1. CASE ApplyReset
      BY <3>1, ChannelTail, IntervalAssumption DEF ApplyReset, LoopAfter, writerVars
    <3>2. CASE StartTicker
      BY <3>2 DEF StartTicker, LoopAfter, writerVars
    <3> QED
      BY <2>8, <3>1, <3>2 DEF Loop, Tick, TickDone, StopLoop, writerVars
  <2>9. CASE CancelContext
    BY <2>9 DEF CancelContext, writerVars
  <2>10. CASE UNCHANGED vars
    BY <2>10 DEF vars
  <2> QED
    BY <2>2, <2>3, <2>4, <2>5, <2>6, <2>7, <2>8, <2>9, <2>10 DEF Next, Offer
<1> QED
  BY <1>1, <1>2, PTL DEF Spec

--------------------------------------------------------------------------------
(* For any set of writers and any capacity, a change of the interval that  *)
(* overlaps no other change decides what the ticker ends up with.          *)
THEOREM SoloWriterWinsAlways == Spec => []SoloWriterWins
<1>1. Init => SoloInv
  BY DEF Init, SoloInv, SoloInFlight, SoloWriterWins, Effective, Quiescent
<1>2. TypeOK /\ SoloInv /\ [Next]_vars => SoloInv'
  <2> SUFFICES ASSUME TypeOK, SoloInv, [Next]_vars PROVE SoloInv'
    OBVIOUS
  <2> USE DEF TypeOK, Periods
  <2>1. ASSUME NEW w \in Writers, NEW ms \in Int, StoreInterval(w, ms)
        PROVE  SoloInv'
    <3>1. pc'[w] = "send" /\ duration'[w] = interval'
      BY <2>1 DEF StoreInterval
    <3>2. SoloWriterWins'
      BY <3>1 DEF SoloWriterWins, Quiescent
    <3>3. ASSUME solo', NEW v \in Writers, pc'[v] # "idle" PROVE v = w
      BY <2>1, <3>3 DEF StoreInterval, Quiescent
    <3>4. SoloInFlight'
      BY <3>1, <3>3 DEF SoloInFlight
    <3> QED
      BY <3>2, <3>4 DEF SoloInv
  <2>2. CASE \E w \in WsClients, ms \in WsRequests : WsConfig(w, ms)
    <3>1. PICK w \in WsClients, ms \in WsRequests : WsConfig(w, ms)
      BY <2>2
    <3>2. Clamp(ms) \in Int
      BY ClampBounds, IntervalAssumption
    <3> QED
      BY <2>1, <3>1, <3>2 DEF WsConfig, Writers
  <2>3. CASE \E w \in RpcStreams, ms \in RpcRequests : RpcStreamTelemetry(w, ms)
    BY <2>1, <2>3, IntervalAssumption DEF RpcStreamTelemetry, Writers
  <2>4. CASE \E l \in BOOLEAN : LockTransition(l)
    <3>1. PICK l \in BOOLEAN : LockTransition(l)
      BY <2>4
    <3> QED
      BY <2>1, <3>1, LockIntervalConfigured DEF LockTransition, Writers
  \* A writer whose value went in leaves it as the newest one in the channel.
  <2>5. ASSUME NEW w \in Writers, pc[w] # "idle",
               resetChan' = Append(resetChan, duration[w]),
               pc' = [pc EXCEPT ![w] = "idle"],
               UNCHANGED <<interval, duration, solo>>
        PROVE  SoloInv'
    <3>1. resetChan' # <<>> /\ Newest(resetChan') = duration[w]
      <4>1. duration[w] \in Int
        OBVIOUS
      <4> QED
        BY <2>5, <4>1, ChannelAppend
    <3>2. SoloWriterWins'
      <4> SUFFICES ASSUME solo PROVE Effective' = interval
        BY <2>5 DEF SoloWriterWins
      <4>1. duration[w] = interval
        BY <2>5 DEF SoloInv, SoloInFlight
      <4> QED
        BY <3>1, <4>1 DEF Effective
    <3>3. ASSUME solo, NEW v \in Writers PROVE pc'[v] = "idle"
      BY <2>5, <3>3 DEF SoloInv, SoloInFlight
    <3>4. SoloInFlight'
      BY <2>5, <3>3 DEF SoloInFlight
    <3> QED
      BY <3>2, <3>4 DEF SoloInv
  \* A writer that goes on to another select is still in flight.
  <2>6. ASSUME NEW w \in Writers, pc[w] # "idle",
               \/ pc' = [pc EXCEPT ![w] = "drain"]
               \/ pc' = [pc EXCEPT ![w] = "resend"] /\ Len(resetChan') < ResetCap,
               UNCHANGED <<interval, duration, solo>>
        PROVE  SoloInv'
    <3>1. pc'[w] # "idle"
      BY <2>6
    <3>2. SoloWriterWins'
      BY <3>1 DEF SoloWriterWins, Quiescent
    <3>3. SoloInFlight'
      <4> SUFFICES ASSUME solo, NEW v \in Writers, pc'[v] # "idle"
                   PROVE  /\ duration[v] = interval
                          /\ \A u \in Writers : pc'[u] # "idle" => u = v
                          /\ pc'[v] = "resend" => Len(resetChan') < ResetCap
        BY <2>6 DEF SoloInFlight
      <4>1. \A u \in Writers : pc'[u] # "idle" => pc[u] # "idle"
        BY <2>6
      <4>2. v = w
        BY <2>6, <4>1 DEF SoloInv, SoloInFlight
      <4>3. pc'[v] = "resend" => Len(resetChan') < ResetCap
        BY <2>6, <4>2
      <4> QED
        BY <2>6, <4>1, <4>2, <4>3 DEF SoloInv, SoloInFlight
    <3> QED
      BY <3>2, <3>3 DEF SoloInv
  <2>7. ASSUME NEW w \in Writers, TrySend(w) PROVE SoloInv'
    BY <2>5, <2>6, <2>7 DEF TrySend
  <2>8. ASSUME NEW w \in Writers, DrainOne(w) PROVE SoloInv'
    <3>1. Len(resetChan') < ResetCap
      BY <2>8, ChannelTail, IntervalAssumption DEF DrainOne
    <3> QED
      BY <2>6, <2>8, <3>1 DEF DrainOne
  <2>9. ASSUME NEW w \in Writers, Resend(w) PROVE SoloInv'
    <3>1. CASE Len(resetChan) < ResetCap
      BY <2>5, <2>9, <3>1 DEF Resend
    <3>2. CASE ~(Len(resetChan) < ResetCap)
      <4>1. ~solo
        BY <2>9, <3>2 DEF Resend, SoloInv, SoloInFlight
      <4> QED
        BY <2>9, <4>1 DEF Resend, SoloInv, SoloInFlight, SoloWriterWins
    <3> QED
      BY <3>1, <3>2
  \* The receiver only makes room, and a value it takes last becomes the period.
  <2>10. ASSUME UNCHANGED writerVars, Len(resetChan') <= Len(resetChan), Effective' = Effective
         PROVE  SoloInv'
    <3>1. SoloInFlight'
      <4> SUFFICES ASSUME solo, NEW w \in Writers, pc[w] = "resend"
                   PROVE  Len(resetChan') < ResetCap
        BY <2>10 DEF SoloInFlight, SoloInv, writerVars
      <4>1. Len(resetChan) < ResetCap
        BY DEF SoloInv, SoloInFlight
      <4>2. Len(resetChan) \in Nat /\ Len(resetChan') \in Int
        <5>1. Len(resetChan) \in Nat
          OBVIOUS
        <5> QED
          BY <5>1
      <4> QED
        BY <2>10, <4>1, <4>2, IntervalAssumption
    <3>2. SoloWriterWins'
      BY <2>10 DEF SoloInv, SoloWriterWins, Quiescent, writerVars
    <3> QED
      BY <3>1, <3>2 DEF SoloInv
  <2>11. CASE Loop
    <3>1. CASE ApplyReset
      <4>1. /\ Len(resetChan') <= Len(resetChan)
            /\ Effective' = Effective
        <5>1. /\ resetChan # <<>> /\ resetChan' = Tail(resetChan)
              /\ ticker' = Head(resetChan) /\ loop' # "boot"
          BY <3>1 DEF ApplyReset, LoopAfter
        <5>2. Effective = Newest(resetChan)
          BY <5>1 DEF Effective
        <5>3. CASE resetChan' = <<>>
          BY <5>1, <5>2, <5>3, ChannelTail DEF Effective
        <5>4. CASE resetChan' # <<>>
          BY <5>1, <5>2, <5>4, ChannelTail DEF Effective
        <5>5. Len(resetChan) \in Nat /\ Len(resetChan') = Len(resetChan) - 1
          BY <5>1, ChannelTail
        <5> QED
          BY <5>3, <5>4, <5>5
      <4> QED
        BY <2>10, <3>1, <4>1 DEF ApplyReset
    <3>2. CASE StartTicker
      BY <2>10, <3>2 DEF StartTicker, Effective, LoopAfter, writerVars
    <3>3. CASE Tick \/ TickDone \/ StopLoop
      BY <2>10, <3>3 DEF Tick, TickDone, StopLoop, Effective
    <3> QED
      BY <2>11, <3>1, <3>2, <3>3 DEF Loop
  <2>12. CASE CancelContext \/ UNCHANGED vars
    <3>1. CASE CancelContext
      BY <2>10, <3>1 DEF CancelContext, Effective, writerVars
    <3>2. CASE UNCHANGED vars
      BY <2>10, <3>2 DEF vars, Effective, writerVars
    <3> QED
      BY <2>12, <3>1, <3>2
  <2> QED
    BY <2>2, <2>3, <2>4, <2>7, <2>8, <2>9, <2>11, <2>12 DEF Next, Offer
<1>3. SoloInv => SoloWriterWins
  BY DEF SoloInv
<1> QED
  BY <1>1, <1>2, <1>3, TypeCorrect, PTL DEF Spec

--------------------------------------------------------------------------------
(* Whatever clients ask for, and whatever the two configured intervals     *)
(* are, only a configured interval that is not positive makes a ticker     *)
(* panic.                                                                  *)
THEOREM RequestsNeverPanicAlways == Spec => []RequestsNeverPanic
<1>1. Init => PanicInv
  BY IntervalAssumption DEF Init, PanicInv, SanePeriods, Sane, RequestsNeverPanic
<1>2. TypeOK /\ PanicInv /\ [Next]_vars => PanicInv'
  <2> SUFFICES ASSUME TypeOK, PanicInv, [Next]_vars PROVE PanicInv'
    OBVIOUS
  <2> USE DEF TypeOK, Periods, PanicInv, SanePeriods, RequestsNeverPanic
  <2>1. ASSUME NEW w \in Writers, NEW ms \in Int, Sane(ms), StoreInterval(w, ms)
        PROVE  PanicInv'
    BY <2>1 DEF StoreInterval
  <2>2. CASE \E w \in WsClients, ms \in WsRequests : WsConfig(w, ms)
    <3>1. PICK w \in WsClients, ms \in WsRequests : WsConfig(w, ms)
      BY <2>2
    <3>2. Clamp(ms) \in Int /\ Sane(Clamp(ms))
      BY ClampBounds, IntervalAssumption DEF Sane
    <3> QED
      BY <2>1, <3>1, <3>2 DEF WsConfig, Writers
  <2>3. CASE \E w \in RpcStreams, ms \in RpcRequests : RpcStreamTelemetry(w, ms)
    BY <2>1, <2>3, IntervalAssumption DEF RpcStreamTelemetry, Writers, Sane
  <2>4. CASE \E l \in BOOLEAN : LockTransition(l)
    <3>1. PICK l \in BOOLEAN : LockTransition(l)
      BY <2>4
    <3> QED
      BY <2>1, <3>1, LockIntervalConfigured DEF LockTransition, Writers
  <2>5. ASSUME NEW w \in Writers, TrySend(w) \/ Resend(w) PROVE PanicInv'
    <3>1. resetChan' = Append(resetChan, duration[w]) \/ resetChan' = resetChan
      BY <2>5 DEF TrySend, Resend
    <3>2. \A i \in 1..Len(resetChan') : Sane(resetChan'[i])
      BY <3>1, ChannelAppend
    <3> QED
      BY <2>5, <3>2 DEF TrySend, Resend
  <2>6. ASSUME NEW w \in Writers, DrainOne(w) PROVE PanicInv'
    <3>1. resetChan' = resetChan \/ (resetChan # <<>> /\ resetChan' = Tail(resetChan))
      BY <2>6 DEF DrainOne
    <3>2. \A i \in 1..Len(resetChan') : Sane(resetChan'[i])
      <4>1. CASE resetChan' = resetChan
        BY <4>1
      <4>2. CASE resetChan # <<>> /\ resetChan' = Tail(resetChan)
        BY <4>2, ChannelTail
      <4> QED
        BY <3>1, <4>1, <4>2
    <3> QED
      BY <2>6, <3>2 DEF DrainOne
  <2>7. CASE Loop
    <3>1. CASE ApplyReset
      <4>1. \A i \in 1..Len(resetChan') : Sane(resetChan'[i])
        BY <3>1, ChannelTail DEF ApplyReset
      <4>2. Sane(Head(resetChan)) /\ Head(resetChan) \in Int
        BY <3>1, ChannelTail DEF ApplyReset
      <4>3. RequestsNeverPanic'
        BY <3>1, <4>2 DEF ApplyReset, LoopAfter, Sane
      <4> QED
        BY <3>1, <4>1, <4>3 DEF ApplyReset, writerVars
    <3>2. CASE StartTicker
      <4>1. RequestsNeverPanic'
        BY <3>2 DEF StartTicker, LoopAfter, Sane
      <4> QED
        BY <3>2, <4>1 DEF StartTicker, writerVars
    <3> QED
      BY <2>7, <3>1, <3>2 DEF Loop, Tick, TickDone, StopLoop, writerVars
  <2>8. CASE CancelContext
    BY <2>8 DEF CancelContext, writerVars
  <2>9. CASE UNCHANGED vars
    BY <2>9 DEF vars
  <2> QED
    BY <2>2, <2>3, <2>4, <2>5, <2>6, <2>7, <2>8, <2>9 DEF Next, Offer
<1>3. PanicInv => RequestsNeverPanic
  BY DEF PanicInv
<1> QED
  BY <1>1, <1>2, <1>3, TypeCorrect, PTL DEF Spec
================================================================================
