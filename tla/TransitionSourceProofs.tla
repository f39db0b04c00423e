------------------------- MODULE TransitionSourceProofs -------------------------
(* Proofs about TransitionSource for any number of buses, any signals and  *)
(* any channel capacity.                                                   *)
EXTENDS TransitionSource, TLAPS

(* When every watcher was told of the latest report, what is still to be   *)
(* read on any bus ends with the desktop's state.                          *)
QueuesEndActual ==
    ~partial /\ reports > 0 =>
        \A w \in Watchers :
            sigChan[w] # <<>> => Meaning[sigChan[w][Len(sigChan[w])]] = actual

(* With nothing left to read, the manager remembers the desktop's state.   *)
ReadIsActual ==
    ~partial /\ reports > 0 /\ (\A w \in Watchers : sigChan[w] = <<>>) => lastState = actual

(* out is closed only after every watcher stopped.                         *)
ClosedAfterWatchers == closed => \A w \in Watchers : ~running[w]

SourceInv ==
    /\ HandedOverAgrees
    /\ QueuesEndActual
    /\ ReadIsActual
    /\ ClosedAfterWatchers
    /\ NoSendOnClosed

--------------------------------------------------------------------------------
(* What a queue keeps when an element is appended to it.                   *)
LEMMA QueueAppend ==
    ASSUME NEW S, NEW q \in Seq(S), NEW e \in S
    PROVE  /\ Append(q, e) \in Seq(S)
           /\ Append(q, e) # <<>>
           /\ Len(q) \in Nat
           /\ Len(Append(q, e)) = Len(q) + 1
           /\ Append(q, e)[Len(Append(q, e))] = e
  OBVIOUS

(* What a queue keeps when its head is taken: its last element, if any.    *)
LEMMA QueueTail ==
    ASSUME NEW S, NEW q \in Seq(S), q # <<>>
    PROVE  /\ Head(q) \in S
           /\ Tail(q) \in Seq(S)
           /\ Len(q) \in Nat
           /\ Len(Tail(q)) = Len(q) - 1
           /\ Tail(q) = <<>> => Head(q) = q[Len(q)]
           /\ Tail(q) # <<>> => Tail(q)[Len(Tail(q))] = q[Len(q)]
<1>1. /\ Head(q) \in S /\ Head(q) = q[1] /\ Tail(q) \in Seq(S)
      /\ Len(q) \in Nat /\ Len(q) > 0
      /\ Len(Tail(q)) = Len(q) - 1
      /\ \A i \in 1..Len(Tail(q)) : Tail(q)[i] = q[i + 1]
  OBVIOUS
<1>2. ASSUME Tail(q) = <<>> PROVE Head(q) = q[Len(q)]
  <2>1. Len(<<>>) = 0
    OBVIOUS
  <2>2. Len(Tail(q)) = 0
    BY <1>2, <2>1, Zenon
  <2>3. \A n \in Nat : n - 1 = 0 => n = 1
    OBVIOUS
  <2>4. Len(q) = 1
    BY <1>1, <2>2, <2>3, Zenon
  <2> QED
    BY <1>1, <2>4, Zenon
<1>3. ASSUME Tail(q) # <<>> PROVE Tail(q)[Len(Tail(q))] = q[Len(q)]
  <2>1. Len(Tail(q)) > 0
    BY <1>1, <1>3
  <2> QED
    BY <1>1, <2>1
<1> QED
  BY <1>1, <1>2, <1>3

(* The state a signal stands for is one of the states, and none is Nil.    *)
LEMMA MeaningIsState ==
    ASSUME NEW s \in Signals
    PROVE  Meaning[s] \in States /\ Meaning[s] # Nil
  BY SourceAssumption DEF States

--------------------------------------------------------------------------------
(* updateState keeps the manager's types, and out within its capacity.     *)
LEMMA UpdateStateType ==
    ASSUME TypeOK, NEW v \in States, UpdateState(v)
    PROVE  /\ isFirstEvent' \in BOOLEAN
           /\ lastState' \in States \cup {Nil}
           /\ out' \in Seq(States)
           /\ Len(out') <= OutCap
           /\ emitted' \in Nat
           /\ lost' \in BOOLEAN
           /\ panicked' \in BOOLEAN
<1>1. OutCap \in Nat
  BY SourceAssumption
<1>2. /\ Append(out, v) \in Seq(States)
      /\ Len(out) \in Nat
      /\ Len(Append(out, v)) = Len(out) + 1
  BY QueueAppend DEF TypeOK
<1>3. CASE isFirstEvent \/ lastState # v
  <2>1. /\ isFirstEvent' = FALSE
        /\ lastState' = v
        /\ out' = IF Len(out) < OutCap THEN Append(out, v) ELSE out
        /\ emitted' = IF Len(out) < OutCap THEN emitted + 1 ELSE emitted
        /\ lost' = (Len(out) >= OutCap)
        /\ panicked' = (panicked \/ closed)
    BY <1>3, Zenon DEF UpdateState
  <2>2. lastState' \in States \cup {Nil} /\ emitted' \in Nat
    BY <1>2, <2>1 DEF TypeOK
  <2>3. out' \in Seq(States) /\ Len(out') <= OutCap
    BY <1>1, <1>2, <2>1 DEF TypeOK
  <2>4. isFirstEvent' \in BOOLEAN /\ panicked' \in BOOLEAN
    BY <2>1, Zenon
  <2>5. lost' \in BOOLEAN
    BY <2>1
  <2> QED
    BY <2>2, <2>3, <2>4, <2>5
<1>4. CASE ~(isFirstEvent \/ lastState # v)
  <2>1. UNCHANGED managerVars
    BY <1>4, Zenon DEF UpdateState
  <2> QED
    BY <2>1 DEF TypeOK, managerVars
<1> QED
  BY <1>3, <1>4

(* The types hold: every step of desktop, manager and monitor keeps them,  *)
(* and updateState never overfills out.                                    *)
THEOREM TypeCorrect == Spec => []TypeOK
<1>1. Init => TypeOK
  <2> SUFFICES ASSUME Init PROVE TypeOK
    OBVIOUS
  <2>1. /\ \A S : <<>> \in Seq(S)
        /\ Len(<<>>) = 0
    OBVIOUS
  <2>2. out \in Seq(States) /\ sigChan \in [Watchers -> Seq(Signals)] /\ Len(out) = 0
    BY <2>1, Zenon DEF Init
  <2>3. Len(out) <= OutCap /\ reports \in 0..MaxReports /\ changes \in 0..reports /\ emitted \in Nat
    BY <2>2, SourceAssumption DEF Init
  <2> QED
    BY <2>2, <2>3 DEF Init, TypeOK
<1>2. TypeOK /\ [Next]_vars => TypeOK'
  <2> SUFFICES ASSUME TypeOK, [Next]_vars PROVE TypeOK'
    OBVIOUS
  <2>1. ASSUME NEW s \in Signals, NEW told \in SUBSET Watchers, Report(s, told) PROVE TypeOK'
    <3>1. \A w \in Watchers : Append(sigChan[w], s) \in Seq(Signals)
      BY QueueAppend DEF TypeOK
    <3>2. sigChan' \in [Watchers -> Seq(Signals)]
      BY <2>1, <3>1 DEF Report, TypeOK
    <3>3. actual' \in States
      BY <2>1, MeaningIsState DEF Report
    <3>4. partial' \in BOOLEAN
      BY <2>1, Zenon DEF Report
    <3>5. reports' \in 0..MaxReports /\ changes' \in 0..reports'
      BY <2>1, SourceAssumption DEF Report, TypeOK
    <3> QED
      BY <2>1, <3>2, <3>3, <3>4, <3>5 DEF Report, TypeOK, managerVars, monitorVars
  <2>2. ASSUME NEW w \in Watchers, LoseBus(w) PROVE TypeOK'
    BY <2>2 DEF LoseBus, TypeOK, managerVars, monitorVars
  <2>3. CASE Cancel
    BY <2>3 DEF Cancel, TypeOK, deskVars, managerVars, monitorVars
  <2>4. ASSUME NEW w \in Watchers, Watch(w) PROVE TypeOK'
    <3>1. Head(sigChan[w]) \in Signals /\ Tail(sigChan[w]) \in Seq(Signals)
      BY <2>4, QueueTail DEF Watch, TypeOK
    <3>2. sigChan' \in [Watchers -> Seq(Signals)]
      BY <2>4, <3>1 DEF Watch, TypeOK
    <3>3. Meaning[Head(sigChan[w])] \in States
      BY <3>1, MeaningIsState
    <3>4. UpdateState(Meaning[Head(sigChan[w])])
      BY <2>4 DEF Watch
    <3>5. /\ isFirstEvent' \in BOOLEAN /\ lastState' \in States \cup {Nil}
          /\ out' \in Seq(States) /\ Len(out') <= OutCap
          /\ emitted' \in Nat /\ lost' \in BOOLEAN /\ panicked' \in BOOLEAN
      BY <3>3, <3>4, UpdateStateType
    <3> QED
      BY <2>4, <3>2, <3>5 DEF Watch, TypeOK, deskVars, monitorVars
  <2>5. ASSUME NEW w \in Watchers, StopWatching(w) PROVE TypeOK'
    BY <2>5 DEF StopWatching, TypeOK, managerVars, monitorVars
  <2>6. CASE CloseOut
    BY <2>6 DEF CloseOut, TypeOK, deskVars, managerVars, monitorVars
  <2>7. CASE Consume
    <3>1. Head(out) \in States /\ Tail(out) \in Seq(States) /\ Len(Tail(out)) = Len(out) - 1
          /\ Len(out) \in Nat
      BY <2>7, QueueTail DEF Consume, TypeOK
    <3>2. Len(Tail(out)) <= OutCap
      BY <3>1, SourceAssumption DEF TypeOK
    <3> QED
      BY <2>7, <3>1, <3>2 DEF Consume, TypeOK, deskVars
  <2>8. CASE StopMonitor
    BY <2>8 DEF StopMonitor, TypeOK, deskVars, managerVars
  <2>9. CASE UNCHANGED vars
    BY <2>9 DEF vars, TypeOK, deskVars, managerVars, monitorVars
  <2> QED
    BY <2>1, <2>2, <2>3, <2>4, <2>5, <2>6, <2>7, <2>8, <2>9
    DEF Next, Desktop, Manager, Monitor
<1> QED
  BY <1>1, <1>2, PTL DEF Spec

--------------------------------------------------------------------------------
(* After updateState the manager remembers its argument, and the monitor's *)
(* view agrees with it unless the channel was full.                        *)
LEMMA UpdateStateAgrees ==
    ASSUME TypeOK, HandedOverAgrees, NEW v \in States, UpdateState(v), received' = received
    PROVE  lastState' = v /\ HandedOverAgrees'
<1>1. Len(out) \in Nat /\ OutCap \in Nat
  BY SourceAssumption DEF TypeOK
<1>2. Append(out, v) # <<>> /\ Append(out, v)[Len(Append(out, v))] = v
  BY QueueAppend DEF TypeOK
<1>3. CASE isFirstEvent \/ lastState # v
  <2>1. /\ lastState' = v
        /\ out' = IF Len(out) < OutCap THEN Append(out, v) ELSE out
        /\ lost' = (Len(out) >= OutCap)
    BY <1>3, Zenon DEF UpdateState
  <2>2. ASSUME ~lost' PROVE out' = Append(out, v)
    <3>1. ~(Len(out) >= OutCap)
      BY <2>1, <2>2, Zenon
    <3>2. Len(out) < OutCap
      BY <1>1, <3>1
    <3> QED
      BY <2>1, <3>2
  <2>3. ~lost' => Latest' = v
    BY <1>2, <2>2 DEF Latest
  <2> QED
    BY <2>1, <2>3 DEF HandedOverAgrees
<1>4. CASE ~(isFirstEvent \/ lastState # v)
  BY <1>4 DEF UpdateState, managerVars, HandedOverAgrees, Latest
<1> QED
  BY <1>3, <1>4

(* A report told to every watcher ends every queue; any other leaves       *)
(* nothing to show.  Nothing else of the invariant is touched.             *)
LEMMA ReportKeeps ==
    ASSUME TypeOK, SourceInv, NEW s \in Signals, NEW told \in SUBSET Watchers, Report(s, told)
    PROVE  SourceInv'
<1>1. HandedOverAgrees' /\ ClosedAfterWatchers' /\ NoSendOnClosed'
  BY DEF SourceInv, Report, HandedOverAgrees, Latest, ClosedAfterWatchers, NoSendOnClosed,
         managerVars, monitorVars
<1>2. ASSUME ~partial', NEW w \in Watchers
      PROVE  sigChan'[w] # <<>> /\ Meaning[sigChan'[w][Len(sigChan'[w])]] = actual'
  <2>1. told = Watchers
    BY <1>2, Zenon DEF Report
  <2>2. sigChan'[w] = Append(sigChan[w], s)
    BY <2>1 DEF Report
  <2>3. sigChan[w] \in Seq(Signals)
    BY DEF TypeOK
  <2>4. sigChan'[w] # <<>> /\ sigChan'[w][Len(sigChan'[w])] = s
    BY <2>2, <2>3, QueueAppend
  <2> QED
    BY <2>4 DEF Report
<1>3. QueuesEndActual'
  BY <1>2 DEF QueuesEndActual
<1>4. ReadIsActual'
  BY <1>2, SourceAssumption DEF ReadIsActual
<1> QED
  BY <1>1, <1>3, <1>4 DEF SourceInv

(* Reading a signal: what is left still ends with the desktop's state, and *)
(* the last signal of all leaves that state remembered.                    *)
LEMMA WatchKeeps ==
    ASSUME TypeOK, SourceInv, NEW w \in Watchers, Watch(w)
    PROVE  SourceInv'
<1> DEFINE v == Meaning[Head(sigChan[w])]
<1>1. sigChan[w] \in Seq(Signals) /\ sigChan[w] # <<>>
  BY DEF TypeOK, Watch
<1>2. v \in States
  BY <1>1, QueueTail, MeaningIsState
<1>3. UpdateState(v) /\ received' = received
  BY DEF Watch, monitorVars
<1>4. lastState' = v /\ HandedOverAgrees'
  <2> HIDE DEF v
  <2> QED
    BY <1>2, <1>3, UpdateStateAgrees DEF SourceInv
<1>5. sigChan'[w] = Tail(sigChan[w]) /\ \A u \in Watchers \ {w} : sigChan'[u] = sigChan[u]
  BY DEF Watch, TypeOK
<1>6. UNCHANGED <<actual, partial, reports, running, closed>>
  BY DEF Watch, deskVars
<1>7. QueuesEndActual'
  <2> SUFFICES ASSUME ~partial, reports > 0, NEW u \in Watchers, sigChan'[u] # <<>>
               PROVE  Meaning[sigChan'[u][Len(sigChan'[u])]] = actual
    BY <1>6 DEF QueuesEndActual
  <2>1. CASE u = w
    <3>1. sigChan'[w][Len(sigChan'[w])] = sigChan[w][Len(sigChan[w])]
      BY <1>1, <1>5, <2>1, QueueTail
    <3> QED
      BY <1>1, <2>1, <3>1 DEF SourceInv, QueuesEndActual
  <2>2. CASE u # w
    BY <1>5, <2>2 DEF SourceInv, QueuesEndActual
  <2> QED
    BY <2>1, <2>2
<1>8. ReadIsActual'
  <2> SUFFICES ASSUME ~partial, reports > 0, \A u \in Watchers : sigChan'[u] = <<>>
               PROVE  v = actual
    BY <1>4, <1>6 DEF ReadIsActual
  <2>1. Head(sigChan[w]) = sigChan[w][Len(sigChan[w])]
    BY <1>1, <1>5, QueueTail
  <2> QED
    BY <1>1, <2>1 DEF SourceInv, QueuesEndActual
<1>9. ~closed
  BY DEF Watch, SourceInv, ClosedAfterWatchers
<1>10. ~panicked'
  BY <1>3, <1>9 DEF UpdateState, SourceInv, NoSendOnClosed, managerVars
<1> QED
  BY <1>4, <1>6, <1>7, <1>8, <1>9, <1>10 DEF SourceInv, ClosedAfterWatchers, NoSendOnClosed

(* The steps that leave signals, reports and the manager's memory alone.   *)
LEMMA OthersKeep ==
    ASSUME TypeOK, SourceInv,
           \/ Cancel \/ CloseOut \/ Consume \/ StopMonitor \/ UNCHANGED vars
           \/ \E w \in Watchers : LoseBus(w) \/ StopWatching(w)
    PROVE  SourceInv'
<1>1. UNCHANGED <<actual, partial, reports, sigChan, lastState, lost, panicked>>
  BY DEF Cancel, CloseOut, Consume, StopMonitor, LoseBus, StopWatching, vars, deskVars, managerVars
<1>2. QueuesEndActual' /\ ReadIsActual' /\ NoSendOnClosed'
  BY <1>1 DEF SourceInv, QueuesEndActual, ReadIsActual, NoSendOnClosed
<1>3. Latest' = Latest
  <2>1. CASE Consume
    <3>1. out # <<>> /\ out' = Tail(out) /\ received' = Head(out) /\ out \in Seq(States)
      BY <2>1 DEF Consume, TypeOK
    <3> QED
      BY <3>1, QueueTail DEF Latest
  <2>2. CASE ~Consume
    <3>1. UNCHANGED <<out, received>>
      BY <2>2 DEF Cancel, CloseOut, StopMonitor, LoseBus, StopWatching, vars, managerVars, monitorVars
    <3> QED
      BY <3>1 DEF Latest
  <2> QED
    BY <2>1, <2>2
<1>4. HandedOverAgrees'
  BY <1>1, <1>3 DEF SourceInv, HandedOverAgrees
<1>5. ClosedAfterWatchers'
  BY DEF SourceInv, ClosedAfterWatchers, TypeOK, Cancel, CloseOut, Consume, StopMonitor, LoseBus,
         StopWatching, vars
<1> QED
  BY <1>2, <1>4, <1>5 DEF SourceInv

(* The invariant the properties below follow from.                         *)
LEMMA SourceInvariance == Spec => []SourceInv
<1>1. Init => SourceInv
  BY DEF Init, SourceInv, HandedOverAgrees, Latest, QueuesEndActual, ReadIsActual,
         ClosedAfterWatchers, NoSendOnClosed
<1>2. TypeOK /\ SourceInv /\ [Next]_vars => SourceInv'
  BY ReportKeeps, WatchKeeps, OthersKeep DEF Next, Desktop, Manager, Monitor
<1> QED
  BY <1>1, <1>2, TypeCorrect, PTL DEF Spec

(* Unless the latest transition was dropped, the monitor has or will read  *)
(* last the state updateState dedups against, for any channel capacity.    *)
THEOREM HandedOverAgreesAlways == Spec => []HandedOverAgrees
<1>1. SourceInv => HandedOverAgrees
  BY DEF SourceInv
<1> QED
  BY <1>1, SourceInvariance, PTL

(* With every change reported on every bus, the daemon settles on the      *)
(* desktop's state, for any number of buses and any interleaving of their  *)
(* watchers.                                                               *)
THEOREM SettlesOnActualAlways == Spec => []SettlesOnActual
<1>1. SourceInv => SettlesOnActual
  BY DEF SourceInv, HandedOverAgrees, ReadIsActual, SettlesOnActual
<1> QED
  BY <1>1, SourceInvariance, PTL

(* updateState never sends on the channel the coordinator closed.          *)
THEOREM NoSendOnClosedAlways == Spec => []NoSendOnClosed
<1>1. SourceInv => NoSendOnClosed
  BY DEF SourceInv
<1> QED
  BY <1>1, SourceInvariance, PTL

(* The three together: the manager's channel tells the monitor the truth   *)
(* until it is closed, for any buses, signals, interleaving and capacity.  *)
THEOREM OutIsSoundAlways == Spec => []OutIsSound
<1>1. HandedOverAgrees /\ SettlesOnActual /\ NoSendOnClosed => OutIsSound
  BY DEF OutIsSound
<1> QED
  BY <1>1, HandedOverAgreesAlways, SettlesOnActualAlways, NoSendOnClosedAlways, PTL

================================================================================
