---------------------------- MODULE AdbTrackerProofs ----------------------------
(* Proofs about AdbTracker for any devices, channel capacity and delays.   *)
EXTENDS AdbTracker, WellFoundedInduction, TLAPS

(* Without a stream there is neither a reader nor a registered serial.     *)
NothingOutlivesStream ==
    tracker \in {"dial", "wait"} => activeSerials = {} /\ reader = "none"

(* The reader reports as missing only devices it has as active.            *)
MissingAreActive == reader = "missing" => todo \subseteq activeDevices

(* Only while it works on a list has the reader an event to send.          *)
SendsWithinList == sending # <<>> => reader \in {"lines", "missing"}

TrackInv ==
    /\ NothingOutlivesStream
    /\ SendsWithinList
    /\ MissingAreActive
    /\ PendingEventsAgree
    /\ EveryEventIsAChange

--------------------------------------------------------------------------------
(* What an event channel keeps when an event is sent or received.          *)
LEMMA EventAppend ==
    ASSUME NEW q \in Seq(Events), NEW e \in Events
    PROVE  /\ Append(q, e) \in Seq(Events)
           /\ Len(q) \in Nat
           /\ Len(Append(q, e)) = Len(q) + 1
           /\ Append(q, e)[Len(q) + 1] = e
           /\ \A i \in 1..Len(q) : Append(q, e)[i] = q[i]
  OBVIOUS

(* Removing the head of a channel of events.                               *)
LEMMA EventTail ==
    ASSUME NEW q \in Seq(Events), q # <<>>
    PROVE  /\ Tail(q) \in Seq(Events)
           /\ Len(q) \in Nat
           /\ Len(q) > 0
           /\ Head(q) = q[1]
           /\ Head(q) \in Events
           /\ Len(Tail(q)) = Len(q) - 1
           /\ \A i \in 1..Len(Tail(q)) : Tail(q)[i] = q[i + 1]
  OBVIOUS

(* Sending an event leaves what earlier prefixes do as it was, and the     *)
(* whole channel now ends with that event.                                 *)
LEMMA AfterAppend ==
    ASSUME NEW q \in Seq(Events), NEW e \in Events, NEW base, NEW s
    PROVE  /\ \A k \in 0..Len(q) : After(Append(q, e), base, k, s) <=> After(q, base, k, s)
           /\ After(Append(q, e), base, Len(q) + 1, s)
                <=> IF e.serial = s THEN e.online ELSE After(q, base, Len(q), s)
<1> DEFINE p == Append(q, e)
           n == Len(q)
<1>1. n \in Nat /\ p[n + 1] = e /\ \A i \in 1..n : p[i] = q[i]
  BY EventAppend
<1>2. ASSUME NEW k \in 0..n PROVE After(p, base, k, s) <=> After(q, base, k, s)
  <2>1. \A i \in 1..k : p[i] = q[i]
    BY <1>1
  <2>2. (\E i \in 1..k : p[i].serial = s) <=> (\E i \in 1..k : q[i].serial = s)
    BY <2>1
  <2>3. ASSUME NEW i \in 1..k
        PROVE  (\A j \in (i + 1)..k : p[j].serial # s) <=> (\A j \in (i + 1)..k : q[j].serial # s)
    BY <2>1
  <2> QED
    BY <2>1, <2>2, <2>3 DEF After
<1>3. CASE e.serial = s
  <2>1. n + 1 \in 1..(n + 1) /\ p[n + 1].serial = s
    BY <1>1, <1>3
  <2>2. ASSUME NEW i \in 1..(n + 1), \A j \in (i + 1)..(n + 1) : p[j].serial # s
        PROVE  i = n + 1
    BY <1>1, <2>1, <2>2
  <2>3. \A j \in (n + 1 + 1)..(n + 1) : p[j].serial # s
    BY <1>1
  <2>4. After(p, base, n + 1, s) <=> p[n + 1].online
    BY <2>1, <2>2, <2>3 DEF After
  <2> QED
    BY <1>1, <1>2, <1>3, <2>4
<1>4. CASE e.serial # s
  <2>1. p[n + 1].serial # s
    BY <1>1, <1>4
  <2>2. (\E i \in 1..(n + 1) : p[i].serial = s) <=> (\E i \in 1..n : p[i].serial = s)
    BY <1>1, <2>1
  <2>3. ASSUME NEW i \in 1..n
        PROVE  (\A j \in (i + 1)..(n + 1) : p[j].serial # s) <=> (\A j \in (i + 1)..n : p[j].serial # s)
    BY <1>1, <2>1
  <2>4. (\E i \in 1..(n + 1) : p[i].serial = s /\ p[i].online /\ \A j \in (i + 1)..(n + 1) : p[j].serial # s)
          <=> (\E i \in 1..n : p[i].serial = s /\ p[i].online /\ \A j \in (i + 1)..n : p[j].serial # s)
    <3>1. ASSUME NEW i \in 1..(n + 1), p[i].serial = s PROVE i \in 1..n
      BY <1>1, <2>1, <3>1
    <3>2. 1..n \subseteq 1..(n + 1)
      BY <1>1
    <3> QED
      BY <2>3, <3>1, <3>2
  <2>5. After(p, base, n + 1, s) <=> After(p, base, n, s)
    BY <2>2, <2>4 DEF After
  <2> QED
    BY <1>1, <1>2, <1>4, <2>5
<1> QED
  BY <1>2, <1>3, <1>4

(* Handling the first event moves it from the channel into the set.        *)
LEMMA AfterHandle ==
    ASSUME NEW q \in Seq(Events), q # <<>>, NEW base, NEW s, NEW k \in 0..(Len(q) - 1)
    PROVE  After(Tail(q),
                 IF Head(q).online THEN base \cup {Head(q).serial} ELSE base \ {Head(q).serial},
                 k, s)
             <=> After(q, base, k + 1, s)
<1> DEFINE t == Tail(q)
           b == IF Head(q).online THEN base \cup {Head(q).serial} ELSE base \ {Head(q).serial}
<1>1. /\ Len(q) \in Nat /\ Len(q) > 0 /\ Head(q) = q[1] /\ Len(t) = Len(q) - 1
      /\ \A i \in 1..Len(t) : t[i] = q[i + 1]
  BY EventTail
<1>2. \A i \in 1..k : t[i] = q[i + 1]
  BY <1>1
<1>3. CASE \E i \in 1..k : t[i].serial = s
  <2>1. \E i \in 1..(k + 1) : q[i].serial = s
    <3>1. PICK i \in 1..k : t[i].serial = s
      BY <1>3
    <3> QED
      BY <1>2, <3>1
  <2>2. ASSUME NEW i \in 1..k
        PROVE  (\A j \in (i + 1)..k : t[j].serial # s)
                 <=> (\A j \in (i + 2)..(k + 1) : q[j].serial # s)
    <3>1. ASSUME \A j \in (i + 1)..k : t[j].serial # s, NEW j \in (i + 2)..(k + 1)
          PROVE  q[j].serial # s
      <4>1. j - 1 \in (i + 1)..k /\ j - 1 \in 1..k /\ (j - 1) + 1 = j
        OBVIOUS
      <4> QED
        BY <1>2, <3>1, <4>1
    <3>2. ASSUME \A j \in (i + 2)..(k + 1) : q[j].serial # s, NEW j \in (i + 1)..k
          PROVE  t[j].serial # s
      <4>1. j + 1 \in (i + 2)..(k + 1) /\ j \in 1..k
        OBVIOUS
      <4> QED
        BY <1>2, <3>2, <4>1
    <3> QED
      BY <3>1, <3>2
  <2>3. After(t, b, k, s) => After(q, base, k + 1, s)
    <3> SUFFICES ASSUME After(t, b, k, s) PROVE After(q, base, k + 1, s)
      OBVIOUS
    <3>1. PICK i \in 1..k : t[i].serial = s /\ t[i].online /\ \A j \in (i + 1)..k : t[j].serial # s
      BY <1>3 DEF After
    <3>2. i + 1 \in 1..(k + 1) /\ q[i + 1].serial = s /\ q[i + 1].online
      BY <1>2, <3>1
    <3>3. \A j \in (i + 1 + 1)..(k + 1) : q[j].serial # s
      BY <2>2, <3>1
    <3> QED
      BY <2>1, <3>2, <3>3 DEF After
  <2>4. After(q, base, k + 1, s) => After(t, b, k, s)
    <3> SUFFICES ASSUME After(q, base, k + 1, s) PROVE After(t, b, k, s)
      OBVIOUS
    <3>1. PICK i \in 1..(k + 1) : q[i].serial = s /\ q[i].online /\ \A j \in (i + 1)..(k + 1) : q[j].serial # s
      BY <2>1 DEF After
    <3>2. PICK m \in 1..k : t[m].serial = s
      BY <1>3
    <3>3. i # 1
      BY <1>2, <3>1, <3>2
    <3>4. i - 1 \in 1..k /\ (i - 1) + 1 = i /\ (i - 1) + 2 = i + 1
      BY <3>3
    <3>5. t[i - 1].serial = s /\ t[i - 1].online
      BY <1>2, <3>1, <3>4
    <3>6. \A j \in ((i - 1) + 1)..k : t[j].serial # s
      BY <2>2, <3>1, <3>4
    <3> QED
      BY <1>3, <3>4, <3>5, <3>6 DEF After
  <2> QED
    BY <2>3, <2>4
<1>4. CASE ~(\E i \in 1..k : t[i].serial = s)
  <2>1. After(t, b, k, s) <=> s \in b
    BY <1>4 DEF After
  <2>2. ASSUME NEW j \in 2..(k + 1) PROVE q[j].serial # s
    <3>1. j - 1 \in 1..k /\ (j - 1) + 1 = j
      OBVIOUS
    <3> QED
      BY <1>2, <1>4, <3>1
  <2>3. CASE q[1].serial = s
    <3>1. 1 \in 1..(k + 1) /\ \A i \in 1..(k + 1) : q[i].serial = s => i = 1
      BY <2>2
    <3>2. \A j \in (1 + 1)..(k + 1) : q[j].serial # s
      BY <2>2
    <3>3. After(q, base, k + 1, s) <=> q[1].online
      BY <2>3, <3>1, <3>2 DEF After
    <3>4. s \in b <=> q[1].online
      BY <1>1, <2>3
    <3> QED
      BY <2>1, <3>3, <3>4
  <2>4. CASE q[1].serial # s
    <3>1. ~(\E i \in 1..(k + 1) : q[i].serial = s)
      BY <2>2, <2>4
    <3>2. After(q, base, k + 1, s) <=> s \in base
      BY <3>1 DEF After
    <3>3. s \in b <=> s \in base
      BY <1>1, <2>4
    <3> QED
      BY <2>1, <3>2, <3>3
  <2> QED
    BY <2>3, <2>4
<1> QED
  BY <1>3, <1>4

--------------------------------------------------------------------------------
(* An event built by Report is an event.                                   *)
LEMMA ReportedEvent ==
    ASSUME NEW s \in Serials, NEW b \in BOOLEAN
    PROVE  LET e == IF b THEN Online(s) ELSE Offline(s)
           IN  e \in Events /\ e.serial = s /\ (e.online <=> b)
  BY DEF Online, Offline, Events

(* The events on their way are events.                                     *)
LEMMA PendingTyped == ASSUME TypeOK PROVE Pending \in Seq(Events)
<1>1. CASE sending = <<>>
  BY <1>1 DEF TypeOK, Pending
<1>2. CASE sending # <<>>
  <2>1. PICK e \in Events : sending = <<e>>
    BY <1>2 DEF TypeOK
  <2>2. Pending = Append(out, e)
    BY <2>1 DEF Pending
  <2> QED
    BY <2>2, EventAppend DEF TypeOK
<1> QED
  BY <1>1, <1>2

(* Type correctness of AdbTracker; in particular the reader sends only     *)
(* while it works on a list and the delay stays between its two bounds.         *)
THEOREM TypeCorrect == Spec => []TypeOK
<1>1. Init => TypeOK
  <2> SUFFICES ASSUME Init PROVE TypeOK
    OBVIOUS
  <2>1. frames \in Seq(Lists) /\ out \in Seq(Events) /\ Len(out) <= OutCap
    BY TrackerAssumption DEF Init
  <2>2. attached \in Lists /\ cur \in Lists
    BY DEF Init, NoDevices, Lists, DeviceStates
  <2>3. backoff \in RetryMin..RetryMax /\ retries \in Nat
    BY TrackerAssumption DEF Init
  <2>4. server \in BOOLEAN /\ ctxDone \in BOOLEAN
    BY DEF Init
  <2> QED
    BY <2>1, <2>2, <2>3, <2>4 DEF Init, TypeOK
<1>2. TypeOK /\ [Next]_vars => TypeOK'
  <2> SUFFICES ASSUME TypeOK, [Next]_vars PROVE TypeOK'
    OBVIOUS
  <2> USE DEF TypeOK
  <2> USE DEF envVars, connVars, readerVars, trackerVars
  <2>1. ASSUME NEW s \in Serials, NEW st \in DeviceStates, DeviceChange(s, st) PROVE TypeOK'
    <3>1. attached' \in Lists
      BY <2>1 DEF DeviceChange, Lists
    <3>2. frames' \in Seq(Lists)
      BY <2>1, <3>1 DEF DeviceChange
    <3> QED
      BY <2>1, <3>1, <3>2 DEF DeviceChange
  <2>2. CASE ServerStart
    BY <2>2 DEF ServerStart
  <2>3. CASE ServerStop
    <3>1. attached' \in Lists
      BY <2>3 DEF ServerStop, NoDevices, Lists, DeviceStates
    <3> QED
      BY <2>3, <3>1 DEF ServerStop
  <2>20. CASE ConnectionFails
    BY <2>20 DEF ConnectionFails
  <2>4. CASE CancelContext
    BY <2>4 DEF CancelContext
  <2>5. CASE ReadList
    <3>1. Head(frames) \in Lists /\ Tail(frames) \in Seq(Lists)
      BY <2>5 DEF ReadList
    <3> QED
      BY <2>5, <3>1 DEF ReadList
  <2>6. CASE ReadFails
    BY <2>6 DEF ReadFails
  <2>7. ASSUME NEW s \in Serials, NEW b \in BOOLEAN, Report(s, b)
        PROVE  activeDevices' \subseteq Serials /\ \E e \in Events : sending' = <<e>>
    <3>1. activeDevices' \subseteq Serials
      BY <2>7 DEF Report
    <3>2. \E e \in Events : sending' = <<e>>
      BY <2>7, ReportedEvent DEF Report
    <3> QED
      BY <3>1, <3>2
  <2>21. CASE Send
    <3>1. PICK e \in Events : sending = <<e>>
      BY <2>21 DEF Send
    <3>2. out' = Append(out, e) /\ Len(out) < OutCap
      BY <2>21, <3>1 DEF Send
    <3>3. out' \in Seq(Events) /\ Len(out') <= OutCap
      BY <3>2, EventAppend, TrackerAssumption
    <3> QED
      BY <2>21, <3>3 DEF Send
  <2>8. ASSUME NEW s \in Serials, ReadLine(s) PROVE TypeOK'
    <3>1. activeDevices' \subseteq Serials /\ (sending' = <<>> \/ \E e \in Events : sending' = <<e>>)
      BY <2>7, <2>8 DEF ReadLine
    <3> QED
      BY <2>8, <3>1 DEF ReadLine
  <2>9. ASSUME NEW s \in Serials, ReportMissing(s) PROVE TypeOK'
    <3>1. activeDevices' \subseteq Serials /\ (sending' = <<>> \/ \E e \in Events : sending' = <<e>>)
      BY <2>7, <2>9 DEF ReportMissing
    <3> QED
      BY <2>9, <3>1 DEF ReportMissing
  <2>10. CASE LinesDone
    BY <2>10 DEF LinesDone
  <2>11. CASE ListDone
    BY <2>11 DEF ListDone
  <2>12. CASE Established
    <3>1. frames' \in Seq(Lists) /\ out' \in Seq(Events) /\ Len(out') <= OutCap
      BY <2>12, TrackerAssumption DEF Established
    <3> QED
      BY <2>12, <3>1 DEF Established
  <2>13. ASSUME NEW c \in BOOLEAN, ForgetAndWait(c)
         PROVE  /\ tracker' = "wait" /\ activeSerials' = {}
                /\ backoff' \in RetryMin..RetryMax /\ retries' \in Nat
    BY <2>13, TrackerAssumption DEF ForgetAndWait
  <2>14. CASE DialFails
    BY <2>13, <2>14 DEF DialFails, Stopped
  <2>15. CASE HandleEvent
    <3>1. Head(out) \in Events /\ Tail(out) \in Seq(Events) /\ Len(Tail(out)) <= OutCap
      BY <2>15, EventTail, TrackerAssumption DEF HandleEvent
    <3>2. Head(out).serial \in Serials
      BY <3>1 DEF Events
    <3> QED
      BY <2>15, <3>1, <3>2 DEF HandleEvent
  <2>16. CASE StreamEnds
    <3>1. /\ tracker' \in {"wait", "stopped"} /\ activeSerials' \subseteq Serials
          /\ backoff' \in RetryMin..RetryMax /\ retries' \in Nat
      BY <2>13, <2>16 DEF StreamEnds, Stopped
    <3> QED
      BY <2>16, <3>1 DEF StreamEnds
  <2>17. CASE StopTracking
    BY <2>17 DEF StopTracking, Stopped
  <2>18. CASE WaitOver
    <3>1. backoff' \in RetryMin..RetryMax /\ retries' \in Nat
      BY <2>18, TrackerAssumption DEF WaitOver
    <3> QED
      BY <2>18, <3>1 DEF WaitOver
  <2>19. CASE UNCHANGED vars
    BY <2>19 DEF vars
  <2> QED
    BY <2>1, <2>2, <2>3, <2>20, <2>4, <2>5, <2>6, <2>21, <2>8, <2>9, <2>10, <2>11, <2>12, <2>14,
       <2>15, <2>16, <2>17, <2>18, <2>19 DEF Next, Reader, Tracker, Environment
<1> QED
  BY <1>1, <1>2, PTL DEF Spec

--------------------------------------------------------------------------------
(* A change the tracker does not know of keeps both views equal.           *)
LEMMA ReportKeepsViews ==
    ASSUME TypeOK, PendingEventsAgree, EveryEventIsAChange,
           NEW s \in Serials, NEW b \in BOOLEAN,
           b <=> s \notin activeDevices,
           Report(s, b),
           sending = <<>>,
           UNCHANGED <<tracker, activeSerials, out>>
    PROVE  PendingEventsAgree' /\ EveryEventIsAChange'
<1> SUFFICES ASSUME tracker = "track"
             PROVE  /\ \A r \in Serials : After(Pending', activeSerials, Len(Pending'), r) <=> r \in activeDevices'
                    /\ \A i \in 1..Len(Pending') : Pending'[i].online <=> ~After(Pending', activeSerials, i - 1, Pending'[i].serial)
  BY DEF PendingEventsAgree, EveryEventIsAChange
<1> DEFINE e == IF b THEN Online(s) ELSE Offline(s)
<1>1. e \in Events /\ e.serial = s /\ (e.online <=> b)
  BY ReportedEvent
<1>2. Pending' = Append(Pending, e)
  BY DEF Report, Pending
<1>3. Pending \in Seq(Events)
  BY PendingTyped
<1> HIDE DEF e
<1>4. /\ Len(Pending) \in Nat /\ Len(Pending') = Len(Pending) + 1 /\ Pending'[Len(Pending) + 1] = e
      /\ \A i \in 1..Len(Pending) : Pending'[i] = Pending[i]
  BY <1>1, <1>2, <1>3, EventAppend
<1>5. ASSUME NEW r
      PROVE  /\ \A k \in 0..Len(Pending) : After(Pending', activeSerials, k, r) <=> After(Pending, activeSerials, k, r)
             /\ After(Pending', activeSerials, Len(Pending) + 1, r)
                  <=> IF e.serial = r THEN e.online ELSE After(Pending, activeSerials, Len(Pending), r)
  BY <1>1, <1>2, <1>3, AfterAppend
<1>6. ASSUME NEW r \in Serials
      PROVE  After(Pending', activeSerials, Len(Pending'), r) <=> r \in activeDevices'
  <2>1. After(Pending, activeSerials, Len(Pending), r) <=> r \in activeDevices
    BY DEF PendingEventsAgree
  <2>2. CASE r = s
    BY <1>1, <1>4, <1>5, <2>2 DEF Report
  <2>3. CASE r # s
    BY <1>1, <1>4, <1>5, <2>1, <2>3 DEF Report
  <2> QED
    BY <2>2, <2>3
<1>7. ASSUME NEW i \in 1..Len(Pending')
      PROVE  Pending'[i].online <=> ~After(Pending', activeSerials, i - 1, Pending'[i].serial)
  <2>1. CASE i \in 1..Len(Pending)
    <3>1. i - 1 \in 0..Len(Pending) /\ Pending'[i] = Pending[i]
      BY <1>4, <2>1
    <3>2. Pending[i].online <=> ~After(Pending, activeSerials, i - 1, Pending[i].serial)
      BY <2>1 DEF EveryEventIsAChange
    <3> QED
      BY <1>5, <3>1, <3>2
  <2>2. CASE i = Len(Pending) + 1
    <3>1. Pending'[i] = e /\ i - 1 = Len(Pending) /\ Len(Pending) \in 0..Len(Pending)
      BY <1>4, <2>2
    <3>2. After(Pending, activeSerials, Len(Pending), s) <=> s \in activeDevices
      BY DEF PendingEventsAgree
    <3>3. After(Pending', activeSerials, Len(Pending), s) <=> s \in activeDevices
      BY <1>5, <3>1, <3>2
    <3> QED
      BY <1>1, <3>1, <3>3
  <2> QED
    BY <1>4, <2>1, <2>2
<1> QED
  BY <1>6, <1>7

(* The first buffered event changes the registry the way it says.          *)
LEMMA HeadIsAChange ==
    ASSUME TypeOK, EveryEventIsAChange, tracker = "track", out # <<>>
    PROVE  /\ Head(out) \in Events
           /\ Head(out).online <=> Head(out).serial \notin activeSerials
           /\ Pending # <<>>
           /\ Head(Pending) = Head(out)
<1>1. /\ Len(out) \in Nat /\ Len(out) > 0 /\ Head(out) = out[1] /\ Head(out) \in Events
  BY EventTail DEF TypeOK
<1>2. Pending # <<>> /\ Head(Pending) = Head(out)
  <2>1. CASE sending = <<>>
    BY <2>1 DEF Pending
  <2>2. CASE sending # <<>>
    <3>1. PICK e \in Events : Pending = Append(out, e)
      BY <2>2 DEF TypeOK, Pending
    <3> QED
      BY <1>1, <3>1, EventAppend DEF TypeOK
  <2> QED
    BY <2>1, <2>2
<1>3. /\ Len(Pending) \in Nat /\ Len(Pending) > 0 /\ Pending[1] = Head(out)
  BY <1>2, PendingTyped, EventTail
<1>4. 1 \in 1..Len(Pending) /\ 1 - 1 = 0
  BY <1>3
<1>5. Pending[1].online <=> ~After(Pending, activeSerials, 0, Pending[1].serial)
  BY <1>4 DEF EveryEventIsAChange
<1>6. ~(\E i \in 1..0 : Pending[i].serial = Pending[1].serial)
  OBVIOUS
<1>7. After(Pending, activeSerials, 0, Pending[1].serial) <=> Pending[1].serial \in activeSerials
  BY <1>6 DEF After
<1> QED
  BY <1>1, <1>2, <1>3, <1>5, <1>7

(* Handling an event takes the first of those on their way.                *)
LEMMA HandleTakesFirst ==
    ASSUME TypeOK, out # <<>>, out' = Tail(out), sending' = sending
    PROVE  Pending' = Tail(Pending)
<1>1. CASE sending = <<>>
  BY <1>1 DEF Pending
<1>2. CASE sending # <<>>
  <2>1. PICK e \in Events : sending = <<e>>
    BY <1>2 DEF TypeOK
  <2>2. Pending = Append(out, e) /\ Pending' = Append(Tail(out), e)
    BY <2>1 DEF Pending
  <2>3. Tail(Append(out, e)) = Append(Tail(out), e)
    BY DEF TypeOK
  <2> QED
    BY <2>2, <2>3
<1> QED
  BY <1>1, <1>2

(* The inductive invariant of device tracking.                             *)
LEMMA TrackInvariance == Spec => [](TypeOK /\ TrackInv)
<1>1. Init => TrackInv
  BY DEF Init, TrackInv, NothingOutlivesStream, SendsWithinList, MissingAreActive, PendingEventsAgree,
     EveryEventIsAChange
<1>2. TypeOK /\ TrackInv /\ [Next]_vars => TrackInv'
  <2> SUFFICES ASSUME TypeOK, TrackInv, [Next]_vars PROVE TrackInv'
    OBVIOUS
  <2> USE DEF envVars, connVars, readerVars, trackerVars
  <2>14. SendsWithinList'
    <3> USE DEF TrackInv, NothingOutlivesStream, SendsWithinList
    <3>1. CASE Environment \/ DialFails \/ HandleEvent \/ StopTracking \/ WaitOver \/ UNCHANGED vars
      <4>1. UNCHANGED <<reader, sending>>
        BY <3>1 DEF Environment, DeviceChange, ServerStart, ServerStop, ConnectionFails, CancelContext,
           DialFails, HandleEvent, StopTracking, WaitOver, vars
      <4> QED
        BY <4>1
    <3>2. CASE Send \/ LinesDone \/ ListDone
      BY <3>2 DEF Send, LinesDone, ListDone
    <3>3. CASE ReadList \/ ReadFails
      BY <3>3 DEF ReadList, ReadFails
    <3>4. CASE Established \/ StreamEnds
      BY <3>4 DEF Established, StreamEnds
    <3>5. ASSUME NEW s \in Serials, ReadLine(s) \/ ReportMissing(s) PROVE SendsWithinList'
      BY <3>5 DEF ReadLine, ReportMissing
    <3> QED
      BY <3>1, <3>2, <3>3, <3>4, <3>5 DEF Next, Reader, Tracker
  <2>1. ASSUME UNCHANGED <<reader, todo, activeDevices, tracker, activeSerials>>, Pending' = Pending
        PROVE  TrackInv'
    BY <2>1, <2>14 DEF TrackInv, NothingOutlivesStream, MissingAreActive, PendingEventsAgree, EveryEventIsAChange
  <2>2. CASE Environment \/ Send \/ UNCHANGED vars
    <3>1. CASE Environment \/ UNCHANGED vars
      <4>1. UNCHANGED <<reader, todo, activeDevices, out, sending, tracker, activeSerials>>
        BY <3>1 DEF Environment, DeviceChange, ServerStart, ServerStop, ConnectionFails, CancelContext, vars
      <4>2. Pending' = Pending
        BY <4>1 DEF Pending
      <4> QED
        BY <2>1, <4>1, <4>2
    <3>2. CASE Send
      <4>1. Pending' = Pending
        BY <3>2 DEF Send, Pending
      <4> QED
        BY <2>1, <3>2, <4>1 DEF Send
    <3> QED
      BY <2>2, <3>1, <3>2
  \* The reader's steps that send nothing.
  <2>3. ASSUME UNCHANGED <<activeDevices, out, sending, tracker, activeSerials>>,
               reader # "none", MissingAreActive'
        PROVE  TrackInv'
    <3>1. NothingOutlivesStream'
      BY <2>3 DEF TrackInv, NothingOutlivesStream
    <3>2. PendingEventsAgree' /\ EveryEventIsAChange'
      <4>1. Pending' = Pending
        BY <2>3 DEF Pending
      <4> QED
        BY <2>3, <4>1 DEF TrackInv, PendingEventsAgree, EveryEventIsAChange
    <3> QED
      BY <2>14, <2>3, <3>1, <3>2 DEF TrackInv
  <2>4. CASE ReadList \/ ReadFails \/ LinesDone \/ ListDone
    <3>1. MissingAreActive'
      BY <2>4 DEF ReadList, ReadFails, LinesDone, ListDone, MissingAreActive
    <3> QED
      BY <2>3, <2>4, <3>1 DEF ReadList, ReadFails, LinesDone, ListDone
  \* The steps that may have one event to send.
  <2>5. ASSUME NEW s \in Serials, ReadLine(s) PROVE TrackInv'
    <3>1. MissingAreActive' /\ reader # "none"
      BY <2>5 DEF ReadLine, MissingAreActive
    <3>2. CASE (cur[s] = "device") # (s \in activeDevices)
      <4>1. Report(s, cur[s] = "device") /\ ((cur[s] = "device") <=> s \notin activeDevices)
        BY <2>5, <3>2 DEF ReadLine
      <4>2. PendingEventsAgree' /\ EveryEventIsAChange'
        BY <2>5, <4>1, ReportKeepsViews DEF ReadLine, TrackInv
      <4>3. NothingOutlivesStream'
        BY <2>5, <3>1 DEF ReadLine, TrackInv, NothingOutlivesStream
      <4> QED
        BY <2>14, <3>1, <4>2, <4>3 DEF TrackInv
    <3>3. CASE (cur[s] = "device") = (s \in activeDevices)
      BY <2>3, <2>5, <3>1, <3>3 DEF ReadLine
    <3> QED
      BY <3>2, <3>3
  <2>6. ASSUME NEW s \in Serials, ReportMissing(s) PROVE TrackInv'
    <3>1. reader = "missing" /\ s \in todo /\ s \in activeDevices
      BY <2>6 DEF ReportMissing, TrackInv, MissingAreActive
    <3>2. MissingAreActive'
      BY <2>6 DEF ReportMissing, Report, TrackInv, MissingAreActive
    <3>3. PendingEventsAgree' /\ EveryEventIsAChange'
      BY <2>6, <3>1, ReportKeepsViews DEF ReportMissing, TrackInv
    <3>4. NothingOutlivesStream'
      BY <2>6, <3>1 DEF ReportMissing, TrackInv, NothingOutlivesStream
    <3> QED
      BY <2>14, <3>2, <3>3, <3>4 DEF TrackInv
  \* The tracker.
  <2>7. CASE Established
    <3>1. tracker' = "track" /\ out' = <<>> /\ activeDevices' = {} /\ activeSerials' = {} /\ reader' = "read"
      BY <2>7 DEF Established, TrackInv, NothingOutlivesStream
    <3>2. Pending' = <<>> /\ Len(<<>>) = 0
      <4>1. sending' = <<>>
        BY <2>7 DEF Established, TrackInv, NothingOutlivesStream, SendsWithinList
      <4> QED
        BY <3>1, <4>1 DEF Pending
    <3>3. PendingEventsAgree' /\ EveryEventIsAChange'
      BY <3>1, <3>2 DEF PendingEventsAgree, EveryEventIsAChange, After
    <3> QED
      BY <2>14, <3>1, <3>3 DEF TrackInv, NothingOutlivesStream, MissingAreActive
  <2>8. ASSUME tracker' # "track", NothingOutlivesStream', MissingAreActive'
        PROVE  TrackInv'
    BY <2>14, <2>8 DEF TrackInv, PendingEventsAgree, EveryEventIsAChange
  <2>9. CASE DialFails
    BY <2>8, <2>9 DEF DialFails, ForgetAndWait, Stopped, TrackInv, NothingOutlivesStream, MissingAreActive
  <2>10. CASE StreamEnds
    BY <2>8, <2>10 DEF StreamEnds, ForgetAndWait, Stopped, NothingOutlivesStream, MissingAreActive
  <2>11. CASE StopTracking
    BY <2>8, <2>11 DEF StopTracking, Stopped, TrackInv, NothingOutlivesStream, MissingAreActive
  <2>12. CASE WaitOver
    BY <2>8, <2>12 DEF WaitOver, TrackInv, NothingOutlivesStream, MissingAreActive
  <2>13. CASE HandleEvent
    <3>1. /\ tracker = "track" /\ tracker' = "track" /\ out # <<>> /\ out' = Tail(out)
          /\ UNCHANGED <<reader, todo, activeDevices, sending>>
          /\ activeSerials' = IF Head(out).online THEN activeSerials \cup {Head(out).serial}
                              ELSE activeSerials \ {Head(out).serial}
      BY <2>13 DEF HandleEvent
    <3>2. Pending \in Seq(Events) /\ Pending # <<>> /\ Head(Pending) = Head(out) /\ Pending' = Tail(Pending)
      BY <3>1, PendingTyped, HeadIsAChange, HandleTakesFirst DEF TrackInv
    <3>3. /\ Len(Pending) \in Nat /\ Len(Pending) > 0 /\ Len(Pending') = Len(Pending) - 1
          /\ \A i \in 1..Len(Pending') : Pending'[i] = Pending[i + 1]
      BY <3>2, EventTail
    <3>4. ASSUME NEW k \in 0..(Len(Pending) - 1), NEW s
          PROVE  After(Pending', activeSerials', k, s) <=> After(Pending, activeSerials, k + 1, s)
      BY <3>1, <3>2, AfterHandle
    <3>5. PendingEventsAgree'
      <4> SUFFICES ASSUME NEW s \in Serials
                   PROVE  After(Pending', activeSerials', Len(Pending'), s) <=> s \in activeDevices
        BY <3>1 DEF PendingEventsAgree
      <4>1. Len(Pending') \in 0..(Len(Pending) - 1) /\ Len(Pending') + 1 = Len(Pending)
        BY <3>3
      <4>2. After(Pending, activeSerials, Len(Pending), s) <=> s \in activeDevices
        BY <3>1 DEF TrackInv, PendingEventsAgree
      <4> QED
        BY <3>4, <4>1, <4>2
    <3>6. EveryEventIsAChange'
      <4> SUFFICES ASSUME NEW i \in 1..Len(Pending')
                   PROVE  Pending'[i].online <=> ~After(Pending', activeSerials', i - 1, Pending'[i].serial)
        BY DEF EveryEventIsAChange
      <4>1. i - 1 \in 0..(Len(Pending) - 1) /\ (i - 1) + 1 = i /\ i + 1 \in 1..Len(Pending) /\ (i + 1) - 1 = i
        BY <3>3
      <4>2. Pending'[i] = Pending[i + 1]
        BY <3>3
      <4>3. Pending[i + 1].online <=> ~After(Pending, activeSerials, i, Pending[i + 1].serial)
        BY <3>1, <4>1 DEF TrackInv, EveryEventIsAChange
      <4>4. After(Pending', activeSerials', i - 1, Pending[i + 1].serial) <=> After(Pending, activeSerials, i, Pending[i + 1].serial)
        BY <3>4, <4>1
      <4> QED
        BY <4>2, <4>3, <4>4
    <3>7. NothingOutlivesStream' /\ MissingAreActive'
      BY <3>1 DEF TrackInv, NothingOutlivesStream, MissingAreActive
    <3> QED
      BY <2>14, <3>5, <3>6, <3>7 DEF TrackInv
  <2> QED
    BY <2>2, <2>4, <2>5, <2>6, <2>7, <2>9, <2>10, <2>11, <2>12, <2>13 DEF Next, Reader, Tracker
<1> QED
  BY <1>1, <1>2, TypeCorrect, PTL DEF Spec

(* For any devices and any channel capacity, handling the pending events   *)
(* makes the engine's registry equal to the reader's view of the devices.  *)
THEOREM PendingEventsAgreeAlways == Spec => []PendingEventsAgree
<1>1. TypeOK /\ TrackInv => PendingEventsAgree
  BY DEF TrackInv
<1> QED
  BY <1>1, TrackInvariance, PTL

(* Every event the engine handles is a real arrival or departure.          *)
THEOREM EveryEventIsAChangeAlways == Spec => []EveryEventIsAChange
<1>1. TypeOK /\ TrackInv => EveryEventIsAChange
  BY DEF TrackInv
<1> QED
  BY <1>1, TrackInvariance, PTL

(* The channel between TrackDevices' reader and the tracker keeps the two  *)
(* together, for any devices, lists and capacity.                          *)
THEOREM EventsAgreeAlways == Spec => []EventsAgree
<1>1. PendingEventsAgree /\ EveryEventIsAChange => EventsAgree
  BY DEF EventsAgree
<1> QED
  BY <1>1, PendingEventsAgreeAlways, EveryEventIsAChangeAlways, PTL

--------------------------------------------------------------------------------
(* The reader and the tracker together implement DeviceRegistry.           *)
THEOREM TrackerImplementsRegistry == Spec => ImplementsRegistry
<1>1. Init => Registry!Init
  BY DEF Init, Registry!Init
<1>2. TypeOK /\ TrackInv /\ [Next]_vars => [Registry!Next]_Registry!registryVars
  <2> SUFFICES ASSUME TypeOK, TrackInv, [Next]_vars
               PROVE  Registry!Next \/ UNCHANGED Registry!registryVars
    OBVIOUS
  <2> USE DEF envVars, connVars, readerVars, trackerVars
  <2>1. ASSUME UNCHANGED <<tracker, activeSerials>> PROVE UNCHANGED Registry!registryVars
    BY <2>1 DEF Registry!registryVars
  <2>2. CASE Environment \/ Reader \/ UNCHANGED vars
    <3>1. UNCHANGED <<tracker, activeSerials>>
      BY <2>2 DEF Environment, DeviceChange, ServerStart, ServerStop, ConnectionFails, CancelContext,
         Reader, ReadList, ReadFails, Send, LinesDone, ListDone, ReadLine, ReportMissing, vars
    <3> QED
      BY <2>1, <3>1
  <2>3. CASE Established
    BY <2>3 DEF Established, Registry!Next, Registry!Establish
  <2>4. CASE DialFails
    <3>1. CASE ~ctxDone /\ ForgetAndWait(FALSE)
      BY <2>4, <3>1 DEF DialFails, ForgetAndWait, TrackInv, NothingOutlivesStream, Registry!registryVars
    <3>2. CASE Stopped
      BY <2>4, <3>2 DEF DialFails, Stopped, Registry!Next, Registry!Stop
    <3> QED
      BY <2>4, <3>1, <3>2 DEF DialFails
  <2>5. CASE HandleEvent
    <3>1. tracker = "track" /\ out # <<>>
      BY <2>5 DEF HandleEvent
    <3>2. Head(out) \in Events /\ (Head(out).online <=> Head(out).serial \notin activeSerials)
      BY <3>1, HeadIsAChange DEF TrackInv
    <3>3. Head(out).serial \in Serials
      BY <3>2 DEF Events
    <3>4. CASE Head(out).online
      <4>1. Registry!Attach(Head(out).serial)
        BY <2>5, <3>2, <3>4 DEF HandleEvent, Registry!Attach
      <4> QED
        BY <3>3, <4>1 DEF Registry!Next
    <3>5. CASE ~Head(out).online
      <4>1. Registry!Detach(Head(out).serial)
        BY <2>5, <3>2, <3>5 DEF HandleEvent, Registry!Detach
      <4> QED
        BY <3>3, <4>1 DEF Registry!Next
    <3> QED
      BY <3>4, <3>5
  <2>6. CASE StreamEnds
    <3>1. CASE ~ctxDone /\ ForgetAndWait(TRUE)
      BY <2>6, <3>1 DEF StreamEnds, ForgetAndWait, Registry!Next, Registry!Lose
    <3>2. CASE Stopped
      BY <2>6, <3>2 DEF StreamEnds, Stopped, Registry!Next, Registry!Stop
    <3> QED
      BY <2>6, <3>1, <3>2 DEF StreamEnds
  <2>7. CASE StopTracking
    BY <2>7 DEF StopTracking, Stopped, Registry!Next, Registry!Stop
  <2>8. CASE WaitOver
    BY <2>8 DEF WaitOver, Registry!registryVars
  <2> QED
    BY <2>2, <2>3, <2>4, <2>5, <2>6, <2>7, <2>8 DEF Next, Tracker
<1> QED
  BY <1>1, <1>2, TrackInvariance, PTL DEF Spec, ImplementsRegistry, Registry!Spec

--------------------------------------------------------------------------------
(* The delays                                                              *)

NatOrder == OpToRel(<, Nat)

(* Induction over the naturals, with a set in place of a predicate.        *)
LEMMA SetInduction ==
    ASSUME NEW S \in SUBSET Nat, 0 \in S, \A n \in S : n + 1 \in S
    PROVE  S = Nat
<1> DEFINE T == Nat \ S
<1> SUFFICES ASSUME T # {} PROVE FALSE
  OBVIOUS
<1>1. IsWellFoundedOn(NatOrder, Nat)
  BY NatLessThanWellFounded, Zenon DEF NatOrder
<1>2. T \in SUBSET Nat
  OBVIOUS
<1>3. PICK x \in T : \A y \in T : ~(<<y, x>> \in NatOrder)
  BY <1>1, <1>2, WFMin
<1>4. \A y \in T : ~(y < x)
  BY <1>3 DEF NatOrder, OpToRel
<1>5. x \in Nat /\ x # 0
  OBVIOUS
<1>6. x - 1 \in Nat /\ x - 1 < x /\ (x - 1) + 1 = x
  BY <1>5
<1>7. x - 1 \in S
  BY <1>4, <1>6
<1> QED
  BY <1>6, <1>7

\* g doubles from 1, as far as n.
DoublesTo(g, n) ==
    /\ g \in [0..n -> Nat]
    /\ g[0] = 1
    /\ \A i \in 1..n : g[i] = 2 * g[i - 1]

(* There is such a function, as far as one likes.                          *)
LEMMA DoublingExists == \A n \in Nat : \E g : DoublesTo(g, n)
<1> DEFINE S == {n \in Nat : \E g : DoublesTo(g, n)}
<1>1. 0 \in S
  <2>1. DoublesTo([i \in 0..0 |-> 1], 0)
    BY DEF DoublesTo
  <2> QED
    BY <2>1
<1>2. ASSUME NEW n \in S PROVE n + 1 \in S
  <2>1. PICK g : DoublesTo(g, n)
    OBVIOUS
  <2> DEFINE h == [i \in 0..(n + 1) |-> IF i = n + 1 THEN 2 * g[n] ELSE g[i]]
  <2>2. n \in Nat /\ g \in [0..n -> Nat] /\ g[0] = 1 /\ \A i \in 1..n : g[i] = 2 * g[i - 1]
    BY <2>1 DEF DoublesTo
  <2>3. h \in [0..(n + 1) -> Nat]
    <3>1. ASSUME NEW i \in 0..(n + 1) PROVE (IF i = n + 1 THEN 2 * g[n] ELSE g[i]) \in Nat
      <4>1. n \in 0..n /\ g[n] \in Nat
        BY <2>2
      <4>2. CASE i = n + 1
        BY <4>1, <4>2
      <4>3. CASE i # n + 1
        BY <2>2, <4>3
      <4> QED
        BY <4>2, <4>3
    <3> QED
      BY <3>1
  <2>4. h[n + 1] = 2 * g[n] /\ \A i \in 0..n : h[i] = g[i]
    BY <2>2
  <2> HIDE DEF h
  <2>5. h[0] = 1
    BY <2>2, <2>4
  <2>6. ASSUME NEW i \in 1..(n + 1) PROVE h[i] = 2 * h[i - 1]
    <3>1. CASE i = n + 1
      BY <2>2, <2>4, <3>1
    <3>2. CASE i # n + 1
      <4>1. i \in 1..n /\ i \in 0..n /\ i - 1 \in 0..n
        BY <2>2, <3>2
      <4> QED
        BY <2>2, <2>4, <4>1
    <3> QED
      BY <3>1, <3>2
  <2>7. DoublesTo(h, n + 1)
    BY <2>3, <2>5, <2>6 DEF DoublesTo
  <2> QED
    BY <2>2, <2>7
<1> HIDE DEF S
<1>3. S \in SUBSET Nat /\ \A n \in S : \E g : DoublesTo(g, n)
  BY DEF S
<1> QED
  BY <1>1, <1>2, <1>3, SetInduction

(* Two of them agree as far as both go.                                    *)
LEMMA DoublingUnique ==
    ASSUME NEW n \in Nat, NEW m \in Nat, NEW g, NEW h, DoublesTo(g, n), DoublesTo(h, m)
    PROVE  \A i \in Nat : i <= n /\ i <= m => g[i] = h[i]
<1> DEFINE S == {i \in Nat : i <= n /\ i <= m => g[i] = h[i]}
<1>1. 0 \in S
  BY DEF DoublesTo
<1>2. ASSUME NEW i \in S PROVE i + 1 \in S
  <2> SUFFICES ASSUME i + 1 <= n, i + 1 <= m PROVE g[i + 1] = h[i + 1]
    OBVIOUS
  <2>1. i \in Nat /\ i <= n /\ i <= m /\ i + 1 \in 1..n /\ i + 1 \in 1..m /\ (i + 1) - 1 = i
    OBVIOUS
  <2>2. g[i] = h[i]
    BY <2>1
  <2>3. g[i + 1] = 2 * g[i] /\ h[i + 1] = 2 * h[i]
    BY <2>1 DEF DoublesTo
  <2> QED
    BY <2>2, <2>3
<1> HIDE DEF S
<1>3. S \in SUBSET Nat /\ \A i \in S : i <= n /\ i <= m => g[i] = h[i]
  BY DEF S
<1> QED
  BY <1>1, <1>2, <1>3, SetInduction

(* The recursion of Doubled defines a function on the naturals.            *)
LEMMA DoubledIs ==
    /\ Doubled \in [Nat -> Nat]
    /\ Doubled[0] = 1
    /\ \A n \in Nat : Doubled[n + 1] = 2 * Doubled[n]
<1> DEFINE G(n) == CHOOSE g : DoublesTo(g, n)
           f == [n \in Nat |-> G(n)[n]]
<1>1. \A n \in Nat : DoublesTo(G(n), n)
  BY DoublingExists, Zenon
<1> HIDE DEF G
<1>2. ASSUME NEW n \in Nat PROVE G(n)[n] \in Nat
  <2>1. G(n) \in [0..n -> Nat] /\ n \in 0..n
    BY <1>1 DEF DoublesTo
  <2> QED
    BY <2>1
<1>3. f \in [Nat -> Nat] /\ \A n \in Nat : f[n] = G(n)[n]
  BY <1>2
<1>4. G(0)[0] = 1
  BY <1>1 DEF DoublesTo
<1>5. ASSUME NEW n \in Nat, n # 0 PROVE G(n)[n] = 2 * G(n - 1)[n - 1]
  <2>1. n - 1 \in Nat /\ n \in 1..n /\ n - 1 <= n
    BY <1>5
  <2>2. DoublesTo(G(n), n) /\ DoublesTo(G(n - 1), n - 1)
    BY <1>1, <2>1
  <2>3. G(n)[n - 1] = G(n - 1)[n - 1]
    BY <2>1, <2>2, DoublingUnique
  <2>4. G(n)[n] = 2 * G(n)[n - 1]
    BY <2>1, <2>2 DEF DoublesTo
  <2> QED
    BY <2>3, <2>4
<1> HIDE DEF f
<1>6. ASSUME NEW n \in Nat PROVE f[n] = IF n = 0 THEN 1 ELSE 2 * f[n - 1]
  <2>1. CASE n = 0
    BY <1>3, <1>4, <2>1
  <2>2. CASE n # 0
    <3>1. n - 1 \in Nat
      BY <2>2
    <3> QED
      BY <1>3, <1>5, <2>2, <3>1
  <2> QED
    BY <2>1, <2>2
<1>7. f = [n \in Nat |-> IF n = 0 THEN 1 ELSE 2 * f[n - 1]]
  BY <1>3, <1>6
<1>8. Doubled = [n \in Nat |-> IF n = 0 THEN 1 ELSE 2 * Doubled[n - 1]]
  BY <1>7, Zenon DEF Doubled
<1>9. \A n \in Nat : Doubled[n] = IF n = 0 THEN 1 ELSE 2 * Doubled[n - 1]
  BY <1>8
<1>10. \A n \in Nat : n + 1 \in Nat /\ n + 1 # 0 /\ (n + 1) - 1 = n
  OBVIOUS
<1>11. Doubled[0] = 1 /\ \A n \in Nat : Doubled[n + 1] = 2 * Doubled[n]
  BY <1>9, <1>10
<1> DEFINE S == {n \in Nat : Doubled[n] \in Nat}
<1>12. 0 \in S /\ \A n \in S : n + 1 \in S
  BY <1>11
<1>13. S \in SUBSET Nat
  OBVIOUS
<1>14. S = Nat
  <2> HIDE DEF S
  <2> QED
    BY <1>12, <1>13, SetInduction
<1>15. Doubled \in [Nat -> Nat]
  BY <1>8, <1>14
<1> QED
  BY <1>11, <1>15

(* The delay doubles from one dial to the next, and stays at the maximum:  *)
(* WaitOver counts a delay exactly when it lengthened it, and only         *)
(* ForgetAndWait after a stream starts both again.                         *)
THEOREM DelayDoublesAlways == Spec => []DelayDoubles
<1>1. Init => DelayDoubles
  <2> SUFFICES ASSUME Init PROVE DelayDoubles
    OBVIOUS
  <2>1. RetryMin * Doubled[0] = RetryMin
    BY TrackerAssumption, DoubledIs
  <2>2. backoff = RetryMin /\ retries = 0
    BY DEF Init
  <2> QED
    BY <2>1, <2>2, TrackerAssumption DEF DelayDoubles
<1>2. TypeOK /\ DelayDoubles /\ [Next]_vars => DelayDoubles'
  <2> SUFFICES ASSUME TypeOK, DelayDoubles, [Next]_vars PROVE DelayDoubles'
    OBVIOUS
  <2>1. ASSUME backoff' = backoff, retries' = retries PROVE DelayDoubles'
    BY <2>1 DEF DelayDoubles
  <2>2. ASSUME backoff' = RetryMin, retries' = 0 PROVE DelayDoubles'
    <3>1. RetryMin * Doubled[0] = RetryMin
      BY TrackerAssumption, DoubledIs
    <3> QED
      BY <2>2, <3>1, TrackerAssumption DEF DelayDoubles
  <2>3. ASSUME NEW b \in BOOLEAN, ForgetAndWait(b) PROVE DelayDoubles'
    BY <2>1, <2>2, <2>3 DEF ForgetAndWait
  <2>4. ASSUME Stopped PROVE DelayDoubles'
    BY <2>1, <2>4 DEF Stopped
  <2>5. CASE WaitOver
    <3> DEFINE d == Doubled[retries]
               e == Doubled[retries + 1]
    <3>1. retries \in Nat /\ backoff \in Nat
      BY TrackerAssumption DEF TypeOK
    <3>2. d \in Nat /\ e = 2 * d
      BY <3>1, DoubledIs
    <3>3. backoff = IF RetryMin * d < RetryMax THEN RetryMin * d ELSE RetryMax
      BY DEF DelayDoubles
    <3>4. backoff' = (IF backoff * 2 < RetryMax THEN backoff * 2 ELSE RetryMax)
          /\ retries' = (IF backoff = RetryMax THEN retries ELSE retries + 1)
      BY <2>5 DEF WaitOver
    <3>5. CASE backoff = RetryMax
      <4>1. backoff' = backoff
        BY <3>4, <3>5, TrackerAssumption
      <4> QED
        BY <2>1, <3>4, <3>5, <4>1
    <3>6. CASE backoff # RetryMax
      <4> DEFINE m == RetryMin * d
      <4>1. m \in Nat /\ m < RetryMax /\ backoff = m
        BY <3>2, <3>3, <3>6, TrackerAssumption
      <4>2. RetryMin * e = m * 2
        <5>1. \A a \in Nat, c \in Nat : a * (2 * c) = (a * c) * 2
          BY SMT
        <5> QED
          BY <3>2, <5>1, TrackerAssumption
      <4>3. backoff' = (IF m * 2 < RetryMax THEN m * 2 ELSE RetryMax) /\ retries' = retries + 1
        BY <3>4, <3>6, <4>1
      <4>4. backoff' = IF RetryMin * Doubled[retries'] < RetryMax THEN RetryMin * Doubled[retries'] ELSE RetryMax
        BY <4>2, <4>3
      <4> QED
        BY <4>4 DEF DelayDoubles
    <3> QED
      BY <3>5, <3>6
  <2>6. CASE Reader \/ Environment
    BY <2>1, <2>6 DEF Reader, ReadList, ReadFails, Send, LinesDone, ListDone, ReadLine, ReportMissing,
       Environment, DeviceChange, ServerStart, ServerStop, ConnectionFails, CancelContext, trackerVars
  <2>7. CASE Established \/ HandleEvent
    BY <2>1, <2>7 DEF Established, HandleEvent
  <2>8. CASE DialFails \/ StreamEnds \/ StopTracking
    BY <2>3, <2>4, <2>8 DEF DialFails, StreamEnds, StopTracking
  <2>9. CASE UNCHANGED vars
    BY <2>1, <2>9 DEF vars, trackerVars
  <2> QED
    BY <2>5, <2>6, <2>7, <2>8, <2>9 DEF Next, Tracker
<1> QED
  BY <1>1, <1>2, TypeCorrect, PTL DEF Spec

================================================================================
