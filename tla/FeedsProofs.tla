------------------------------ MODULE FeedsProofs ------------------------------
(* Proofs about the parts of DesktopFeeds for any values of the constants: *)
(* first each component on its own, then, in the last section, the         *)
(* properties of DesktopFeeds itself.                                      *)
EXTENDS DesktopFeeds, TLAPS

--------------------------------------------------------------------------------
(* EventStreams: the inductive invariant                                   *)

Events == Casters \X Nat

StreamType ==
    /\ serial \in [Casters -> 0..MaxEvents] /\ todo \in [Casters -> SUBSET Streams]
    /\ locked \subseteq Casters
    /\ spc \in [Streams -> {"new", "on", "leaving", "gone"}]
    /\ subs = {s \in Streams : spc[s] \in {"on", "leaving"}}
    /\ subCh \in [Streams -> Seq(Events)] /\ \A s \in Streams : Len(subCh[s]) <= ChanCap
    /\ got \in [Streams -> [Casters -> Nat]]
    /\ ~sentClosed

\* Only who holds the read lock has somebody left to offer its event to, and
\* only subscribers.
LockKept ==
    \A b \in Casters : todo[b] \subseteq subs /\ (b \notin locked => todo[b] = {})

\* The events in q come in order, and after those in g.
InOrder(q, g) ==
    \A j \in 1..Len(q) :
        /\ q[j][2] > g[q[j][1]]
        /\ \A i \in 1..(j - 1) : q[i][1] = q[j][1] => q[i][2] < q[j][2]

\* No event of b, in q or in g, is later than the n-th.
UpTo(q, g, b, n) == g[b] <= n /\ \A j \in 1..Len(q) : q[j][1] = b => q[j][2] <= n

\* A stream a broadcast has still to reach has nothing as new as its event.
OrderKept ==
    \A s \in Streams :
        /\ InOrder(subCh[s], got[s])
        /\ \A b \in Casters :
              /\ UpTo(subCh[s], got[s], b, serial[b])
              /\ s \in todo[b] => UpTo(subCh[s], got[s], b, serial[b] - 1)

StreamInv == StreamType /\ LockKept /\ OrderKept

(* A newer event at the end of a channel keeps the order.                  *)
LEMMA OrderAppend ==
    ASSUME NEW C, NEW q \in Seq(C \X Nat), NEW g \in [C -> Nat], NEW b \in C, NEW n \in Nat,
           InOrder(q, g), UpTo(q, g, b, n - 1)
    PROVE  /\ InOrder(Append(q, <<b, n>>), g)
           /\ UpTo(Append(q, <<b, n>>), g, b, n)
           /\ \A c \in C, m \in Int : c # b /\ UpTo(q, g, c, m) => UpTo(Append(q, <<b, n>>), g, c, m)
<1> DEFINE e == <<b, n>>
           r == Append(q, e)
<1>1. e \in C \X Nat /\ e[1] = b /\ e[2] = n
      OBVIOUS
<1> HIDE DEF e
<1>2. Len(q) \in Nat /\ Len(r) = Len(q) + 1 /\ r[Len(q) + 1] = e /\ \A j \in 1..Len(q) : r[j] = q[j]
      BY <1>1
<1>3. \A j \in 1..Len(q) : q[j] \in C \X Nat
      OBVIOUS
<1>4. \A j \in 1..Len(q) : q[j][1] \in C /\ q[j][2] \in Nat
      BY <1>3
<1> HIDE DEF r
<1>5. ASSUME NEW j \in 1..Len(r)
      PROVE  /\ r[j][2] > g[r[j][1]]
             /\ \A i \in 1..(j - 1) : r[i][1] = r[j][1] => r[i][2] < r[j][2]
      <2>1. CASE j \in 1..Len(q)
            <3>1. \A i \in 1..(j - 1) : i \in 1..Len(q)
                  BY <1>2, <2>1
            <3> QED
                BY <1>2, <2>1, <3>1 DEF InOrder
      <2>2. CASE j = Len(q) + 1
            <3>1. r[j] = e
                  BY <1>2, <2>2
            <3>2. n > g[b]
                  BY DEF UpTo
            <3>3. ASSUME NEW i \in 1..(j - 1), r[i][1] = b
                  PROVE  r[i][2] < n
                  <4>1. i \in 1..Len(q) /\ r[i] = q[i]
                        BY <1>2, <2>2
                  <4>2. q[i][2] <= n - 1 /\ q[i][2] \in Nat
                        BY <1>4, <3>3, <4>1 DEF UpTo
                  <4> QED
                      BY <4>1, <4>2
            <3> QED
                BY <1>1, <3>1, <3>2, <3>3
      <2> QED
          BY <1>2, <2>1, <2>2
<1>6. InOrder(r, g)
      BY <1>5 DEF InOrder
<1>7. UpTo(r, g, b, n)
      <2>1. g[b] <= n
            BY DEF UpTo
      <2>2. ASSUME NEW j \in 1..Len(r), r[j][1] = b
            PROVE  r[j][2] <= n
            <3>1. CASE j \in 1..Len(q)
                  <4>1. q[j][2] <= n - 1 /\ q[j][2] \in Nat
                        BY <1>2, <1>4, <2>2, <3>1 DEF UpTo
                  <4> QED
                      BY <1>2, <3>1, <4>1
            <3>2. CASE j = Len(q) + 1
                  BY <1>1, <1>2, <3>2
            <3> QED
                BY <1>2, <3>1, <3>2
      <2> QED
          BY <2>1, <2>2 DEF UpTo
<1>8. ASSUME NEW c \in C, NEW m \in Int, c # b, UpTo(q, g, c, m)
      PROVE  UpTo(r, g, c, m)
      <2>1. ASSUME NEW j \in 1..Len(r), r[j][1] = c
            PROVE  r[j][2] <= m
            <3>1. j \in 1..Len(q)
                  <4>1. j # Len(q) + 1
                        BY <1>1, <1>2, <1>8, <2>1
                  <4> QED
                      BY <1>2, <4>1
            <3> QED
                BY <1>2, <1>8, <2>1, <3>1 DEF UpTo
      <2> QED
          BY <1>8, <2>1 DEF UpTo
<1> QED
    BY <1>6, <1>7, <1>8 DEF r, e

(* The first event, sent or dropped, leaves the order.                     *)
LEMMA OrderTail ==
    ASSUME NEW C, NEW q \in Seq(C \X Nat), NEW g \in [C -> Nat], q # <<>>, InOrder(q, g),
           NEW h, h = g \/ h = [g EXCEPT ![Head(q)[1]] = Head(q)[2]]
    PROVE  /\ InOrder(Tail(q), h)
           /\ \A c \in C, m \in Int : UpTo(q, g, c, m) => UpTo(Tail(q), h, c, m)
<1> DEFINE r == Tail(q)
<1>1. Len(q) \in Nat /\ Len(q) > 0 /\ Len(r) = Len(q) - 1 /\ Head(q) = q[1]
      OBVIOUS
<1>2. \A j \in 1..Len(r) : j + 1 \in 1..Len(q) /\ r[j] = q[j + 1]
      BY <1>1
<1>3. \A j \in 1..Len(q) : q[j] \in C \X Nat
      OBVIOUS
<1>4. \A j \in 1..Len(q) : q[j][1] \in C /\ q[j][2] \in Nat
      BY <1>3
<1>5. 1 \in 1..Len(q)
      BY <1>1
<1> HIDE DEF r
<1>6. ASSUME NEW c \in C
      PROVE  h[c] = g[c] \/ (h[c] = q[1][2] /\ c = q[1][1])
      BY <1>1
<1>7. ASSUME NEW j \in 1..Len(r)
      PROVE  /\ r[j][2] > h[r[j][1]]
             /\ \A i \in 1..(j - 1) : r[i][1] = r[j][1] => r[i][2] < r[j][2]
      <2>1. j + 1 \in 1..Len(q) /\ r[j] = q[j + 1] /\ q[j + 1][1] \in C /\ q[j + 1][2] \in Nat
            BY <1>2, <1>4
      <2>2. q[j + 1][2] > g[q[j + 1][1]]
            BY <2>1 DEF InOrder
      <2>3. \A i \in 1..((j + 1) - 1) : q[i][1] = q[j + 1][1] => q[i][2] < q[j + 1][2]
            BY <2>1 DEF InOrder
      <2>4. q[1][1] = q[j + 1][1] => q[1][2] < q[j + 1][2]
            BY <2>3
      <2>5. r[j][2] > h[r[j][1]]
            BY <1>4, <1>5, <1>6, <2>1, <2>2, <2>4
      <2>6. ASSUME NEW i \in 1..(j - 1), r[i][1] = r[j][1]
            PROVE  r[i][2] < r[j][2]
            <3>1. i \in 1..Len(r) /\ i + 1 \in 1..((j + 1) - 1)
                  BY <1>1
            <3>2. r[i] = q[i + 1]
                  BY <1>2, <3>1
            <3> QED
                BY <2>1, <2>3, <2>6, <3>1, <3>2
      <2> QED
          BY <2>5, <2>6
<1>8. ASSUME NEW c \in C, NEW m \in Int, UpTo(q, g, c, m)
      PROVE  UpTo(r, h, c, m)
      <2>1. h[c] <= m
            BY <1>5, <1>6, <1>8 DEF UpTo
      <2>2. \A j \in 1..Len(r) : r[j][1] = c => r[j][2] <= m
            BY <1>2, <1>8 DEF UpTo
      <2> QED
          BY <2>1, <2>2 DEF UpTo
<1>9. InOrder(r, h)
      BY <1>7 DEF InOrder
<1> QED
    BY <1>8, <1>9 DEF r

--------------------------------------------------------------------------------
(* EventStreams: each step keeps the invariant                             *)

(* What Offer does to a channel.                                           *)
LEMMA OfferEffect ==
    ASSUME Streaming!StreamsAssumption, StreamInv, NEW b \in Casters, NEW s \in Streams, Streaming!Offer(b, s)
    PROVE  /\ subCh' = subCh \/ subCh' = [subCh EXCEPT ![s] = Append(subCh[s], <<b, serial[b]>>)]
           /\ \A t \in Streams : Len(subCh'[t]) <= ChanCap
           /\ subCh' \in [Streams -> Seq(Events)]
<1>1. subCh \in [Streams -> Seq(Events)] /\ (\A t \in Streams : Len(subCh[t]) <= ChanCap) /\ ChanCap \in Nat
      BY DEF StreamInv, StreamType, Streaming!StreamsAssumption
<1>2. <<b, serial[b]>> \in Events
      BY DEF StreamInv, StreamType, Events, Streaming!StreamsAssumption
<1>3. CASE Len(subCh[s]) < ChanCap
      <2> DEFINE q == Append(subCh[s], <<b, serial[b]>>)
      <2>1. subCh' = [subCh EXCEPT ![s] = q]
            BY <1>3 DEF Streaming!Offer, Streaming!Event
      <2>2. q \in Seq(Events) /\ Len(q) = Len(subCh[s]) + 1 /\ Len(subCh[s]) \in Nat
            BY <1>1, <1>2
      <2> HIDE DEF q
      <2>3. subCh' \in [Streams -> Seq(Events)] /\ subCh'[s] = q
            BY <1>1, <2>1, <2>2
      <2>4. \A t \in Streams : t # s => subCh'[t] = subCh[t]
            BY <1>1, <2>1
      <2>5. Len(q) <= ChanCap
            BY <1>1, <1>3, <2>2
      <2>6. \A t \in Streams : Len(subCh'[t]) <= ChanCap
            BY <1>1, <2>3, <2>4, <2>5
      <2> QED
          BY <2>1, <2>3, <2>6 DEF q
<1>4. CASE ~(Len(subCh[s]) < ChanCap)
      <2>1. subCh' = subCh
            BY <1>1, <1>4 DEF Streaming!Offer
      <2> QED
          BY <1>1, <2>1
<1> QED
    BY <1>3, <1>4

(* What Send does to a channel and to what its peer has.                   *)
LEMMA SendEffect ==
    ASSUME StreamInv, NEW s \in Streams, Streaming!Send(s)
    PROVE  /\ subCh[s] # <<>> /\ subCh' = [subCh EXCEPT ![s] = Tail(subCh[s])]
           /\ \E h \in [Casters -> Nat] :
                 /\ h = got[s] \/ h = [got[s] EXCEPT ![Head(subCh[s])[1]] = Head(subCh[s])[2]]
                 /\ got' = [got EXCEPT ![s] = h]
<1>1. subCh[s] # <<>> /\ subCh' = [subCh EXCEPT ![s] = Tail(subCh[s])]
      BY DEF Streaming!Send
<1>2. got \in [Streams -> [Casters -> Nat]]
      BY DEF StreamInv, StreamType
<1>3. subCh[s] \in Seq(Events)
      BY DEF StreamInv, StreamType
<1>4. Head(subCh[s]) \in Events
      BY <1>1, <1>3
<1>5. Head(subCh[s])[1] \in Casters /\ Head(subCh[s])[2] \in Nat
      BY <1>4 DEF Events
<1>6. CASE got' = got
      <2>1. got' = [got EXCEPT ![s] = got[s]]
            BY <1>2, <1>6
      <2> QED
          BY <1>1, <1>2, <2>1
<1>7. CASE got' = [got EXCEPT ![s][Head(subCh[s])[1]] = Head(subCh[s])[2]]
      <2> DEFINE h == [got[s] EXCEPT ![Head(subCh[s])[1]] = Head(subCh[s])[2]]
      <2>1. h \in [Casters -> Nat]
            BY <1>2, <1>5
      <2>2. got' = [got EXCEPT ![s] = h]
            BY <1>7
      <2> QED
          BY <1>1, <2>1, <2>2
<1> QED
    BY <1>6, <1>7 DEF Streaming!Send

(* The types of the variables, with a closed channel out of reach.         *)
LEMMA StreamTypeStep ==
    ASSUME Streaming!StreamsAssumption, StreamInv, [Streaming!Next]_(Streaming!vars)
    PROVE  StreamType'
<1>1. ASSUME NEW b \in Casters, Streaming!BroadcastEvent(b)
      PROVE  StreamType'
      <2>1. serial' \in [Casters -> 0..MaxEvents]
            BY <1>1 DEF Streaming!BroadcastEvent, StreamInv, StreamType, Streaming!StreamsAssumption
      <2>2. todo' \in [Casters -> SUBSET Streams] /\ locked' \subseteq Casters
            BY <1>1 DEF Streaming!BroadcastEvent, StreamInv, StreamType
      <2> QED
          BY <1>1, <2>1, <2>2 DEF Streaming!BroadcastEvent, StreamInv, StreamType
<1>2. ASSUME NEW b \in Casters, NEW s \in Streams, Streaming!Offer(b, s)
      PROVE  StreamType'
      <2>1. s \in subs
            BY <1>2 DEF Streaming!Offer, StreamInv, LockKept
      <2>2. spc[s] # "gone"
            BY <2>1 DEF StreamInv, StreamType
      <2>3. ~sentClosed'
            BY <1>2, <2>2 DEF Streaming!Offer, StreamInv, StreamType
      <2>4. todo' \in [Casters -> SUBSET Streams]
            BY <1>2 DEF Streaming!Offer, StreamInv, StreamType
      <2>5. UNCHANGED <<serial, locked, spc, subs, got>>
            BY <1>2 DEF Streaming!Offer
      <2> QED
          BY <1>2, <2>3, <2>4, <2>5, OfferEffect DEF StreamInv, StreamType
<1>3. ASSUME NEW b \in Casters, Streaming!Unlock(b)
      PROVE  StreamType'
      BY <1>3 DEF Streaming!Unlock, StreamInv, StreamType
<1>4. ASSUME NEW s \in Streams, Streaming!Subscribe(s) \/ Streaming!HangUp(s) \/ Streaming!Unsubscribe(s)
      PROVE  StreamType'
      <2>1. spc' \in [Streams -> {"new", "on", "leaving", "gone"}]
            BY <1>4 DEF Streaming!Subscribe, Streaming!HangUp, Streaming!Unsubscribe, StreamInv, StreamType
      <2>2. \A t \in Streams : t # s => spc'[t] = spc[t]
            BY <1>4 DEF Streaming!Subscribe, Streaming!HangUp, Streaming!Unsubscribe, StreamInv, StreamType
      <2>3. \/ spc'[s] = "on" /\ subs' = subs \cup {s}
            \/ spc[s] = "on" /\ spc'[s] = "leaving" /\ subs' = subs
            \/ spc'[s] = "gone" /\ subs' = subs \ {s}
            BY <1>4 DEF Streaming!Subscribe, Streaming!HangUp, Streaming!Unsubscribe, StreamInv, StreamType
      <2>4. subs' = {t \in Streams : spc'[t] \in {"on", "leaving"}}
            BY <2>2, <2>3 DEF StreamInv, StreamType
      <2>5. UNCHANGED <<serial, todo, locked, subCh, got, sentClosed>>
            BY <1>4 DEF Streaming!Subscribe, Streaming!HangUp, Streaming!Unsubscribe
      <2> QED
          BY <2>1, <2>4, <2>5 DEF StreamInv, StreamType
<1>5. ASSUME NEW s \in Streams, Streaming!Send(s)
      PROVE  StreamType'
      <2>1. subCh \in [Streams -> Seq(Events)] /\ (\A t \in Streams : Len(subCh[t]) <= ChanCap) /\ ChanCap \in Nat
            BY DEF StreamInv, StreamType, Streaming!StreamsAssumption
      <2>2. subCh[s] # <<>> /\ subCh' = [subCh EXCEPT ![s] = Tail(subCh[s])]
            BY <1>5, SendEffect
      <2>3. Tail(subCh[s]) \in Seq(Events) /\ Len(Tail(subCh[s])) <= ChanCap
            BY <2>1, <2>2
      <2>4. subCh' \in [Streams -> Seq(Events)] /\ \A t \in Streams : Len(subCh'[t]) <= ChanCap
            BY <2>1, <2>2, <2>3
      <2>5. got' \in [Streams -> [Casters -> Nat]]
            BY <1>5, SendEffect DEF StreamInv, StreamType
      <2>6. /\ spc' \in [Streams -> {"new", "on", "leaving", "gone"}]
            /\ \A t \in Streams : spc'[t] \in {"on", "leaving"} <=> spc[t] \in {"on", "leaving"}
            BY <1>5 DEF Streaming!Send, StreamInv, StreamType
      <2>7. UNCHANGED <<serial, todo, locked, subs, sentClosed>>
            BY <1>5 DEF Streaming!Send
      <2> QED
          BY <2>4, <2>5, <2>6, <2>7 DEF StreamInv, StreamType
<1>6. CASE UNCHANGED Streaming!vars
      BY <1>6 DEF Streaming!vars, StreamInv, StreamType
<1> QED
    BY <1>1, <1>2, <1>3, <1>4, <1>5, <1>6 DEF Streaming!Next, Streaming!Casts

(* A stream enters and leaves only while nobody broadcasts.                *)
LEMMA LockKeptStep ==
    ASSUME StreamInv, [Streaming!Next]_(Streaming!vars)
    PROVE  LockKept'
<1>1. todo \in [Casters -> SUBSET Streams]
      BY DEF StreamInv, StreamType
<1>2. ASSUME NEW b \in Casters, Streaming!BroadcastEvent(b)
      PROVE  LockKept'
      BY <1>1, <1>2 DEF Streaming!BroadcastEvent, StreamInv, LockKept
<1>3. ASSUME NEW b \in Casters, NEW s \in Streams, Streaming!Offer(b, s)
      PROVE  LockKept'
      BY <1>1, <1>3 DEF Streaming!Offer, StreamInv, LockKept
<1>4. ASSUME NEW b \in Casters, Streaming!Unlock(b)
      PROVE  LockKept'
      BY <1>1, <1>4 DEF Streaming!Unlock, StreamInv, LockKept
<1>5. ASSUME NEW s \in Streams, Streaming!Subscribe(s) \/ Streaming!Unsubscribe(s)
      PROVE  LockKept'
      <2>1. \A b \in Casters : todo[b] = {}
            BY <1>5 DEF Streaming!Subscribe, Streaming!Unsubscribe, StreamInv, LockKept
      <2> QED
          BY <1>5, <2>1 DEF Streaming!Subscribe, Streaming!Unsubscribe, LockKept
<1>6. ASSUME NEW s \in Streams, Streaming!Send(s) \/ Streaming!HangUp(s)
      PROVE  LockKept'
      BY <1>6 DEF Streaming!Send, Streaming!HangUp, StreamInv, LockKept
<1>7. CASE UNCHANGED Streaming!vars
      BY <1>7 DEF Streaming!vars, StreamInv, LockKept
<1> QED
    BY <1>2, <1>3, <1>4, <1>5, <1>6, <1>7 DEF Streaming!Next, Streaming!Casts

(* Every channel stays in order, behind what its peer has and up to what   *)
(* has been broadcast.                                                     *)
LEMMA OrderKeptStep ==
    ASSUME Streaming!StreamsAssumption, StreamInv, [Streaming!Next]_(Streaming!vars)
    PROVE  OrderKept'
<1>1. /\ serial \in [Casters -> Nat] /\ todo \in [Casters -> SUBSET Streams]
      /\ subCh \in [Streams -> Seq(Events)] /\ got \in [Streams -> [Casters -> Nat]]
      BY DEF StreamInv, StreamType, Streaming!StreamsAssumption
<1>2. OrderKept
      BY DEF StreamInv
<1>3. ASSUME NEW b \in Casters, Streaming!BroadcastEvent(b)
      PROVE  OrderKept'
      <2>1. serial' = [serial EXCEPT ![b] = serial[b] + 1] /\ todo' = [todo EXCEPT ![b] = subs]
            BY <1>3 DEF Streaming!BroadcastEvent
      <2>2. UNCHANGED <<subCh, got>>
            BY <1>3 DEF Streaming!BroadcastEvent
      <2>3. ASSUME NEW s \in Streams, NEW c \in Casters
            PROVE  /\ UpTo(subCh[s], got[s], c, serial'[c])
                   /\ s \in todo'[c] => UpTo(subCh[s], got[s], c, serial'[c] - 1)
            <3>1. CASE c # b
                  BY <1>1, <1>2, <2>1, <3>1 DEF OrderKept
            <3>2. CASE c = b
                  <4>1. serial'[c] = serial[c] + 1 /\ serial[c] \in Nat /\ serial'[c] - 1 = serial[c]
                        BY <1>1, <2>1, <3>2
                  <4>2. UpTo(subCh[s], got[s], c, serial[c])
                        BY <1>2 DEF OrderKept
                  <4>3. \A j \in 1..Len(subCh[s]) : subCh[s][j] \in Events
                        BY <1>1
                  <4>4. (\A j \in 1..Len(subCh[s]) : subCh[s][j][2] \in Nat) /\ got[s][c] \in Nat
                        BY <1>1, <4>3 DEF Events
                  <4>5. UpTo(subCh[s], got[s], c, serial[c] + 1)
                        BY <4>1, <4>2, <4>4 DEF UpTo
                  <4> QED
                      BY <4>1, <4>2, <4>5
            <3> QED
                BY <3>1, <3>2
      <2> QED
          BY <1>2, <2>2, <2>3 DEF OrderKept
<1>4. ASSUME NEW b \in Casters, NEW s \in Streams, Streaming!Offer(b, s)
      PROVE  OrderKept'
      <2>1. s \in todo[b] /\ todo' = [todo EXCEPT ![b] = todo[b] \ {s}] /\ UNCHANGED <<serial, got>>
            BY <1>4 DEF Streaming!Offer
      <2>2. \A c \in Casters : todo'[c] \subseteq todo[c]
            BY <1>1, <2>1
      <2>3. s \notin todo'[b]
            BY <1>1, <2>1
      <2>4. CASE subCh' = subCh
            BY <1>2, <2>1, <2>2, <2>4 DEF OrderKept
      <2>5. CASE subCh' = [subCh EXCEPT ![s] = Append(subCh[s], <<b, serial[b]>>)]
            <3> DEFINE q == Append(subCh[s], <<b, serial[b]>>)
            <3>1. subCh'[s] = q /\ \A t \in Streams : t # s => subCh'[t] = subCh[t]
                  BY <1>1, <2>5
            <3>2. /\ InOrder(q, got[s]) /\ UpTo(q, got[s], b, serial[b])
                  /\ \A c \in Casters, m \in Int : c # b /\ UpTo(subCh[s], got[s], c, m) => UpTo(q, got[s], c, m)
                  <4>1. InOrder(subCh[s], got[s]) /\ UpTo(subCh[s], got[s], b, serial[b] - 1)
                        BY <1>2, <2>1 DEF OrderKept
                  <4>2. subCh[s] \in Seq(Casters \X Nat) /\ got[s] \in [Casters -> Nat] /\ serial[b] \in Nat
                        BY <1>1 DEF Events
                  <4> QED
                      BY <4>1, <4>2, OrderAppend
            <3> HIDE DEF q
            <3>3. ASSUME NEW c \in Casters
                  PROVE  /\ UpTo(q, got[s], c, serial[c])
                         /\ s \in todo'[c] => UpTo(q, got[s], c, serial[c] - 1)
                  <4>1. serial[c] \in Int /\ serial[c] - 1 \in Int
                        BY <1>1
                  <4> QED
                      BY <1>2, <2>2, <2>3, <3>2, <4>1 DEF OrderKept
            <3>4. ASSUME NEW t \in Streams
                  PROVE  /\ InOrder(subCh'[t], got[t])
                         /\ \A c \in Casters :
                               /\ UpTo(subCh'[t], got[t], c, serial[c])
                               /\ t \in todo'[c] => UpTo(subCh'[t], got[t], c, serial[c] - 1)
                  BY <1>2, <2>2, <3>1, <3>2, <3>3 DEF OrderKept
            <3> QED
                BY <2>1, <3>4 DEF OrderKept
      <2> QED
          BY <1>4, <2>4, <2>5, OfferEffect
<1>5. ASSUME NEW s \in Streams, Streaming!Send(s)
      PROVE  OrderKept'
      <2>1. UNCHANGED <<serial, todo>>
            BY <1>5 DEF Streaming!Send
      <2>2. subCh[s] # <<>> /\ subCh' = [subCh EXCEPT ![s] = Tail(subCh[s])]
            BY <1>5, SendEffect
      <2>3. PICK h \in [Casters -> Nat] :
                /\ h = got[s] \/ h = [got[s] EXCEPT ![Head(subCh[s])[1]] = Head(subCh[s])[2]]
                /\ got' = [got EXCEPT ![s] = h]
            BY <1>5, SendEffect
      <2>4. /\ InOrder(Tail(subCh[s]), h)
            /\ \A c \in Casters, m \in Int : UpTo(subCh[s], got[s], c, m) => UpTo(Tail(subCh[s]), h, c, m)
            <3>1. InOrder(subCh[s], got[s])
                  BY <1>2 DEF OrderKept
            <3>2. subCh[s] \in Seq(Casters \X Nat) /\ got[s] \in [Casters -> Nat]
                  BY <1>1 DEF Events
            <3> QED
                BY <2>2, <2>3, <3>1, <3>2, OrderTail
      <2>5. /\ subCh'[s] = Tail(subCh[s]) /\ got'[s] = h
            /\ \A t \in Streams : t # s => subCh'[t] = subCh[t] /\ got'[t] = got[t]
            BY <1>1, <2>2, <2>3
      <2>6. ASSUME NEW c \in Casters
            PROVE  /\ UpTo(subCh'[s], got'[s], c, serial[c])
                   /\ s \in todo[c] => UpTo(subCh'[s], got'[s], c, serial[c] - 1)
            <3>1. serial[c] \in Int /\ serial[c] - 1 \in Int
                  BY <1>1
            <3> QED
                BY <1>2, <2>4, <2>5, <3>1 DEF OrderKept
      <2>7. ASSUME NEW t \in Streams
            PROVE  /\ InOrder(subCh'[t], got'[t])
                   /\ \A c \in Casters :
                         /\ UpTo(subCh'[t], got'[t], c, serial[c])
                         /\ t \in todo[c] => UpTo(subCh'[t], got'[t], c, serial[c] - 1)
            BY <1>2, <2>4, <2>5, <2>6 DEF OrderKept
      <2> QED
          BY <2>1, <2>7 DEF OrderKept
<1>6. ASSUME UNCHANGED <<serial, todo, subCh, got>>
      PROVE  OrderKept'
      BY <1>2, <1>6 DEF OrderKept
<1>7. ASSUME NEW b \in Casters, Streaming!Unlock(b)
      PROVE  OrderKept'
      BY <1>6, <1>7 DEF Streaming!Unlock
<1>8. ASSUME NEW s \in Streams, Streaming!Subscribe(s) \/ Streaming!HangUp(s) \/ Streaming!Unsubscribe(s)
      PROVE  OrderKept'
      BY <1>6, <1>8 DEF Streaming!Subscribe, Streaming!HangUp, Streaming!Unsubscribe
<1>9. CASE UNCHANGED Streaming!vars
      BY <1>6, <1>9 DEF Streaming!vars
<1> QED
    BY <1>3, <1>4, <1>5, <1>7, <1>8, <1>9 DEF Streaming!Next, Streaming!Casts

(* The invariant holds of every behaviour of the streams.                  *)
LEMMA StreamInvAlways ==
    ASSUME Streaming!StreamsAssumption
    PROVE  Streaming!Init /\ [][Streaming!Next]_(Streaming!vars) => []StreamInv
<1>1. Streaming!Init => StreamInv
      <2> SUFFICES ASSUME Streaming!Init
                   PROVE  StreamInv
          OBVIOUS
      <2>1. StreamType
            BY DEF Streaming!Init, StreamType, Streaming!StreamsAssumption
      <2>2. LockKept
            BY DEF Streaming!Init, LockKept
      <2>3. OrderKept
            BY DEF Streaming!Init, OrderKept, InOrder, UpTo
      <2> QED
          BY <2>1, <2>2, <2>3 DEF StreamInv
<1>2. StreamInv /\ [Streaming!Next]_(Streaming!vars) => StreamInv'
      BY StreamTypeStep, LockKeptStep, OrderKeptStep DEF StreamInv
<1> QED
    BY <1>1, <1>2, PTL

(* Nobody sends on a stream's closed channel, whatever the casters and     *)
(* streams: a stream leaves and closes under the write lock, so no         *)
(* broadcast holds it among those it has still to reach.                   *)
LEMMA StreamTypesAlone ==
    ASSUME Streaming!StreamsAssumption
    PROVE  Streaming!Init /\ [][Streaming!Next]_(Streaming!vars) => []Streaming!TypeOK
<1>1. StreamInv => Streaming!TypeOK
      BY DEF StreamInv, StreamType, Streaming!TypeOK
<1> QED
    BY <1>1, StreamInvAlways, PTL

(* What a stream has got is behind what its channel holds.                 *)
LEMMA StreamsInOrderAlone ==
    ASSUME Streaming!StreamsAssumption
    PROVE  Streaming!Init /\ [][Streaming!Next]_(Streaming!vars) => []Streaming!StreamsInOrder
<1>1. StreamInv => Streaming!StreamsInOrder
      <2> SUFFICES ASSUME StreamInv, NEW s \in Streams, NEW j \in DOMAIN subCh[s]
                   PROVE  /\ subCh[s][j][2] > got[s][subCh[s][j][1]]
                          /\ \A i \in 1..(j - 1) : subCh[s][i][1] = subCh[s][j][1] =>
                                 subCh[s][i][2] < subCh[s][j][2]
          BY DEF Streaming!StreamsInOrder
      <2>1. j \in 1..Len(subCh[s])
            BY DEF StreamInv, StreamType
      <2> QED
          BY <2>1 DEF StreamInv, OrderKept, InOrder
<1> QED
    BY <1>1, StreamInvAlways, PTL

--------------------------------------------------------------------------------
(* PowerProfiles                                                           *)

PowerType ==
    /\ Power!TypeOK
    /\ loop \in {"start", "failed", "readActive", "readProfiles", "select", "done"}
    /\ closed => loop = "done"

\* The newest signal is the active profile; none comes before Subscribe.
SignalsEnd ==
    /\ loop = "start" => signals = <<>>
    /\ signals # <<>> => signals[Len(signals)] = active

\* With no signal left, the profile read or handled last is the active one.
ProfileKnown ==
    /\ loop \in {"start", "readActive"} => activeProfile = Nil
    /\ loop \in {"readProfiles", "select"} /\ signals = <<>> =>
           activeProfile = active \/ (activeProfile = Nil /\ unread)

\* The newest event, or what the clients have, is the stored profile.
EventsEnd ==
    /\ loop \in {"start", "readActive", "readProfiles"} => eventsChan = <<>> /\ lastPowerState = Nil
    /\ loop = "select" /\ ~lost =>
           IF eventsChan = <<>> THEN lastPowerState = activeProfile
                                ELSE eventsChan[Len(eventsChan)] = activeProfile

PowerInv == PowerType /\ SignalsEnd /\ ProfileKnown /\ EventsEnd

(* The last element of a sequence that grows or loses its head.            *)
LEMMA LastOf ==
    ASSUME NEW S, NEW q \in Seq(S), NEW x \in S
    PROVE  /\ Append(q, x) \in Seq(S) /\ Append(q, x) # <<>>
           /\ Append(q, x)[Len(Append(q, x))] = x
           /\ q # <<>> => /\ Tail(q) \in Seq(S) /\ Head(q) \in S /\ Len(Tail(q)) = Len(q) - 1
                          /\ Tail(q) = <<>> => Head(q) = q[Len(q)]
                          /\ Tail(q) # <<>> => Tail(q)[Len(Tail(q))] = q[Len(q)]
<1>1. Append(q, x) \in Seq(S) /\ Append(q, x) # <<>> /\ Append(q, x)[Len(Append(q, x))] = x
      OBVIOUS
<1>2. ASSUME q # <<>>
      PROVE  /\ Tail(q) \in Seq(S) /\ Head(q) \in S /\ Len(Tail(q)) = Len(q) - 1
             /\ Tail(q) = <<>> => Head(q) = q[Len(q)]
             /\ Tail(q) # <<>> => Tail(q)[Len(Tail(q))] = q[Len(q)]
      <2>1. Tail(q) \in Seq(S) /\ Head(q) \in S /\ Head(q) = q[1] /\ Len(Tail(q)) = Len(q) - 1 /\ Len(q) \in Nat
            BY <1>2
      <2>2. Tail(q) = <<>> => Len(q) = 1
            <3> DEFINE n == Len(q)
                       r == Tail(q)
            <3>1. Len(r) = n - 1 /\ n \in Nat
                  BY <2>1
            <3> HIDE DEF n, r
            <3>2. r = <<>> => n = 1
                  BY <3>1
            <3> QED
                BY <3>2 DEF n, r
      <2>3. ASSUME Tail(q) # <<>>
            PROVE  Tail(q)[Len(Tail(q))] = q[Len(q)]
            <3>1. Len(Tail(q)) \in 1..(Len(q) - 1)
                  BY <2>1, <2>3
            <3>2. \A j \in 1..(Len(q) - 1) : Tail(q)[j] = q[j + 1]
                  BY <1>2
            <3> QED
                BY <2>1, <3>1, <3>2
      <2> QED
          BY <2>1, <2>2, <2>3
<1> QED
    BY <1>1, <1>2

(* What broadcastState does to eventsChan.                                 *)
LEMMA PowerBroadcast ==
    ASSUME Power!PowerAssumption, PowerInv, ~closed, NEW p \in Profiles \cup {Nil}, Power!BroadcastState(p)
    PROVE  /\ eventsChan' \in Seq(Profiles \cup {Nil}) /\ Len(eventsChan') <= EventsCap
           /\ ~lost' => eventsChan' # <<>> /\ eventsChan'[Len(eventsChan')] = p
<1>1. eventsChan \in Seq(Profiles \cup {Nil}) /\ Len(eventsChan) <= EventsCap /\ EventsCap \in Nat
      BY DEF PowerInv, PowerType, Power!TypeOK, Power!PowerAssumption
<1>2. CASE Len(eventsChan) >= EventsCap
      <2>1. lost' = TRUE
            BY <1>2 DEF Power!BroadcastState
      <2>2. eventsChan' = eventsChan
            BY <2>1 DEF Power!BroadcastState
      <2> QED
          BY <1>1, <2>1, <2>2
<1>3. CASE ~(Len(eventsChan) >= EventsCap)
      <2>1. ~lost'
            BY <1>3 DEF Power!BroadcastState
      <2>2. eventsChan' = Append(eventsChan, p)
            BY <2>1 DEF Power!BroadcastState
      <2>3. Len(eventsChan') <= EventsCap
            BY <1>1, <1>3, <2>2
      <2> QED
          BY <1>1, <2>2, <2>3, LastOf
<1> QED
    BY <1>2, <1>3

(* The service switches: the signal follows the profile.                   *)
LEMMA ActivateKeeps ==
    ASSUME PowerInv, NEW p \in offered, Power!Activate(p), changes' \in 0..MaxChanges,
           request' \in [Clients -> Profiles \cup {Nil}], cancelled' = cancelled,
           UNCHANGED <<offered, loop, profiles, activeProfile, connUp, unread, Power!chanVars>>
    PROVE  PowerInv'
<1>1. p \in Profiles /\ signals \in Seq(Profiles)
      BY DEF PowerInv, PowerType, Power!TypeOK
<1>2. active' = p
      BY DEF Power!Activate
<1>3. CASE loop = "start"
      <2>1. signals' = signals
            BY <1>3 DEF Power!Activate
      <2>2. signals = <<>>
            BY <1>3 DEF PowerInv, SignalsEnd
      <2> QED
          BY <1>1, <1>2, <1>3, <2>1, <2>2
          DEF PowerInv, PowerType, Power!TypeOK, SignalsEnd, ProfileKnown, EventsEnd, Power!chanVars
<1>4. CASE loop # "start"
      <2>1. signals' = Append(signals, p)
            BY <1>4 DEF Power!Activate
      <2>2. signals' \in Seq(Profiles) /\ signals' # <<>> /\ signals'[Len(signals')] = p
            BY <1>1, <2>1, LastOf
      <2>3. PowerType'
            BY <1>1, <1>2, <2>2 DEF PowerInv, PowerType, Power!TypeOK, Power!chanVars
      <2>4. SignalsEnd' /\ ProfileKnown'
            BY <1>2, <1>4, <2>2 DEF PowerInv, SignalsEnd, ProfileKnown
      <2>5. EventsEnd'
            BY DEF PowerInv, EventsEnd, Power!chanVars
      <2> QED
          BY <2>3, <2>4, <2>5 DEF PowerInv
<1> QED
    BY <1>3, <1>4

(* Every step of manager, monitor and clients keeps the invariant.         *)
LEMMA PowerStep ==
    ASSUME Power!PowerAssumption, PowerInv, [Power!Next]_(Power!vars)
    PROVE  PowerInv'
<1> USE DEF PowerInv, PowerType, Power!TypeOK
<1>1. ASSUME NEW p \in Profiles, Power!Switch(p)
      PROVE  PowerInv'
      <2>1. p \in offered /\ changes' \in 0..MaxChanges
            BY <1>1 DEF Power!Switch, Power!PowerAssumption
      <2> QED
          BY <1>1, <2>1, ActivateKeeps DEF Power!Switch, Power!managerVars
<1>2. CASE Power!Cancel \/ Power!LoseBus \/ UNCHANGED Power!vars
      BY <1>2 DEF Power!Cancel, Power!LoseBus, Power!vars, Power!serviceVars, Power!managerVars, Power!chanVars,
                  SignalsEnd, ProfileKnown, EventsEnd
<1>3. CASE Power!StartFails \/ Power!Subscribe
      BY <1>3 DEF Power!StartFails, Power!Subscribe, Power!serviceVars, Power!chanVars,
                  SignalsEnd, ProfileKnown, EventsEnd
<1>4. CASE Power!FetchActive
      BY <1>4 DEF Power!FetchActive, Power!serviceVars, Power!chanVars, SignalsEnd, ProfileKnown, EventsEnd
<1>5. CASE Power!FetchProfiles
      <2>1. ~closed /\ activeProfile \in Profiles \cup {Nil} /\ Power!BroadcastState(activeProfile)
            BY <1>5 DEF Power!FetchProfiles
      <2>2. /\ eventsChan' \in Seq(Profiles \cup {Nil}) /\ Len(eventsChan') <= EventsCap
            /\ ~lost' => eventsChan' # <<>> /\ eventsChan'[Len(eventsChan')] = activeProfile
            BY <2>1, PowerBroadcast
      <2>3. PowerType' /\ SignalsEnd' /\ ProfileKnown'
            BY <1>5, <2>1, <2>2 DEF Power!FetchProfiles, Power!serviceVars, SignalsEnd, ProfileKnown
      <2>4. EventsEnd'
            BY <1>5, <2>2 DEF Power!FetchProfiles, EventsEnd
      <2> QED
          BY <2>3, <2>4
<1>6. CASE Power!HandleDbusSignal
      <2>1. signals # <<>> /\ signals' = Tail(signals) /\ loop = "select"
            BY <1>6 DEF Power!HandleDbusSignal
      <2>2. /\ signals' \in Seq(Profiles) /\ Head(signals) \in Profiles
            /\ signals' = <<>> => Head(signals) = signals[Len(signals)]
            /\ signals' # <<>> => signals'[Len(signals')] = signals[Len(signals)]
            BY <2>1, LastOf
      <2>3. activeProfile' = Head(signals) /\ ~closed
            BY <1>6 DEF Power!HandleDbusSignal
      <2>4. Power!BroadcastState(activeProfile') /\ activeProfile' \in Profiles \cup {Nil}
            BY <1>6, <2>2, <2>3 DEF Power!HandleDbusSignal
      <2>5. /\ eventsChan' \in Seq(Profiles \cup {Nil}) /\ Len(eventsChan') <= EventsCap
            /\ ~lost' => eventsChan' # <<>> /\ eventsChan'[Len(eventsChan')] = activeProfile'
            <3>1. \A p \in Profiles \cup {Nil} : Power!BroadcastState(p) =>
                      /\ eventsChan' \in Seq(Profiles \cup {Nil}) /\ Len(eventsChan') <= EventsCap
                      /\ ~lost' => eventsChan' # <<>> /\ eventsChan'[Len(eventsChan')] = p
                  BY <2>3, PowerBroadcast
            <3> QED
                BY <2>4, <3>1
      <2>6. UNCHANGED <<offered, active, changes, loop, profiles, connUp, unread, closed, lastPowerState, request>>
            BY <1>6 DEF Power!HandleDbusSignal
      <2>7. PowerType'
            BY <2>2, <2>3, <2>5, <2>6
      <2>8. SignalsEnd' /\ ProfileKnown'
            BY <2>1, <2>2, <2>3, <2>6 DEF SignalsEnd, ProfileKnown
      <2>9. EventsEnd'
            BY <2>1, <2>5, <2>6 DEF EventsEnd
      <2> QED
          BY <2>7, <2>8, <2>9
<1>7. CASE Power!LoopReturns
      BY <1>7 DEF Power!LoopReturns, Power!serviceVars, SignalsEnd, ProfileKnown, EventsEnd
<1>8. CASE Power!Monitor
      <2>1. eventsChan # <<>> /\ eventsChan' = Tail(eventsChan) /\ lastPowerState' = Head(eventsChan)
            BY <1>8 DEF Power!Monitor
      <2>2. /\ eventsChan' \in Seq(Profiles \cup {Nil}) /\ Head(eventsChan) \in Profiles \cup {Nil}
            /\ Len(eventsChan') = Len(eventsChan) - 1 /\ Len(eventsChan) \in Nat
            /\ eventsChan' = <<>> => Head(eventsChan) = eventsChan[Len(eventsChan)]
            /\ eventsChan' # <<>> => eventsChan'[Len(eventsChan')] = eventsChan[Len(eventsChan)]
            BY <2>1, LastOf
      <2>3. UNCHANGED <<offered, active, changes, signals, loop, profiles, activeProfile, connUp, unread, closed,
                        lost, request>>
            BY <1>8 DEF Power!Monitor, Power!serviceVars, Power!managerVars
      <2>4. Len(eventsChan') <= EventsCap
            BY <2>2 DEF Power!PowerAssumption
      <2>5. PowerType'
            BY <2>1, <2>2, <2>3, <2>4
      <2>6. SignalsEnd' /\ ProfileKnown'
            BY <2>3 DEF SignalsEnd, ProfileKnown
      <2>7. EventsEnd'
            BY <2>1, <2>2, <2>3 DEF EventsEnd
      <2> QED
          BY <2>5, <2>6, <2>7
<1>9. ASSUME NEW c \in Clients, NEW p \in Profiles, Power!Validate(c, p)
      PROVE  PowerInv'
      <2>1. request' \in [Clients -> Profiles \cup {Nil}]
            BY <1>9 DEF Power!Validate
      <2> QED
          BY <1>9, <2>1 DEF Power!Validate, Power!serviceVars, Power!managerVars, Power!chanVars,
                            SignalsEnd, ProfileKnown, EventsEnd
<1>10. ASSUME NEW c \in Clients, Power!SetProperty(c)
      PROVE  PowerInv'
      <2>1. request' \in [Clients -> Profiles \cup {Nil}]
            BY <1>10 DEF Power!SetProperty
      <2>2. CASE UNCHANGED Power!serviceVars
            BY <1>10, <2>1, <2>2 DEF Power!SetProperty, Power!serviceVars, Power!managerVars, Power!chanVars,
                                     SignalsEnd, ProfileKnown, EventsEnd
      <2>3. CASE /\ changes < MaxChanges /\ request[c] \in offered
                 /\ changes' = changes + 1 /\ Power!Activate(request[c]) /\ UNCHANGED offered
            <3>1. changes' \in 0..MaxChanges
                  BY <2>3 DEF Power!PowerAssumption
            <3> QED
                BY <1>10, <2>1, <2>3, <3>1, ActivateKeeps DEF Power!SetProperty, Power!managerVars
      <2> QED
          BY <1>10, <2>2, <2>3 DEF Power!SetProperty
<1> QED
    BY <1>1, <1>2, <1>3, <1>4, <1>5, <1>6, <1>7, <1>8, <1>9, <1>10 DEF Power!Next

(* The invariant holds from the start on.                                  *)
LEMMA PowerInvAlways ==
    ASSUME Power!PowerAssumption
    PROVE  Power!Init /\ [][Power!Next]_(Power!vars) => []PowerInv
<1>1. Power!Init => PowerInv
      BY DEF Power!Init, PowerInv, PowerType, Power!TypeOK, SignalsEnd, ProfileKnown, EventsEnd,
             Power!PowerAssumption
<1>2. PowerInv /\ [Power!Next]_(Power!vars) => PowerInv'
      BY PowerStep
<1> QED
    BY <1>1, <1>2, PTL

(* With no signal and no event left, the clients have the active profile.  *)
LEMMA ClientsHaveProfileAlone ==
    ASSUME Power!PowerAssumption
    PROVE  Power!Init /\ [][Power!Next]_(Power!vars) => []Power!ClientsHaveProfile
<1>1. PowerInv => Power!ClientsHaveProfile
      BY DEF PowerInv, ProfileKnown, EventsEnd, Power!ClientsHaveProfile
<1> QED
    BY <1>1, PowerInvAlways, PTL

--------------------------------------------------------------------------------
(* NotificationFeed                                                        *)

FeedType ==
    /\ Feed!TypeOK
    /\ disk \subseteq existed

\* The tiers after image data.
Tiers == {"path", "readPath", "image", "readImage", "theme", "readTheme"}

\* Where there is image data no other tier is reached.
HintsWin ==
    \A n \in Notes : Source[n].hint => job[n] \notin Tiers

\* Who is under way after the close of out was so before it.
PendingKept ==
    closed => ~loop /\ \A n \in Notes : job[n] \in Feed!Working => n \in pending

Distinct(q) == \A i, j \in 1..Len(q) : q[i] = q[j] => i = j
Has(q, x) == \E i \in 1..Len(q) : q[i] = x

\* Exactly one of six.
OneOf(a, b, c, d, e, f) ==
    \/ a /\ ~b /\ ~c /\ ~d /\ ~e /\ ~f
    \/ ~a /\ b /\ ~c /\ ~d /\ ~e /\ ~f
    \/ ~a /\ ~b /\ c /\ ~d /\ ~e /\ ~f
    \/ ~a /\ ~b /\ ~c /\ d /\ ~e /\ ~f
    \/ ~a /\ ~b /\ ~c /\ ~d /\ e /\ ~f
    \/ ~a /\ ~b /\ ~c /\ ~d /\ ~e /\ f

\* Each notification is in one place, and there once.
OnePlace ==
    ~cancelled /\ panicked = {} =>
        /\ Distinct(ch) /\ Distinct(out) /\ Distinct(delivered)
        /\ \A n \in Notes :
              OneOf(n \notin sent, n \in discarded, Has(ch, n), job[n] \in Feed!Working, Has(out, n),
                    Has(delivered, n))

FeedInv ==
    /\ FeedType /\ HintsWin /\ Feed!OnlyIconsCached
    /\ PendingKept /\ Feed!PanicsWerePending
    /\ OnePlace

(* An element that enters a sequence without it.                           *)
LEMMA AppendDistinct ==
    ASSUME NEW S, NEW q \in Seq(S), NEW x \in S
    PROVE  /\ Append(q, x) \in Seq(S) /\ Len(Append(q, x)) = Len(q) + 1
           /\ \A y : Has(Append(q, x), y) <=> Has(q, y) \/ y = x
           /\ Distinct(q) /\ ~Has(q, x) => Distinct(Append(q, x))
<1> DEFINE r == Append(q, x)
<1>1. r \in Seq(S) /\ Len(r) = Len(q) + 1 /\ Len(q) \in Nat
      OBVIOUS
<1>2. r[Len(q) + 1] = x /\ \A i \in 1..Len(q) : r[i] = q[i]
      OBVIOUS
<1> HIDE DEF r
<1>3. \A i : i \in 1..Len(r) <=> i \in 1..Len(q) \/ i = Len(q) + 1
      BY <1>1
<1>4. \A y : Has(r, y) <=> Has(q, y) \/ y = x
      BY <1>2, <1>3 DEF Has
<1>5. ASSUME Distinct(q), ~Has(q, x), NEW i \in 1..Len(r), NEW j \in 1..Len(r), r[i] = r[j]
      PROVE  i = j
      BY <1>2, <1>3, <1>5 DEF Distinct, Has
<1>6. Distinct(q) /\ ~Has(q, x) => Distinct(r)
      BY <1>5 DEF Distinct
<1> QED
    BY <1>1, <1>4, <1>6 DEF r

(* An element that leaves a sequence at its head.                          *)
LEMMA TailDistinct ==
    ASSUME NEW S, NEW q \in Seq(S), q # <<>>
    PROVE  /\ Tail(q) \in Seq(S) /\ Head(q) \in S /\ Len(Tail(q)) = Len(q) - 1
           /\ \A y : Has(q, y) <=> Has(Tail(q), y) \/ y = Head(q)
           /\ Distinct(q) => Distinct(Tail(q)) /\ ~Has(Tail(q), Head(q))
<1> DEFINE r == Tail(q)
<1>1. r \in Seq(S) /\ Head(q) \in S /\ Head(q) = q[1] /\ Len(r) = Len(q) - 1 /\ Len(q) \in Nat /\ Len(q) > 0
      OBVIOUS
<1>2. \A i \in 1..Len(r) : i + 1 \in 1..Len(q) /\ r[i] = q[i + 1]
      BY <1>1
<1> HIDE DEF r
<1>3. \A i \in 1..Len(q) : i = 1 \/ (i - 1 \in 1..Len(r) /\ q[i] = r[i - 1])
      BY <1>1, <1>2
<1>4. 1 \in 1..Len(q)
      BY <1>1
<1>5. ASSUME NEW y
      PROVE  Has(q, y) <=> Has(r, y) \/ y = Head(q)
      <2>1. Has(q, y) => Has(r, y) \/ y = Head(q)
            BY <1>1, <1>3 DEF Has
      <2>2. Has(r, y) => Has(q, y)
            BY <1>2 DEF Has
      <2>3. y = Head(q) => Has(q, y)
            BY <1>1, <1>4 DEF Has
      <2> QED
          BY <2>1, <2>2, <2>3
<1>6. ASSUME Distinct(q)
      PROVE  Distinct(r) /\ ~Has(r, Head(q))
      <2>1. ASSUME NEW i \in 1..Len(r), NEW j \in 1..Len(r), r[i] = r[j]
            PROVE  i = j
            <3>1. i + 1 = j + 1
                  BY <1>2, <1>6, <2>1 DEF Distinct
            <3> QED
                BY <3>1
      <2>2. ASSUME NEW i \in 1..Len(r)
            PROVE  r[i] # q[1]
            <3>1. i + 1 \in 1..Len(q) /\ r[i] = q[i + 1] /\ i + 1 # 1
                  BY <1>2
            <3> QED
                BY <1>4, <1>6, <3>1 DEF Distinct
      <2> QED
          BY <1>1, <2>1, <2>2 DEF Distinct, Has
<1> QED
    BY <1>1, <1>5, <1>6 DEF r

(* Two sequences without repetitions and with nothing in common make one   *)
(* without repetitions.                                                    *)
LEMMA JoinDistinct ==
    ASSUME NEW S, NEW p \in Seq(S), NEW q \in Seq(S), Distinct(p), Distinct(q),
           \A x \in S : ~(Has(p, x) /\ Has(q, x))
    PROVE  Feed!IsInjective(p \o q)
<1> DEFINE r == p \o q
<1>1. r \in Seq(S) /\ Len(r) = Len(p) + Len(q) /\ Len(p) \in Nat /\ Len(q) \in Nat /\ DOMAIN r = 1..Len(r)
      OBVIOUS
<1>2. \A i \in 1..Len(r) : r[i] = IF i <= Len(p) THEN p[i] ELSE q[i - Len(p)]
      OBVIOUS
<1> HIDE DEF r
<1>3. \A i \in 1..Len(r) : \/ i \in 1..Len(p) /\ r[i] = p[i] /\ i <= Len(p)
                           \/ i - Len(p) \in 1..Len(q) /\ r[i] = q[i - Len(p)] /\ i > Len(p)
      BY <1>1, <1>2
<1>4. \A i \in 1..Len(p), j \in 1..Len(q) : p[i] # q[j]
      BY DEF Has
<1>5. ASSUME NEW i \in 1..Len(r), NEW j \in 1..Len(r), r[i] = r[j]
      PROVE  i = j
      <2>1. CASE i \in 1..Len(p) /\ j \in 1..Len(p) /\ r[i] = p[i] /\ r[j] = p[j]
            BY <1>5, <2>1 DEF Distinct
      <2>2. CASE /\ i - Len(p) \in 1..Len(q) /\ j - Len(p) \in 1..Len(q)
                 /\ r[i] = q[i - Len(p)] /\ r[j] = q[j - Len(p)]
            <3>1. i - Len(p) = j - Len(p)
                  BY <1>5, <2>2 DEF Distinct
            <3> QED
                BY <1>1, <3>1
      <2> QED
          BY <1>3, <1>4, <1>5, <2>1, <2>2
<1>6. Feed!IsInjective(r)
      BY <1>1, <1>5 DEF Feed!IsInjective
<1> QED
    BY <1>6 DEF r

\* The steps of IconExtractor.Extract.
Extracts(n) ==
    \/ Feed!ExtractFromHints(n)
    \/ \E tier \in {"path", "image"} : Feed!ExtractFromPath(n, tier) \/ Feed!ReadPath(n, tier)
    \/ Feed!ExtractFromThemedName(n) \/ Feed!ReadTheme(n)

(* What a step of the extraction does to goroutine, icon and cache.        *)
LEMMA ExtractEffect ==
    ASSUME Feed!FeedAssumption, FeedInv, NEW n \in Notes, Extracts(n)
    PROVE  /\ UNCHANGED <<sent, ch, busUp, loop, disk, existed, discarded, out, closed, delivered, monitoring,
                          cancelled, pending, panicked>>
           /\ job[n] \in Feed!Working
           /\ \E t \in Feed!Working :
                 job' = [job EXCEPT ![n] = t] /\ (Source[n].hint => t = "send")
           /\ \E i \in Notes \cup Paths \cup {Nil} :
                 icon' = [icon EXCEPT ![n] = i] /\ (Source[n].hint => i = n)
           /\ \/ cache' = cache
              \/ \E p \in disk : cache' = cache \cup {p}
              \/ Source[n].theme \in cache /\ cache' = cache \cup {Source[n].key}
              \/ Source[n].theme \in disk /\ cache' = cache \cup {Source[n].theme, Source[n].key}
<1> DEFINE src == Source[n]
           Icons == Notes \cup Paths \cup {Nil}
<1>1. /\ src \in [hint : BOOLEAN, path : Paths \cup {Nil}, image : Paths \cup {Nil}, key : Keys,
                  theme : Paths \cup {Nil}]
      /\ src.path \in Icons /\ src.image \in Icons /\ src.theme \in Icons /\ src.hint \in BOOLEAN
      BY DEF Feed!FeedAssumption
<1>2. job \in [Notes -> Feed!Working \cup {"none", "done"}] /\ icon \in [Notes -> Icons] /\ disk \subseteq Paths
      BY DEF FeedInv, FeedType, Feed!TypeOK
<1>3. icon = [icon EXCEPT ![n] = icon[n]] /\ icon[n] \in Icons
      BY <1>2
<1>4. src.hint => job[n] \notin Tiers
      BY DEF FeedInv, HintsWin
<1>5. UNCHANGED <<sent, ch, busUp, loop, disk, existed, discarded, out, closed, delivered, monitoring,
                  cancelled, pending, panicked>>
      BY DEF Extracts, Feed!ExtractFromHints, Feed!ExtractFromPath, Feed!ReadPath,
             Feed!ExtractFromThemedName, Feed!ReadTheme
<1> DEFINE Moves == \E t \in Feed!Working : job' = [job EXCEPT ![n] = t] /\ (src.hint => t = "send")
           Picks == \E i \in Icons : icon' = [icon EXCEPT ![n] = i] /\ (src.hint => i = n)
           Caches == \/ cache' = cache
                     \/ \E p \in disk : cache' = cache \cup {p}
                     \/ src.theme \in cache /\ cache' = cache \cup {src.key}
                     \/ src.theme \in disk /\ cache' = cache \cup {src.theme, src.key}
<1>6. ASSUME NEW i \in Icons, Feed!Found(n, i), src.hint => i = n
      PROVE  Moves /\ Picks
      BY <1>6 DEF Feed!Found, Feed!Working
<1>7. ASSUME NEW t \in Feed!Working, Feed!Goto(n, t), ~src.hint
      PROVE  Moves /\ Picks
      BY <1>3, <1>7 DEF Feed!Goto
<1>8. Tiers \subseteq Feed!Working /\ n \in Icons /\ Nil \in Icons
      BY DEF Feed!Working, Tiers
<1>14. ASSUME NEW tier \in {"path", "image"}
       PROVE  /\ Feed!PathOf(n, tier) \in Icons
              /\ {tier, Feed!ReadOf(tier), Feed!After(tier)} \subseteq Tiers
       BY <1>1, <1>14 DEF Feed!PathOf, Feed!ReadOf, Feed!After, Tiers
<1>15. {"theme", "readTheme", "path"} \subseteq Tiers
       BY DEF Tiers
<1> HIDE DEF src, Moves, Picks, Icons
<1>9. CASE Feed!ExtractFromHints(n)
      <2>1. job[n] \in Feed!Working /\ cache' = cache
            BY <1>9 DEF Feed!ExtractFromHints, Feed!Working
      <2>2. (src.hint /\ Feed!Found(n, n)) \/ (~src.hint /\ Feed!Goto(n, "path"))
            BY <1>9 DEF Feed!ExtractFromHints, src
      <2>3. Moves /\ Picks
            BY <1>6, <1>7, <1>8, <1>15, <2>2
      <2> QED
          BY <1>5, <2>1, <2>3 DEF Moves, Picks, Icons, src
<1>10. ASSUME NEW tier \in {"path", "image"}, Feed!ExtractFromPath(n, tier)
       PROVE  job[n] \in Feed!Working /\ Moves /\ Picks /\ Caches
      <2>1. job[n] = tier /\ job[n] \in Tiers /\ job[n] \in Feed!Working /\ cache' = cache
            BY <1>8, <1>10, <1>14 DEF Feed!ExtractFromPath
      <2>2. \/ Feed!Goto(n, Feed!After(tier)) \/ Feed!Found(n, Feed!PathOf(n, tier))
            \/ Feed!Goto(n, Feed!ReadOf(tier))
            BY <1>10 DEF Feed!ExtractFromPath
      <2>3. Moves /\ Picks
            BY <1>4, <1>6, <1>7, <1>8, <1>14, <2>1, <2>2
      <2> QED
          BY <2>1, <2>3
<1>11. ASSUME NEW tier \in {"path", "image"}, Feed!ReadPath(n, tier)
       PROVE  job[n] \in Feed!Working /\ Moves /\ Picks /\ Caches
      <2>1. job[n] = Feed!ReadOf(tier) /\ job[n] \in Tiers /\ job[n] \in Feed!Working
            BY <1>8, <1>11, <1>14 DEF Feed!ReadPath
      <2>2. \/ /\ Feed!PathOf(n, tier) \in disk /\ Feed!Found(n, Feed!PathOf(n, tier))
               /\ cache' = cache \cup {Feed!PathOf(n, tier)}
            \/ Feed!Goto(n, Feed!After(tier)) /\ cache' = cache
            BY <1>11 DEF Feed!ReadPath
      <2>3. Moves /\ Picks
            BY <1>4, <1>6, <1>7, <1>8, <1>14, <2>1, <2>2
      <2>4. Caches
            BY <2>2
      <2> QED
          BY <2>1, <2>3, <2>4
<1>12. CASE Feed!ExtractFromThemedName(n)
      <2>1. job[n] = "theme" /\ job[n] \in Feed!Working
            BY <1>12 DEF Feed!ExtractFromThemedName, Feed!Working
      <2>2. \/ Feed!Found(n, src.theme) /\ cache' = cache
            \/ Feed!Found(n, Nil) /\ cache' = cache
            \/ src.theme \in cache /\ Feed!Found(n, src.theme) /\ cache' = cache \cup {src.key}
            \/ Feed!Goto(n, "readTheme") /\ cache' = cache
            BY <1>12 DEF Feed!ExtractFromThemedName, src
      <2>3. Moves /\ Picks
            BY <1>1, <1>4, <1>6, <1>7, <1>8, <1>15, <2>1, <2>2
      <2>4. Caches
            BY <2>2
      <2> QED
          BY <1>5, <2>1, <2>3, <2>4 DEF Moves, Picks, Icons, src
<1>13. CASE Feed!ReadTheme(n)
      <2>1. job[n] = "readTheme" /\ job[n] \in Feed!Working
            BY <1>13 DEF Feed!ReadTheme, Feed!Working
      <2>2. \/ src.theme \in disk /\ Feed!Found(n, src.theme) /\ cache' = cache \cup {src.theme, src.key}
            \/ Feed!Found(n, Nil) /\ cache' = cache
            BY <1>13 DEF Feed!ReadTheme, src
      <2>3. Moves /\ Picks
            BY <1>1, <1>4, <1>6, <1>7, <1>8, <1>15, <2>1, <2>2
      <2>4. Caches
            BY <2>2
      <2> QED
          BY <1>5, <2>1, <2>3, <2>4 DEF Moves, Picks, Icons, src
<1> QED
    BY <1>5, <1>9, <1>10, <1>11, <1>12, <1>13 DEF Extracts, Moves, Picks, Icons, src

(* Every step, by what it can disturb.                                     *)
LEMMA FeedSteps ==
    ASSUME [Feed!Next]_(Feed!vars)
    PROVE  \/ UNCHANGED Feed!vars
           \/ /\ panicked = {}
              /\ \/ \E n \in Notes : Feed!Notify(n) \/ Extracts(n) \/ Feed!Send(n) \/ Feed!GiveUp(n)
                 \/ \E p \in Paths : Feed!ChangeFile(p)
                 \/ Feed!LoseBus \/ Feed!Cancel \/ Feed!TakeCall \/ Feed!LoopReturns
                 \/ Feed!Deliver \/ Feed!StopMonitor
BY DEF Feed!Next, Feed!Desktop, Feed!Goroutine, Extracts

(* The variables keep their types, out its capacity.                       *)
LEMMA FeedTypeStep ==
    ASSUME Feed!FeedAssumption, FeedInv, [Feed!Next]_(Feed!vars)
    PROVE  FeedType'
<1> USE DEF FeedInv, FeedType, Feed!TypeOK
<1>1. ASSUME NEW n \in Notes, Feed!Notify(n)
      PROVE  FeedType'
      <2>1. ch' \in Seq(Notes)
            <3>1. ch' = ch \/ ch' = Append(ch, n)
                  BY <1>1 DEF Feed!Notify
            <3> QED
                BY <3>1, AppendDistinct
      <2>2. sent' \subseteq Notes /\ discarded' \subseteq sent'
            BY <1>1 DEF Feed!Notify
      <2> QED
          BY <1>1, <2>1, <2>2 DEF Feed!Notify
<1>2. ASSUME NEW n \in Notes, Extracts(n)
      PROVE  FeedType'
      <2>1. job' \in [Notes -> Feed!Working \cup {"none", "done"}]
            BY <1>2, ExtractEffect
      <2>2. icon' \in [Notes -> Notes \cup Paths \cup {Nil}]
            BY <1>2, ExtractEffect
      <2>3. Source[n].key \in Keys
            BY DEF Feed!FeedAssumption
      <2>4. cache' \subseteq Keys \cup Paths
            <3>1. \/ cache' = cache
                  \/ \E p \in disk : cache' = cache \cup {p}
                  \/ cache' = cache \cup {Source[n].key}
                  \/ Source[n].theme \in disk /\ cache' = cache \cup {Source[n].theme, Source[n].key}
                  BY <1>2, ExtractEffect
            <3>2. cache \subseteq Keys \cup Paths /\ disk \subseteq Paths
                  OBVIOUS
            <3> QED
                BY <2>3, <3>1, <3>2
      <2>5. UNCHANGED <<sent, ch, busUp, loop, disk, existed, discarded, out, delivered>>
            BY <1>2, ExtractEffect
      <2> QED
          BY <2>1, <2>2, <2>4, <2>5
<1>3. ASSUME NEW n \in Notes, Feed!Send(n)
      PROVE  FeedType'
      <2>1. job' \in [Notes -> Feed!Working \cup {"none", "done"}]
            BY <1>3 DEF Feed!Send
      <2>2. out' \in Seq(Notes) /\ Len(out') <= OutCap
            <3>1. CASE out' = out
                  BY <3>1
            <3>2. CASE out' = Append(out, n) /\ Len(out) < OutCap
                  <4>1. out' \in Seq(Notes) /\ Len(out') = Len(out) + 1 /\ Len(out) \in Nat
                        BY <3>2, AppendDistinct
                  <4> QED
                      BY <3>2, <4>1 DEF Feed!FeedAssumption
            <3> QED
                BY <1>3, <3>1, <3>2 DEF Feed!Send
      <2> QED
          BY <1>3, <2>1, <2>2 DEF Feed!Send
<1>4. ASSUME NEW n \in Notes, Feed!GiveUp(n)
      PROVE  FeedType'
      <2>1. job' \in [Notes -> Feed!Working \cup {"none", "done"}]
            BY <1>4 DEF Feed!GiveUp
      <2> QED
          BY <1>4, <2>1 DEF Feed!GiveUp
<1>5. ASSUME NEW p \in Paths, Feed!ChangeFile(p)
      PROVE  FeedType'
      <2>1. disk' \subseteq Paths /\ disk' \subseteq existed'
            BY <1>5 DEF Feed!ChangeFile
      <2> QED
          BY <1>5, <2>1 DEF Feed!ChangeFile
<1>6. CASE Feed!LoseBus \/ Feed!Cancel \/ Feed!LoopReturns \/ Feed!StopMonitor
      BY <1>6 DEF Feed!LoseBus, Feed!Cancel, Feed!LoopReturns, Feed!StopMonitor
<1>7. CASE Feed!TakeCall
      <2>1. ch' \in Seq(Notes) /\ Head(ch) \in Notes
            BY <1>7, TailDistinct DEF Feed!TakeCall
      <2>2. job' \in [Notes -> Feed!Working \cup {"none", "done"}]
            BY <1>7, <2>1 DEF Feed!TakeCall, Feed!Working
      <2> QED
          BY <1>7, <2>1, <2>2 DEF Feed!TakeCall
<1>8. CASE Feed!Deliver
      <2>1. out' \in Seq(Notes) /\ Head(out) \in Notes /\ Len(out') = Len(out) - 1 /\ Len(out) \in Nat
            BY <1>8, TailDistinct DEF Feed!Deliver
      <2>2. delivered' \in Seq(Notes)
            BY <1>8, <2>1, AppendDistinct DEF Feed!Deliver
      <2>3. Len(out') <= OutCap
            BY <2>1 DEF Feed!FeedAssumption
      <2> QED
          BY <1>8, <2>1, <2>2, <2>3 DEF Feed!Deliver
<1>9. CASE UNCHANGED Feed!vars
      BY <1>9 DEF Feed!vars
<1> QED
    BY <1>1, <1>2, <1>3, <1>4, <1>5, <1>6, <1>7, <1>8, <1>9, FeedSteps

(* Only icons are cached, and image data wins: an extraction adds to the   *)
(* cache a path it has read, and a key only with its themed icon's path.   *)
LEMMA CacheStep ==
    ASSUME Feed!FeedAssumption, FeedInv, [Feed!Next]_(Feed!vars)
    PROVE  HintsWin' /\ Feed!OnlyIconsCached'
<1>1. job \in [Notes -> Feed!Working \cup {"none", "done"}] /\ icon \in [Notes -> Notes \cup Paths \cup {Nil}]
      BY DEF FeedInv, FeedType, Feed!TypeOK
<1>2. /\ cache \cap Paths \subseteq existed /\ disk \subseteq Paths /\ disk \subseteq existed
      /\ \A m \in Notes : Source[m].key \in cache => Source[m].theme \in cache
      BY DEF FeedInv, FeedType, Feed!TypeOK, Feed!OnlyIconsCached
<1>3. \A m \in Notes : Source[m].hint =>
          /\ job[m] \notin Tiers
          /\ job[m] \in {"send", "done"} => icon[m] = m
      BY DEF FeedInv, HintsWin, Feed!OnlyIconsCached
<1>4. ASSUME NEW n \in Notes, Extracts(n)
      PROVE  HintsWin' /\ Feed!OnlyIconsCached'
      <2>1. existed' = existed
            BY <1>4, ExtractEffect
      <2>2. PICK t \in Feed!Working : job' = [job EXCEPT ![n] = t] /\ (Source[n].hint => t = "send")
            BY <1>4, ExtractEffect
      <2>3. PICK i \in Notes \cup Paths \cup {Nil} :
                icon' = [icon EXCEPT ![n] = i] /\ (Source[n].hint => i = n)
            BY <1>4, ExtractEffect
      <2>4. \A m \in Notes : Source[m].hint =>
                /\ job'[m] \notin Tiers
                /\ job'[m] \in {"send", "done"} => icon'[m] = m
            BY <1>1, <1>3, <2>2, <2>3 DEF Tiers
      <2>5. \/ cache' = cache
            \/ \E p \in disk : cache' = cache \cup {p}
            \/ Source[n].theme \in cache /\ cache' = cache \cup {Source[n].key}
            \/ Source[n].theme \in disk /\ cache' = cache \cup {Source[n].theme, Source[n].key}
            BY <1>4, ExtractEffect
      <2>6. /\ \A m \in Notes : Source[m].key \in Keys
            /\ \A m \in Notes : Source[m].key = Source[n].key => Source[m].theme = Source[n].theme
            /\ Keys \cap Paths = {}
            BY DEF Feed!FeedAssumption
      <2>7. cache' \cap Paths \subseteq existed
            BY <1>2, <2>5, <2>6
      <2>8. \A m \in Notes : Source[m].key \in cache' => Source[m].theme \in cache'
            <3>1. CASE cache' = cache
                  BY <1>2, <3>1
            <3>2. CASE \E p \in disk : cache' = cache \cup {p}
                  BY <1>2, <2>6, <3>2
            <3>3. CASE Source[n].theme \in cache /\ cache' = cache \cup {Source[n].key}
                  BY <1>2, <2>6, <3>3
            <3>4. CASE Source[n].theme \in disk /\ cache' = cache \cup {Source[n].theme, Source[n].key}
                  BY <1>2, <2>6, <3>4
            <3> QED
                BY <2>5, <3>1, <3>2, <3>3, <3>4
      <2> QED
          BY <2>1, <2>4, <2>7, <2>8 DEF HintsWin, Feed!OnlyIconsCached
<1>5. ASSUME UNCHANGED <<cache, icon>>, existed \subseteq existed',
             job' = job \/ (\E n \in Notes : \/ job' = [job EXCEPT ![n] = "hints"]
                                             \/ job[n] = "send" /\ job' = [job EXCEPT ![n] = "done"])
      PROVE  HintsWin' /\ Feed!OnlyIconsCached'
      <2>1. \A m \in Notes : Source[m].hint =>
                /\ job'[m] \notin Tiers
                /\ job'[m] \in {"send", "done"} => icon[m] = m
            BY <1>1, <1>3, <1>5 DEF Tiers
      <2> QED
          BY <1>2, <1>5, <2>1 DEF HintsWin, Feed!OnlyIconsCached
<1>6. CASE UNCHANGED Feed!vars \/ Feed!LoseBus \/ Feed!Cancel \/ Feed!LoopReturns \/ Feed!Deliver \/ Feed!StopMonitor
      BY <1>5, <1>6 DEF Feed!vars, Feed!LoseBus, Feed!Cancel, Feed!LoopReturns, Feed!Deliver, Feed!StopMonitor
<1>7. ASSUME NEW n \in Notes, Feed!Notify(n) \/ Feed!Send(n) \/ Feed!GiveUp(n)
      PROVE  HintsWin' /\ Feed!OnlyIconsCached'
      BY <1>5, <1>7 DEF Feed!Notify, Feed!Send, Feed!GiveUp
<1>8. ASSUME NEW p \in Paths, Feed!ChangeFile(p)
      PROVE  HintsWin' /\ Feed!OnlyIconsCached'
      BY <1>5, <1>8 DEF Feed!ChangeFile
<1>9. CASE Feed!TakeCall
      <2>1. Head(ch) \in Notes
            BY <1>9, TailDistinct DEF Feed!TakeCall, FeedInv, FeedType, Feed!TypeOK
      <2> QED
          BY <1>5, <1>9, <2>1 DEF Feed!TakeCall
<1> QED
    BY <1>4, <1>6, <1>7, <1>8, <1>9, FeedSteps

(* After the close of out no goroutine is started, so the ones that can    *)
(* panic were under way.                                                   *)
LEMMA PendingStep ==
    ASSUME Feed!FeedAssumption, FeedInv, [Feed!Next]_(Feed!vars)
    PROVE  PendingKept' /\ Feed!PanicsWerePending'
<1>1. job \in [Notes -> Feed!Working \cup {"none", "done"}]
      BY DEF FeedInv, FeedType, Feed!TypeOK
<1>2. /\ closed => ~loop /\ \A m \in Notes : job[m] \in Feed!Working => m \in pending
      /\ panicked \subseteq pending
      BY DEF FeedInv, PendingKept, Feed!PanicsWerePending
<1>3. CASE \/ UNCHANGED Feed!vars \/ Feed!LoseBus \/ Feed!Cancel \/ Feed!Deliver \/ Feed!StopMonitor
           \/ (\E p \in Paths : Feed!ChangeFile(p)) \/ (\E n \in Notes : Feed!Notify(n))
      <2>1. UNCHANGED <<job, loop, closed, pending, panicked>>
            BY <1>3 DEF Feed!vars, Feed!LoseBus, Feed!Cancel, Feed!Deliver, Feed!StopMonitor, Feed!ChangeFile,
                        Feed!Notify
      <2> QED
          BY <1>2, <2>1 DEF PendingKept, Feed!PanicsWerePending
<1>4. ASSUME NEW n \in Notes, Extracts(n)
      PROVE  PendingKept' /\ Feed!PanicsWerePending'
      <2>1. UNCHANGED <<loop, closed, pending, panicked>> /\ job[n] \in Feed!Working
            BY <1>4, ExtractEffect
      <2>2. \E t \in Feed!Working : job' = [job EXCEPT ![n] = t]
            BY <1>4, ExtractEffect
      <2> QED
          BY <1>1, <1>2, <2>1, <2>2 DEF PendingKept, Feed!PanicsWerePending
<1>5. ASSUME NEW n \in Notes, Feed!Send(n) \/ Feed!GiveUp(n)
      PROVE  PendingKept' /\ Feed!PanicsWerePending'
      <2>1. /\ UNCHANGED <<loop, closed, pending>> /\ job[n] \in Feed!Working
            /\ job' = [job EXCEPT ![n] = "done"]
            /\ panicked' = panicked \/ (closed /\ panicked' = panicked \cup {n})
            BY <1>5 DEF Feed!Send, Feed!GiveUp, Feed!Working
      <2>2. \A m \in Notes : job'[m] \in Feed!Working => job[m] \in Feed!Working
            BY <1>1, <2>1 DEF Feed!Working
      <2> QED
          BY <1>2, <2>1, <2>2 DEF PendingKept, Feed!PanicsWerePending
<1>6. CASE Feed!TakeCall
      BY <1>2, <1>6 DEF Feed!TakeCall, PendingKept, Feed!PanicsWerePending
<1>7. CASE Feed!LoopReturns /\ panicked = {}
      BY <1>7 DEF Feed!LoopReturns, PendingKept, Feed!PanicsWerePending
<1> QED
    BY <1>3, <1>4, <1>5, <1>6, <1>7, FeedSteps

(* A step moves at most one notification, and out of the place it was in.  *)
LEMMA OnePlaceStep ==
    ASSUME Feed!FeedAssumption, FeedInv, [Feed!Next]_(Feed!vars)
    PROVE  OnePlace'
<1>1. /\ job \in [Notes -> Feed!Working \cup {"none", "done"}]
      /\ discarded \subseteq sent
      /\ ch \in Seq(Notes) /\ out \in Seq(Notes) /\ delivered \in Seq(Notes)
      BY DEF FeedInv, FeedType, Feed!TypeOK
<1>2. SUFFICES ASSUME ~cancelled', panicked' = {}
               PROVE  /\ Distinct(ch') /\ Distinct(out') /\ Distinct(delivered')
                      /\ \A m \in Notes : OneOf(m \notin sent', m \in discarded', Has(ch', m), job'[m] \in Feed!Working,
                                                Has(out', m), Has(delivered', m))
      BY DEF OnePlace, Feed!Working
<1> DEFINE Kept == /\ Distinct(ch) /\ Distinct(out) /\ Distinct(delivered)
                   /\ \A m \in Notes : OneOf(m \notin sent, m \in discarded, Has(ch, m), job[m] \in Feed!Working,
                                             Has(out, m), Has(delivered, m))
<1>3. ~cancelled /\ panicked = {} => Kept
      BY DEF FeedInv, OnePlace
<1>4. CASE \/ UNCHANGED Feed!vars \/ Feed!LoseBus \/ Feed!Cancel \/ Feed!StopMonitor \/ Feed!LoopReturns
           \/ (\E p \in Paths : Feed!ChangeFile(p))
      <2>1. UNCHANGED <<sent, discarded, ch, job, out, delivered, panicked>> /\ (cancelled => cancelled')
            BY <1>4 DEF Feed!vars, Feed!LoseBus, Feed!Cancel, Feed!StopMonitor, Feed!LoopReturns, Feed!ChangeFile
      <2> QED
          BY <1>2, <1>3, <2>1
<1>5. ASSUME NEW n \in Notes, Feed!Notify(n)
      PROVE  Kept'
      <2>1. /\ n \notin sent /\ sent' = sent \cup {n}
            /\ \/ ch' = Append(ch, n) /\ discarded' = discarded
               \/ ch' = ch /\ discarded' = discarded \cup {n}
            /\ UNCHANGED <<job, out, delivered, cancelled, panicked>>
            BY <1>5 DEF Feed!Notify
      <2>2. Kept
            BY <1>2, <1>3, <2>1
      <2>3. ~Has(ch, n)
            BY <2>1, <2>2 DEF OneOf
      <2>4. CASE ch' = Append(ch, n) /\ discarded' = discarded
            <3>1. Distinct(ch') /\ \A m : Has(ch', m) <=> Has(ch, m) \/ m = n
                  BY <1>1, <2>2, <2>3, <2>4, AppendDistinct
            <3>2. n \notin discarded
                  BY <1>1, <2>1
            <3> QED
                BY <2>1, <2>2, <2>4, <3>1, <3>2 DEF OneOf
      <2>5. CASE ch' = ch /\ discarded' = discarded \cup {n}
            BY <2>1, <2>2, <2>5 DEF OneOf
      <2> QED
          BY <2>1, <2>4, <2>5
<1>6. CASE Feed!TakeCall
      <2>1. /\ ch # <<>> /\ ch' = Tail(ch) /\ job' = [job EXCEPT ![Head(ch)] = "hints"]
            /\ UNCHANGED <<sent, discarded, out, delivered, cancelled, panicked>>
            BY <1>6 DEF Feed!TakeCall
      <2>2. Kept
            BY <1>2, <1>3, <2>1
      <2>3. /\ Head(ch) \in Notes /\ Distinct(ch') /\ ~Has(ch', Head(ch))
            /\ \A m : Has(ch, m) <=> Has(ch', m) \/ m = Head(ch)
            BY <1>1, <2>1, <2>2, TailDistinct
      <2>4. \A m \in Notes : job'[m] \in Feed!Working <=> job[m] \in Feed!Working \/ m = Head(ch)
            BY <1>1, <2>1, <2>3 DEF Feed!Working
      <2> QED
          BY <2>1, <2>2, <2>3, <2>4 DEF OneOf
<1>7. ASSUME NEW n \in Notes, Extracts(n)
      PROVE  Kept'
      <2>1. /\ UNCHANGED <<sent, discarded, ch, out, delivered, cancelled, panicked>> /\ job[n] \in Feed!Working
            /\ \E t \in Feed!Working : job' = [job EXCEPT ![n] = t]
            BY <1>7, ExtractEffect
      <2>2. \A m \in Notes : job'[m] \in Feed!Working <=> job[m] \in Feed!Working
            BY <1>1, <2>1
      <2>3. Kept
            BY <1>2, <1>3, <2>1
      <2> QED
          BY <2>1, <2>2, <2>3
<1>8. ASSUME NEW n \in Notes, Feed!Send(n), panicked = {}
      PROVE  Kept'
      <2>1. /\ job[n] = "send" /\ job' = [job EXCEPT ![n] = "done"]
            /\ UNCHANGED <<sent, discarded, ch, delivered, cancelled>>
            BY <1>8 DEF Feed!Send
      <2>2. ~closed /\ out' = Append(out, n)
            BY <1>2, <1>8 DEF Feed!Send
      <2>3. Kept
            BY <1>2, <1>3, <1>8, <2>1
      <2>4. job[n] \in Feed!Working /\ \A m \in Notes : job'[m] \in Feed!Working <=> job[m] \in Feed!Working /\ m # n
            BY <1>1, <2>1 DEF Feed!Working
      <2>5. ~Has(out, n)
            BY <2>3, <2>4 DEF OneOf
      <2>6. Distinct(out') /\ \A m : Has(out', m) <=> Has(out, m) \/ m = n
            BY <1>1, <2>2, <2>3, <2>5, AppendDistinct
      <2> QED
          BY <2>1, <2>3, <2>4, <2>6 DEF OneOf
<1>9. ASSUME NEW n \in Notes, Feed!GiveUp(n)
      PROVE  FALSE
      BY <1>2, <1>9 DEF Feed!GiveUp
<1>10. CASE Feed!Deliver
      <2>1. /\ out # <<>> /\ out' = Tail(out) /\ delivered' = Append(delivered, Head(out))
            /\ UNCHANGED <<sent, discarded, ch, job, cancelled, panicked>>
            BY <1>10 DEF Feed!Deliver
      <2>2. Kept
            BY <1>2, <1>3, <2>1
      <2>3. /\ Head(out) \in Notes /\ Distinct(out') /\ ~Has(out', Head(out)) /\ Has(out, Head(out))
            /\ \A m : Has(out, m) <=> Has(out', m) \/ m = Head(out)
            BY <1>1, <2>1, <2>2, TailDistinct
      <2>4. ~Has(delivered, Head(out))
            BY <2>2, <2>3 DEF OneOf
      <2>5. Distinct(delivered') /\ \A m : Has(delivered', m) <=> Has(delivered, m) \/ m = Head(out)
            BY <1>1, <2>1, <2>2, <2>3, <2>4, AppendDistinct
      <2> QED
          BY <2>1, <2>2, <2>3, <2>5 DEF OneOf
<1> QED
    BY <1>2, <1>4, <1>5, <1>6, <1>7, <1>8, <1>9, <1>10, FeedSteps

(* The invariant holds from the start on.                                  *)
LEMMA FeedInvAlways ==
    ASSUME Feed!FeedAssumption
    PROVE  Feed!Init /\ [][Feed!Next]_(Feed!vars) => []FeedInv
<1>1. Feed!Init => FeedInv
      <2> SUFFICES ASSUME Feed!Init
                   PROVE  FeedInv
          OBVIOUS
      <2> USE DEF Feed!Init
      <2>1. FeedType
            BY DEF FeedType, Feed!TypeOK, Feed!FeedAssumption
      <2>2. \A n \in Notes : job[n] = "none"
            OBVIOUS
      <2>3. HintsWin /\ Feed!OnlyIconsCached /\ PendingKept /\ Feed!PanicsWerePending
            BY <2>2 DEF HintsWin, Tiers, Feed!OnlyIconsCached, PendingKept, Feed!PanicsWerePending
      <2>4. \A n : ~Has(<<>>, n)
            <3>1. 1..Len(<<>>) = {}
                  OBVIOUS
            <3> QED
                BY <3>1, Zenon DEF Has
      <2>5. Distinct(<<>>)
            BY DEF Distinct
      <2>6. OnePlace
            BY <2>2, <2>4, <2>5 DEF OnePlace, OneOf, Feed!Working
      <2> QED
          BY <2>1, <2>3, <2>6 DEF FeedInv
<1>2. FeedInv /\ [Feed!Next]_(Feed!vars) => FeedInv'
      BY FeedTypeStep, CacheStep, PendingStep, OnePlaceStep DEF FeedInv
<1> QED
    BY <1>1, <1>2, PTL

(* The cache holds icons of files that existed, found in their tier.       *)
LEMMA OnlyIconsCachedAlone ==
    ASSUME Feed!FeedAssumption
    PROVE  Feed!Init /\ [][Feed!Next]_(Feed!vars) => []Feed!OnlyIconsCached
<1>1. FeedInv => Feed!OnlyIconsCached
      BY DEF FeedInv
<1> QED
    BY <1>1, FeedInvAlways, PTL

(* Each notification is in one of its six places, from OnePlace.          *)
LEMMA NotificationsKeptAlone ==
    ASSUME Feed!FeedAssumption
    PROVE  Feed!Init /\ [][Feed!Next]_(Feed!vars) => []Feed!NotificationsKept
<1>1. FeedInv => Feed!NotificationsKept
      <2> SUFFICES ASSUME FeedInv, ~cancelled, panicked = {}
                   PROVE  /\ \A n \in Notes : \E i \in 1..6 : /\ Feed!InFlight(n)[i]
                                                             /\ \A j \in 1..6 : Feed!InFlight(n)[j] => j = i
                          /\ Feed!IsInjective(delivered \o out)
          BY DEF FeedInv, Feed!NotificationsKept, Feed!NoneLost
      <2>1. /\ out \in Seq(Notes) /\ delivered \in Seq(Notes) /\ ch \in Seq(Notes)
            /\ Distinct(out) /\ Distinct(delivered)
            /\ \A n \in Notes :
                  OneOf(n \notin sent, n \in discarded, Has(ch, n), job[n] \in Feed!Working, Has(out, n),
                        Has(delivered, n))
            BY DEF FeedInv, FeedType, Feed!TypeOK, OnePlace
      <2>2. ASSUME NEW n \in Notes
            PROVE  \E i \in 1..6 : Feed!InFlight(n)[i] /\ \A j \in 1..6 : Feed!InFlight(n)[j] => j = i
            <3> DEFINE f == Feed!InFlight(n)
            <3>1. /\ f[1] <=> n \notin sent
                  /\ f[2] <=> n \in discarded
                  /\ f[3] <=> Has(ch, n)
                  /\ f[4] <=> job[n] \in Feed!Working
                  /\ f[5] <=> Has(out, n)
                  /\ f[6] <=> Has(delivered, n)
                  BY <2>2 DEF Feed!InFlight, Feed!Contains, Has
            <3> HIDE DEF f
            <3>2. OneOf(f[1], f[2], f[3], f[4], f[5], f[6])
                  BY <2>1, <2>2, <3>1 DEF OneOf
            <3>3. 1..6 = {1, 2, 3, 4, 5, 6}
                  OBVIOUS
            <3>4. \E i \in 1..6 : f[i] /\ \A j \in 1..6 : f[j] => j = i
                  BY <3>2, <3>3 DEF OneOf
            <3> QED
                BY <3>4 DEF f
      <2>3. \A n \in Notes : ~(Has(delivered, n) /\ Has(out, n))
            BY <2>1 DEF OneOf
      <2>4. Feed!IsInjective(delivered \o out)
            BY <2>1, <2>3, JoinDistinct
      <2> QED
          BY <2>2, <2>4
<1> QED
    BY <1>1, FeedInvAlways, PTL

--------------------------------------------------------------------------------
(* Artwork                                                                 *)

Announcements == [track : Tracks, path : Paths \cup {Nil}]

ArtType ==
    /\ covers \in [Paths -> SUBSET Tracks]
    /\ disk \in [Paths -> Art!Contents \cup {Nil}] /\ cache \in [Paths -> Art!Contents \cup {Nil}]
    /\ trackArtCache \in [{Key[t] : t \in Tracks} -> Art!Contents \cup {Nil}]
    /\ signals \in Seq(Announcements)
    /\ pc # "idle" => now \in Announcements
    /\ pc \in {"stat", "read"} => now.path \in Paths /\ now.path # Nil
    /\ art \in Art!Contents \cup {Nil}
    /\ shown # Nil => shown.track \in Tracks

\* A picture a file may hold, as far as covers can tell.
Covers(p, a) == a \notin {Nil, Art!Empty} => a.of \in covers[p]

\* A picture that came from a file of a track with the key of t.
FromFileOf(t, a) ==
    a \notin {Nil, Art!Empty} =>
        \E u \in Tracks, p \in Paths : Key[u] = Key[t] /\ u \in covers[p] /\ a.of \in covers[p]

\* What was announced with a file is a track of that file.
AnnouncedCovers ==
    /\ \A i \in 1..Len(signals) : signals[i].path # Nil => signals[i].track \in covers[signals[i].path]
    /\ pc # "idle" /\ now.path # Nil => now.track \in covers[now.path]

FilesCover == \A p \in Paths : Covers(p, disk[p]) /\ Covers(p, cache[p])

ArtCovers ==
    pc = "apply" /\ art \notin {Nil, Art!Empty} => now.path \in Paths /\ now.path # Nil /\ Covers(now.path, art)

TracksCover == \A t \in Tracks : FromFileOf(t, trackArtCache[Key[t]])

\* What is shown is what the second cache holds for the track.
ShownCached == shown # Nil => shown.art = trackArtCache[Key[shown.track]]

ArtInv == ArtType /\ AnnouncedCovers /\ FilesCover /\ ArtCovers /\ TracksCover /\ ShownCached

(* The tracks of a file only become more, so what a file covered stays     *)
(* covered.                                                                *)
LEMMA CoversGrow ==
    ASSUME ArtInv, [Art!Next]_(Art!vars)
    PROVE  covers' \in [Paths -> SUBSET Tracks] /\ \A p \in Paths : covers[p] \subseteq covers'[p]
<1>1. covers \in [Paths -> SUBSET Tracks]
      BY DEF ArtInv, ArtType
<1>2. ASSUME NEW t \in Tracks, NEW p \in Paths \cup {Nil}, Art!Announce(t, p)
      PROVE  covers' \in [Paths -> SUBSET Tracks] /\ \A q \in Paths : covers[q] \subseteq covers'[q]
      <2>1. CASE p = Nil
            BY <1>1, <1>2, <2>1 DEF Art!Announce
      <2>2. CASE p \in Paths /\ covers' = [covers EXCEPT ![p] = covers[p] \cup {t}]
            BY <1>1, <2>2
      <2> QED
          BY <1>2, <2>1, <2>2 DEF Art!Announce
<1>3. ASSUME NEW p \in Paths, NEW c \in Art!Contents \cup {Nil}, Art!Write(p, c)
      PROVE  covers' \in [Paths -> SUBSET Tracks] /\ \A q \in Paths : covers[q] \subseteq covers'[q]
      <2>1. CASE c \in {Nil, Art!Empty}
            BY <1>1, <1>3, <2>1 DEF Art!Write
      <2>2. CASE c \notin {Nil, Art!Empty}
            <3>1. c.of \in Tracks
                  BY <2>2 DEF Art!Contents
            <3>2. covers' = [covers EXCEPT ![p] = covers[p] \cup {c.of}]
                  BY <1>3, <2>2 DEF Art!Write
            <3> QED
                BY <1>1, <3>1, <3>2
      <2> QED
          BY <2>1, <2>2
<1>4. CASE Art!Extract \/ UNCHANGED Art!vars
      BY <1>1, <1>4 DEF Art!Extract, Art!TakeSignal, Art!NoDirectory, Art!Stat, Art!Read, Art!Apply, Art!vars
<1> QED
    BY <1>2, <1>3, <1>4 DEF Art!Next, Art!Player

(* The player's steps: a file is announced for a track, or written with a  *)
(* picture, and counted among the track's files in the same step.          *)
LEMMA PlayerKeeps ==
    ASSUME ArtInv, Art!Player
    PROVE  ArtInv'
<1> USE DEF ArtInv
<1>1. covers' \in [Paths -> SUBSET Tracks] /\ \A p \in Paths : covers[p] \subseteq covers'[p]
      BY CoversGrow DEF Art!Next
<1>2. UNCHANGED <<pc, now, art, cache, trackArtCache, shown>>
      BY DEF Art!Player, Art!Announce, Art!Write, Art!loopVars, Art!cacheVars
<1>3. TracksCover' /\ ShownCached'
      BY <1>1, <1>2 DEF TracksCover, FromFileOf, ShownCached, ArtType
<1>4. ArtCovers'
      BY <1>1, <1>2 DEF ArtCovers, Covers, ArtType
<1>5. pc' # "idle" /\ now'.path # Nil => now'.track \in covers'[now'.path]
      <2>1. pc # "idle" /\ now.path # Nil => now.path \in Paths /\ now.track \in covers[now.path]
            BY DEF ArtType, Announcements, AnnouncedCovers
      <2> QED
          BY <1>1, <1>2, <2>1
<1>6. ASSUME NEW t \in Tracks, NEW p \in Paths \cup {Nil}, Art!Announce(t, p)
      PROVE  ArtInv'
      <2> DEFINE a == [track |-> t, path |-> p]
      <2>1. signals' = Append(signals, a) /\ disk' = disk /\ a \in Announcements /\ signals \in Seq(Announcements)
            BY <1>6 DEF Art!Announce, Art!diskVars, ArtType, Announcements
      <2>2. p # Nil => t \in covers'[p]
            BY <1>6 DEF Art!Announce, ArtType
      <2>3. a.track = t /\ a.path = p
            OBVIOUS
      <2> HIDE DEF a
      <2>4. /\ signals' \in Seq(Announcements)
            /\ \A i \in 1..Len(signals') : (i \in 1..Len(signals) /\ signals'[i] = signals[i]) \/ signals'[i] = a
            BY <2>1
      <2>5. \A i \in 1..Len(signals') : signals'[i].path # Nil => signals'[i].track \in covers'[signals'[i].path]
            <3>1. \A i \in 1..Len(signals) : signals[i] \in Announcements
                  BY <2>1
            <3>2. \A i \in 1..Len(signals) : signals[i].path # Nil =>
                      signals[i].path \in Paths /\ signals[i].track \in covers[signals[i].path]
                  BY <3>1 DEF AnnouncedCovers, Announcements
            <3> QED
                BY <1>1, <2>2, <2>3, <2>4, <3>2
      <2>6. AnnouncedCovers'
            BY <1>5, <2>5 DEF AnnouncedCovers
      <2>7. ArtType'
            BY <1>1, <1>2, <2>1, <2>4 DEF ArtType
      <2>8. FilesCover'
            BY <1>1, <1>2, <2>1 DEF FilesCover, Covers
      <2> QED
          BY <1>3, <1>4, <2>6, <2>7, <2>8
<1>7. ASSUME NEW p \in Paths, NEW c \in Art!Contents \cup {Nil}, Art!Write(p, c)
      PROVE  ArtInv'
      <2>1. disk' = [disk EXCEPT ![p] = c] /\ signals' = signals
            BY <1>7 DEF Art!Write, Art!queueVars
      <2>2. c \notin {Nil, Art!Empty} => c.of \in covers'[p]
            BY <1>7 DEF Art!Write, ArtType
      <2>3. \A i \in 1..Len(signals) : signals[i].path # Nil =>
                signals[i].path \in Paths /\ signals[i].track \in covers[signals[i].path]
            <3>1. \A i \in 1..Len(signals) : signals[i] \in Announcements
                  BY DEF ArtType
            <3> QED
                BY <3>1 DEF AnnouncedCovers, Announcements
      <2>4. AnnouncedCovers'
            BY <1>1, <1>5, <2>1, <2>3 DEF AnnouncedCovers
      <2>5. ArtType'
            BY <1>1, <1>2, <2>1 DEF ArtType
      <2>6. FilesCover'
            BY <1>1, <1>2, <2>1, <2>2 DEF FilesCover, Covers, ArtType
      <2> QED
          BY <1>3, <1>4, <2>4, <2>5, <2>6
<1> QED
    BY <1>6, <1>7 DEF Art!Player

(* The extraction's steps: a picture moves from file to path cache to      *)
(* track cache, always under a path the track was announced with.          *)
LEMMA ExtractKeeps ==
    ASSUME ArtInv, Art!Extract
    PROVE  ArtInv'
<1> USE DEF ArtInv
<1>1. UNCHANGED <<covers, disk>>
      BY DEF Art!Extract, Art!TakeSignal, Art!NoDirectory, Art!Stat, Art!Read, Art!Apply, Art!diskVars
<1>2. CASE Art!TakeSignal
      <2> DEFINE a == Head(signals)
      <2>1. /\ signals # <<>> /\ signals \in Seq(Announcements) /\ signals' = Tail(signals) /\ now' = a
            /\ UNCHANGED <<cache, trackArtCache, shown>>
            BY <1>2 DEF Art!TakeSignal, Art!cacheVars, ArtType
      <2>2. /\ signals' \in Seq(Announcements) /\ a \in Announcements /\ a = signals[1] /\ 1 \in 1..Len(signals)
            /\ \A i \in 1..Len(signals') : i + 1 \in 1..Len(signals) /\ signals'[i] = signals[i + 1]
            BY <2>1
      <2>3. \/ pc' = "apply" /\ art' = Nil
            \/ a.path # Nil /\ pc' = "apply" /\ art' = cache[a.path]
            \/ a.path # Nil /\ pc' = "stat" /\ art' = Nil
            BY <1>2 DEF Art!TakeSignal
      <2> HIDE DEF a
      <2>4. a.path # Nil => a.path \in Paths /\ a.track \in covers[a.path]
            BY <2>2 DEF Announcements, AnnouncedCovers
      <2>5. AnnouncedCovers'
            BY <1>1, <2>1, <2>2, <2>4 DEF AnnouncedCovers
      <2>6. ArtType'
            BY <1>1, <2>1, <2>2, <2>3, <2>4 DEF ArtType
      <2>7. ArtCovers'
            BY <1>1, <2>1, <2>3, <2>4 DEF ArtCovers, FilesCover, Covers
      <2> QED
          BY <1>1, <2>1, <2>5, <2>6, <2>7 DEF FilesCover, Covers, TracksCover, FromFileOf, ShownCached
<1>3. CASE Art!NoDirectory \/ Art!Stat
      <2>1. /\ UNCHANGED <<signals, now, cache, trackArtCache, shown>> /\ pc = "stat"
            /\ \/ pc' = "apply" /\ art' = Nil
               \/ pc' \in {"stat", "read"} /\ art' = art
            BY <1>3 DEF Art!NoDirectory, Art!Stat, Art!Yield, Art!cacheVars, Art!queueVars
      <2>2. AnnouncedCovers' /\ ArtType' /\ ArtCovers'
            BY <1>1, <2>1 DEF AnnouncedCovers, ArtType, ArtCovers
      <2> QED
          BY <1>1, <2>1, <2>2 DEF FilesCover, Covers, TracksCover, FromFileOf, ShownCached
<1>4. CASE Art!Read
      <2>1. /\ UNCHANGED <<signals, now, trackArtCache, shown>> /\ pc = "read" /\ pc' = "apply"
            /\ art' = disk[now.path] /\ cache' = [cache EXCEPT ![now.path] = disk[now.path]]
            BY <1>4 DEF Art!Read, Art!Yield, Art!queueVars
      <2>2. now.path \in Paths /\ now.path # Nil /\ now \in Announcements
            BY <2>1 DEF ArtType
      <2>3. ArtType'
            BY <1>1, <2>1, <2>2 DEF ArtType
      <2>4. AnnouncedCovers'
            BY <1>1, <2>1 DEF AnnouncedCovers
      <2>5. FilesCover' /\ ArtCovers'
            BY <1>1, <2>1, <2>2 DEF FilesCover, Covers, ArtCovers, ArtType
      <2> QED
          BY <1>1, <2>1, <2>3, <2>4, <2>5 DEF TracksCover, FromFileOf, ShownCached
<1>5. CASE Art!Apply
      <2> DEFINE key == Key[now.track]
      <2>1. /\ UNCHANGED <<signals, cache>> /\ pc = "apply" /\ pc' = "idle" /\ art' = Nil
            /\ trackArtCache' = IF art = Nil THEN trackArtCache ELSE [trackArtCache EXCEPT ![key] = art]
            /\ shown' = [track |-> now.track, art |-> trackArtCache'[key]]
            BY <1>5 DEF Art!Apply, Art!queueVars
      <2>2. now \in Announcements /\ now.track \in Tracks
            BY <2>1 DEF ArtType, Announcements
      <2>3. shown'.track = now.track /\ shown'.art = trackArtCache'[key]
            BY <2>1
      <2>4. trackArtCache' \in [{Key[t] : t \in Tracks} -> Art!Contents \cup {Nil}]
            BY <2>1, <2>2 DEF ArtType
      <2>5. ArtType'
            BY <1>1, <2>1, <2>2, <2>3, <2>4 DEF ArtType
      <2>6. art \notin {Nil, Art!Empty} => /\ now.path \in Paths /\ now.track \in covers[now.path]
                                           /\ art.of \in covers[now.path]
            BY <2>1 DEF ArtCovers, Covers, AnnouncedCovers
      <2>7. ASSUME NEW t \in Tracks
            PROVE  FromFileOf(t, trackArtCache[Key[t]])'
            <3>1. CASE trackArtCache'[Key[t]] = trackArtCache[Key[t]]
                  BY <1>1, <3>1 DEF TracksCover, FromFileOf
            <3>2. CASE Key[t] = key /\ trackArtCache'[Key[t]] = art
                  BY <1>1, <2>2, <2>6, <3>2 DEF FromFileOf
            <3> QED
                BY <2>1, <2>2, <3>1, <3>2 DEF ArtType
      <2>8. TracksCover' /\ ShownCached'
            BY <2>3, <2>7 DEF TracksCover, ShownCached
      <2>9. AnnouncedCovers' /\ FilesCover' /\ ArtCovers'
            BY <1>1, <2>1 DEF AnnouncedCovers, FilesCover, Covers, ArtCovers
      <2> QED
          BY <2>5, <2>8, <2>9
<1> QED
    BY <1>2, <1>3, <1>4, <1>5 DEF Art!Extract

(* A track with a key and files of its own is shown its own picture.       *)
LEMMA ShownIsOwn ==
    ASSUME ArtInv
    PROVE  Art!ArtIsOwn
<1> SUFFICES ASSUME shown # Nil, shown.art \notin {Nil, Art!Empty},
                    Art!OwnKey(shown.track), Art!OwnFiles(shown.track)
             PROVE  shown.art.of = shown.track
    BY DEF Art!ArtIsOwn
<1>1. shown.track \in Tracks /\ shown.art = trackArtCache[Key[shown.track]]
      BY DEF ArtInv, ArtType, ShownCached
<1>2. PICK u \in Tracks, p \in Paths :
          Key[u] = Key[shown.track] /\ u \in covers[p] /\ shown.art.of \in covers[p]
      BY <1>1 DEF ArtInv, TracksCover, FromFileOf
<1>3. u = shown.track
      BY <1>2 DEF Art!OwnKey
<1>4. covers[p] = {shown.track}
      BY <1>2, <1>3 DEF Art!OwnFiles
<1> QED
    BY <1>2, <1>4

(* The invariant holds from the start on.                                  *)
LEMMA ArtInvAlways ==
    Art!Init /\ [][Art!Next]_(Art!vars) => []ArtInv
<1>1. Art!Init => ArtInv
      BY DEF Art!Init, ArtInv, ArtType, AnnouncedCovers, FilesCover, Covers, ArtCovers, TracksCover, FromFileOf,
             ShownCached
<1>2. ArtInv /\ [Art!Next]_(Art!vars) => ArtInv'
      <2>1. ASSUME ArtInv, UNCHANGED Art!vars
            PROVE  ArtInv'
            BY <2>1 DEF Art!vars, Art!diskVars, Art!queueVars, Art!loopVars, Art!cacheVars, ArtInv, ArtType,
                        AnnouncedCovers, FilesCover, Covers, ArtCovers, TracksCover, FromFileOf, ShownCached
      <2> QED
          BY <2>1, PlayerKeeps, ExtractKeeps DEF Art!Next
<1> QED
    BY <1>1, <1>2, PTL

(* The extractor never has more attempts left than it starts with.         *)
LEMMA ArtTypesAlone ==
    ASSUME Attempts \in Nat
    PROVE  Art!Init /\ [][Art!Next]_(Art!vars) => []Art!TypeOK
<1>1. Art!Init => tries \in 0..Attempts
      BY DEF Art!Init
<1>2. tries \in 0..Attempts /\ [Art!Next]_(Art!vars) => (tries \in 0..Attempts)'
      <2> SUFFICES ASSUME tries \in 0..Attempts, [Art!Next]_(Art!vars)
                   PROVE  tries' \in 0..Attempts
          OBVIOUS
      <2>1. CASE Art!Player \/ UNCHANGED Art!vars
            BY <2>1 DEF Art!Player, Art!Announce, Art!Write, Art!vars, Art!loopVars
      <2>2. CASE Art!TakeSignal \/ Art!Apply
            BY <2>2 DEF Art!TakeSignal, Art!Apply
      <2>3. CASE Art!NoDirectory \/ Art!Stat \/ Art!Read
            BY <2>3 DEF Art!NoDirectory, Art!Stat, Art!Read, Art!Yield
      <2> QED
          BY <2>1, <2>2, <2>3 DEF Art!Next, Art!Extract
<1>3. ArtInv /\ tries \in 0..Attempts => Art!TypeOK
      <2> SUFFICES ASSUME ArtInv, tries \in 0..Attempts
                   PROVE  Art!TypeOK
          OBVIOUS
      <2>1. shown # Nil => shown.track \in Tracks /\ shown.art = trackArtCache[Key[shown.track]]
            BY DEF ArtInv, ArtType, ShownCached
      <2>2. shown # Nil => shown.art \in Art!Contents \cup {Nil}
            BY <2>1 DEF ArtInv, ArtType
      <2> QED
          BY <2>2 DEF ArtInv, ArtType, Art!TypeOK
<1> QED
    BY <1>1, <1>2, <1>3, ArtInvAlways, PTL

(* What is shown next is the track's own artwork, and not nothing where    *)
(* there was some.                                                         *)
LEMMA ArtIsRightAlone ==
    Art!Init /\ [][Art!Next]_(Art!vars) => Art!ArtIsRight
<1>1. ArtInv /\ ArtInv' /\ [Art!Next]_(Art!vars) =>
          [Art!ArtIsOwn' /\ (shown # Nil /\ shown.art # Nil /\ shown'.track = shown.track => shown'.art # Nil)]_shown
      <2> SUFFICES ASSUME ArtInv, ArtInv', [Art!Next]_(Art!vars), shown' # shown
                   PROVE  /\ Art!ArtIsOwn'
                          /\ shown # Nil /\ shown.art # Nil /\ shown'.track = shown.track => shown'.art # Nil
          OBVIOUS
      <2>1. Art!ArtIsOwn'
            BY ShownIsOwn, PTL
      <2>2. Art!Apply
            BY DEF Art!Next, Art!Player, Art!Announce, Art!Write, Art!Extract, Art!TakeSignal, Art!NoDirectory,
                   Art!Stat, Art!Read, Art!cacheVars, Art!vars
      <2>3. /\ trackArtCache' = IF art = Nil THEN trackArtCache ELSE [trackArtCache EXCEPT ![Key[now.track]] = art]
            /\ shown' = [track |-> now.track, art |-> trackArtCache'[Key[now.track]]] /\ pc = "apply"
            BY <2>2 DEF Art!Apply
      <2>4. now.track \in Tracks /\ shown'.track = now.track /\ shown'.art = trackArtCache'[Key[now.track]]
            BY <2>3 DEF ArtInv, ArtType, Announcements
      <2>5. shown # Nil => shown.art = trackArtCache[Key[shown.track]]
            BY DEF ArtInv, ShownCached
      <2>6. art = Nil \/ trackArtCache'[Key[now.track]] = art
            BY <2>3, <2>4 DEF ArtInv, ArtType
      <2> QED
          BY <2>1, <2>3, <2>4, <2>5, <2>6
<1> QED
    BY <1>1, ArtInvAlways, PTL DEF Art!ArtIsRight

--------------------------------------------------------------------------------
(* TransitionSource for the DPMS manager: types                           *)

(* The power-save modes mean something, as TransitionSource assumes.       *)
LEMMA DpmsAssumption ==
    /\ ModeState \in [Modes -> Dpms!States] /\ Nil \notin Dpms!States
    /\ OutCap \in Nat \ {0} /\ MaxReports \in Nat
<1>1. Dpms!States \subseteq {"on", "off"}
      BY DEF Dpms!States, ModeState, PowerSaveState
<1>2. Nil \notin Dpms!States /\ OutCap \in Nat \ {0} /\ MaxReports \in Nat
      BY <1>1, FeedsAssumption DEF FeedsAssumption
<1>3. ModeState \in [Modes -> Dpms!States]
      BY DEF Dpms!States, ModeState
<1> QED
    BY <1>2, <1>3

(* What a queue keeps when an element is appended to it.                   *)
LEMMA QueueAppend ==
    ASSUME NEW S, NEW q \in Seq(S), NEW e \in S
    PROVE  /\ Append(q, e) \in Seq(S)
           /\ Append(q, e) # <<>>
           /\ Len(q) \in Nat
           /\ Len(Append(q, e)) = Len(q) + 1
           /\ Append(q, e)[Len(Append(q, e))] = e
  OBVIOUS

(* What a queue keeps when its head is taken: its last element, if any.    *)
LEMMA QueueTail ==
    ASSUME NEW S, NEW q \in Seq(S), q # <<>>
    PROVE  /\ Head(q) \in S
           /\ Tail(q) \in Seq(S)
           /\ Len(q) \in Nat
           /\ Len(Tail(q)) = Len(q) - 1
           /\ Tail(q) = <<>> => Head(q) = q[Len(q)]
           /\ Tail(q) # <<>> => Tail(q)[Len(Tail(q))] = q[Len(q)]
<1>1. /\ Head(q) \in S /\ Head(q) = q[1] /\ Tail(q) \in Seq(S)
      /\ Len(q) \in Nat /\ Len(q) > 0
      /\ Len(Tail(q)) = Len(q) - 1
      /\ \A i \in 1..Len(Tail(q)) : Tail(q)[i] = q[i + 1]
  OBVIOUS
<1>2. ASSUME Tail(q) = <<>> PROVE Head(q) = q[Len(q)]
  <2>1. Len(<<>>) = 0
    OBVIOUS
  <2>2. Len(Tail(q)) = 0
    BY <1>2, <2>1, Zenon
  <2>3. \A n \in Nat : n - 1 = 0 => n = 1
    OBVIOUS
  <2>4. Len(q) = 1
    BY <1>1, <2>2, <2>3, Zenon
  <2> QED
    BY <1>1, <2>4, Zenon
<1>3. ASSUME Tail(q) # <<>> PROVE Tail(q)[Len(Tail(q))] = q[Len(q)]
  <2>1. Len(Tail(q)) > 0
    BY <1>1, <1>3
  <2> QED
    BY <1>1, <2>1
<1> QED
  BY <1>1, <1>2, <1>3

(* The state a signal stands for is one of the states, and none is Nil.    *)
LEMMA MeaningIsState ==
    ASSUME NEW s \in Modes
    PROVE  ModeState[s] \in Dpms!States /\ ModeState[s] # Nil
  BY DpmsAssumption DEF Dpms!States

(* updateState keeps the manager's types, and out within its capacity.     *)
LEMMA UpdateStateType ==
    ASSUME Dpms!TypeOK, NEW v \in Dpms!States, Dpms!UpdateState(v)
    PROVE  /\ isFirstEvent' \in BOOLEAN
           /\ lastState' \in Dpms!States \cup {Nil}
           /\ out' \in Seq(Dpms!States)
           /\ Len(out') <= OutCap
           /\ emitted' \in Nat
           /\ lost' \in BOOLEAN
           /\ panicked' \in BOOLEAN
<1>1. OutCap \in Nat
  BY DpmsAssumption
<1>2. /\ Append(out, v) \in Seq(Dpms!States)
      /\ Len(out) \in Nat
      /\ Len(Append(out, v)) = Len(out) + 1
  BY QueueAppend DEF Dpms!TypeOK
<1>3. CASE isFirstEvent \/ lastState # v
  <2>1. /\ isFirstEvent' = FALSE
        /\ lastState' = v
        /\ out' = IF Len(out) < OutCap THEN Append(out, v) ELSE out
        /\ emitted' = IF Len(out) < OutCap THEN emitted + 1 ELSE emitted
        /\ lost' = (Len(out) >= OutCap)
        /\ panicked' = (panicked \/ closed)
    BY <1>3, Zenon DEF Dpms!UpdateState
  <2>2. lastState' \in Dpms!States \cup {Nil} /\ emitted' \in Nat
    BY <1>2, <2>1 DEF Dpms!TypeOK
  <2>3. out' \in Seq(Dpms!States) /\ Len(out') <= OutCap
    BY <1>1, <1>2, <2>1 DEF Dpms!TypeOK
  <2>4. isFirstEvent' \in BOOLEAN /\ panicked' \in BOOLEAN
    BY <2>1, Zenon
  <2>5. lost' \in BOOLEAN
    BY <2>1
  <2> QED
    BY <2>2, <2>3, <2>4, <2>5
<1>4. CASE ~(isFirstEvent \/ lastState # v)
  <2>1. UNCHANGED Dpms!managerVars
    BY <1>4, Zenon DEF Dpms!UpdateState
  <2> QED
    BY <2>1 DEF Dpms!TypeOK, Dpms!managerVars
<1> QED
  BY <1>3, <1>4

(* The types hold: every step of desktop, manager and monitor keeps them,  *)
(* and updateState never overfills out.                                    *)
LEMMA DpmsTypesAlone ==
    Dpms!Init /\ [][Dpms!Next]_(Dpms!vars) => []Dpms!TypeOK
<1>1. Dpms!Init => Dpms!TypeOK
  <2> SUFFICES ASSUME Dpms!Init PROVE Dpms!TypeOK
    OBVIOUS
  <2>1. /\ \A S : <<>> \in Seq(S)
        /\ Len(<<>>) = 0
    OBVIOUS
  <2>2. out \in Seq(Dpms!States) /\ sigChan \in [Buses -> Seq(Modes)] /\ Len(out) = 0
    BY <2>1, Zenon DEF Dpms!Init
  <2>3. Len(out) <= OutCap /\ reports \in 0..MaxReports /\ changes \in 0..reports /\ emitted \in Nat
    BY <2>2, DpmsAssumption DEF Dpms!Init
  <2> QED
    BY <2>2, <2>3 DEF Dpms!Init, Dpms!TypeOK
<1>2. Dpms!TypeOK /\ [Dpms!Next]_(Dpms!vars) => Dpms!TypeOK'
  <2> SUFFICES ASSUME Dpms!TypeOK, [Dpms!Next]_(Dpms!vars) PROVE Dpms!TypeOK'
    OBVIOUS
  <2>1. ASSUME NEW s \in Modes, NEW told \in SUBSET Buses, Dpms!Report(s, told) PROVE Dpms!TypeOK'
    <3>1. \A w \in Buses : Append(sigChan[w], s) \in Seq(Modes)
      BY QueueAppend DEF Dpms!TypeOK
    <3>2. sigChan' \in [Buses -> Seq(Modes)]
      BY <2>1, <3>1 DEF Dpms!Report, Dpms!TypeOK
    <3>3. actual' \in Dpms!States
      BY <2>1, MeaningIsState DEF Dpms!Report
    <3>4. partial' \in BOOLEAN
      BY <2>1, Zenon DEF Dpms!Report
    <3>5. reports' \in 0..MaxReports /\ changes' \in 0..reports'
      BY <2>1, DpmsAssumption DEF Dpms!Report, Dpms!TypeOK
    <3> QED
      BY <2>1, <3>2, <3>3, <3>4, <3>5 DEF Dpms!Report, Dpms!TypeOK, Dpms!managerVars, Dpms!monitorVars
  <2>2. ASSUME NEW w \in Buses, Dpms!LoseBus(w) PROVE Dpms!TypeOK'
    BY <2>2 DEF Dpms!LoseBus, Dpms!TypeOK, Dpms!managerVars, Dpms!monitorVars
  <2>3. CASE Dpms!Cancel
    BY <2>3 DEF Dpms!Cancel, Dpms!TypeOK, Dpms!deskVars, Dpms!managerVars, Dpms!monitorVars
  <2>4. ASSUME NEW w \in Buses, Dpms!Watch(w) PROVE Dpms!TypeOK'
    <3>1. Head(sigChan[w]) \in Modes /\ Tail(sigChan[w]) \in Seq(Modes)
      BY <2>4, QueueTail DEF Dpms!Watch, Dpms!TypeOK
    <3>2. sigChan' \in [Buses -> Seq(Modes)]
      BY <2>4, <3>1 DEF Dpms!Watch, Dpms!TypeOK
    <3>3. ModeState[Head(sigChan[w])] \in Dpms!States
      BY <3>1, MeaningIsState
    <3>4. Dpms!UpdateState(ModeState[Head(sigChan[w])])
      BY <2>4 DEF Dpms!Watch
    <3>5. /\ isFirstEvent' \in BOOLEAN /\ lastState' \in Dpms!States \cup {Nil}
          /\ out' \in Seq(Dpms!States) /\ Len(out') <= OutCap
          /\ emitted' \in Nat /\ lost' \in BOOLEAN /\ panicked' \in BOOLEAN
      BY <3>3, <3>4, UpdateStateType
    <3> QED
      BY <2>4, <3>2, <3>5 DEF Dpms!Watch, Dpms!TypeOK, Dpms!deskVars, Dpms!monitorVars
  <2>5. ASSUME NEW w \in Buses, Dpms!StopWatching(w) PROVE Dpms!TypeOK'
    BY <2>5 DEF Dpms!StopWatching, Dpms!TypeOK, Dpms!managerVars, Dpms!monitorVars
  <2>6. CASE Dpms!CloseOut
    BY <2>6 DEF Dpms!CloseOut, Dpms!TypeOK, Dpms!deskVars, Dpms!managerVars, Dpms!monitorVars
  <2>7. CASE Dpms!Consume
    <3>1. Head(out) \in Dpms!States /\ Tail(out) \in Seq(Dpms!States) /\ Len(Tail(out)) = Len(out) - 1
          /\ Len(out) \in Nat
      BY <2>7, QueueTail DEF Dpms!Consume, Dpms!TypeOK
    <3>2. Len(Tail(out)) <= OutCap
      BY <3>1, DpmsAssumption DEF Dpms!TypeOK
    <3> QED
      BY <2>7, <3>1, <3>2 DEF Dpms!Consume, Dpms!TypeOK, Dpms!deskVars
  <2>8. CASE Dpms!StopMonitor
    BY <2>8 DEF Dpms!StopMonitor, Dpms!TypeOK, Dpms!deskVars, Dpms!managerVars
  <2>9. CASE UNCHANGED Dpms!vars
    BY <2>9 DEF Dpms!vars, Dpms!TypeOK, Dpms!deskVars, Dpms!managerVars, Dpms!monitorVars
  <2> QED
    BY <2>1, <2>2, <2>3, <2>4, <2>5, <2>6, <2>7, <2>8, <2>9
    DEF Dpms!Next, Dpms!Desktop, Dpms!Manager, Dpms!Monitor
<1> QED
  BY <1>1, <1>2, PTL

--------------------------------------------------------------------------------
(* OnlyGenuine for one watcher.  Each unread signal can be given the       *)
(* number of changes the desktop had made when it was reported; what the   *)
(* manager emitted never runs ahead of the number of the next signal.      *)

\* f numbers the signals of q.
StampedBy(q, f) ==
    /\ Len(f) = Len(q)
    /\ \A i \in 1..Len(q) : f[i] <= changes
    /\ \A i \in 1..Len(q) : \A j \in 1..Len(q) :
          j = i + 1 => f[i] <= f[j] /\ (ModeState[q[i]] # ModeState[q[j]] => f[i] < f[j])
    /\ q # <<>> => /\ emitted <= f[1] + 1
                   /\ ~isFirstEvent /\ lastState # ModeState[q[1]] => emitted <= f[1]
                   /\ ModeState[q[Len(q)]] # actual => f[Len(q)] < changes
    /\ q = <<>> => /\ emitted <= changes + 1
                   /\ ~isFirstEvent /\ lastState # actual => emitted <= changes

GenuineSoFar(w) ==
    /\ isFirstEvent => emitted = 0
    /\ \E f \in Seq(Nat) : StampedBy(sigChan[w], f)

(* updateState counts at most one more, and only for another state.        *)
LEMMA UpdateStateCounts ==
    ASSUME Dpms!TypeOK, NEW v \in Dpms!States, Dpms!UpdateState(v)
    PROVE  /\ ~isFirstEvent' /\ lastState' = v
           /\ emitted' \in Nat /\ emitted' <= emitted + 1
           /\ ~isFirstEvent /\ lastState = v => emitted' = emitted
<1>1. CASE isFirstEvent \/ lastState # v
  <2>1. /\ isFirstEvent' = FALSE /\ lastState' = v
        /\ emitted' = IF Len(out) < OutCap THEN emitted + 1 ELSE emitted
    BY <1>1, Zenon DEF Dpms!UpdateState
  <2>2. ~isFirstEvent'
    BY <2>1, Zenon
  <2> QED
    BY <1>1, <2>1, <2>2 DEF Dpms!TypeOK
<1>2. CASE ~(isFirstEvent \/ lastState # v)
  <2>1. UNCHANGED Dpms!managerVars
    BY <1>2, Zenon DEF Dpms!UpdateState
  <2> QED
    BY <1>2, <2>1 DEF Dpms!TypeOK, Dpms!managerVars
<1> QED
  BY <1>1, <1>2

(* A signal reported to the watcher gets the number of changes so far.     *)
LEMMA ReportStamps ==
    ASSUME Dpms!TypeOK, NEW w, Buses = {w}, GenuineSoFar(w),
           NEW s \in Modes, NEW told \in SUBSET Buses, Dpms!Report(s, told)
    PROVE  GenuineSoFar(w)'
<1> DEFINE q == sigChan[w]
           v == ModeState[s]
<1>1. /\ q \in Seq(Modes) /\ Len(q) \in Nat /\ changes \in Nat /\ emitted \in Nat
      /\ UNCHANGED <<isFirstEvent, lastState, emitted>> /\ actual' = v
      /\ changes' = (IF v = actual THEN changes ELSE changes + 1)
      /\ changes' \in Nat /\ changes <= changes' /\ (v # actual => changes' = changes + 1)
      /\ v = actual => changes' = changes
  BY DEF Dpms!TypeOK, Dpms!Report, Dpms!managerVars
<1>2. PICK f \in Seq(Nat) : StampedBy(q, f)
  BY DEF GenuineSoFar
<1>3. isFirstEvent' => emitted' = 0
  BY <1>1 DEF GenuineSoFar
<1>4. CASE told = {}
  <2>1. sigChan'[w] = q
    BY <1>4 DEF Dpms!Report
  <2> HIDE DEF v, q
  <2>2. /\ Len(f) = Len(q)
        /\ \A i \in 1..Len(q) : \A j \in 1..Len(q) :
              j = i + 1 => f[i] <= f[j] /\ (ModeState[q[i]] # ModeState[q[j]] => f[i] < f[j])
    BY <1>2 DEF StampedBy
  <2>3. \A i \in 1..Len(q) : f[i] \in Nat /\ f[i] <= changes'
    BY <1>1, <1>2 DEF StampedBy
  <2>4. q # <<>> => Len(q) \in 1..Len(q) /\ 1 \in 1..Len(q)
    BY <1>1 DEF q
  <2>5. q # <<>> => /\ emitted' <= f[1] + 1
                    /\ ~isFirstEvent' /\ lastState' # ModeState[q[1]] => emitted' <= f[1]
    BY <1>1, <1>2 DEF StampedBy
  <2>6. ASSUME q # <<>>, ModeState[q[Len(q)]] # v
        PROVE  f[Len(q)] < changes'
    <3>1. f[Len(q)] \in Nat /\ f[Len(q)] <= changes /\ (ModeState[q[Len(q)]] # actual => f[Len(q)] < changes)
      BY <1>2, <2>3, <2>4, <2>6 DEF StampedBy
    <3> QED
      BY <1>1, <2>6, <3>1
  <2>7. q = <<>> => /\ emitted' <= changes' + 1
                    /\ ~isFirstEvent' /\ lastState' # v => emitted' <= changes'
    BY <1>1, <1>2 DEF StampedBy
  <2>8. StampedBy(q, f)'
    BY <1>1, <2>1, <2>2, <2>3, <2>5, <2>6, <2>7 DEF StampedBy, q
  <2> QED
    BY <1>3, <2>1, <2>8 DEF GenuineSoFar, q
<1>5. CASE told = {w}
  <2> DEFINE r == Append(q, s)
             g == Append(f, changes')
  <2>1. sigChan'[w] = r
    BY <1>5 DEF Dpms!Report
  <2>2. /\ Len(f) = Len(q) /\ Len(r) = Len(q) + 1 /\ Len(g) = Len(r) /\ g \in Seq(Nat)
        /\ r # <<>> /\ r[Len(r)] = s /\ g[Len(r)] = changes'
        /\ \A i \in 1..Len(q) : r[i] = q[i] /\ g[i] = f[i] /\ f[i] \in Nat
    <3>1. Len(f) = Len(q)
      BY <1>2 DEF StampedBy
    <3>2. /\ Len(r) = Len(q) + 1 /\ r # <<>> /\ r[Len(r)] = s
          /\ \A i \in 1..Len(q) : r[i] = q[i]
      BY <1>1
    <3>3. /\ g \in Seq(Nat) /\ Len(g) = Len(f) + 1 /\ g[Len(f) + 1] = changes'
          /\ \A i \in 1..Len(f) : g[i] = f[i] /\ f[i] \in Nat
      BY <1>1
    <3> HIDE DEF q, r, g
    <3> QED
      BY <3>1, <3>2, <3>3
  <2>3. /\ \A i \in 1..Len(q) : f[i] <= changes
        /\ \A i \in 1..Len(q) : \A j \in 1..Len(q) :
              j = i + 1 => f[i] <= f[j] /\ (ModeState[q[i]] # ModeState[q[j]] => f[i] < f[j])
    BY <1>2 DEF StampedBy
  <2>4. q # <<>> => /\ Len(q) \in 1..Len(q) /\ 1 \in 1..Len(q) /\ emitted <= f[1] + 1
                    /\ ~isFirstEvent /\ lastState # ModeState[q[1]] => emitted <= f[1]
                    /\ ModeState[q[Len(q)]] # actual => f[Len(q)] < changes
    BY <1>1, <1>2 DEF StampedBy
  <2>5. q = <<>> => /\ emitted <= changes + 1 /\ Len(q) = 0
                    /\ ~isFirstEvent /\ lastState # actual => emitted <= changes
    BY <1>2 DEF StampedBy
  <2> HIDE DEF r, g, q, v
  <2>6. \A i \in 1..Len(r) : i \in 1..Len(q) \/ i = Len(r)
    BY <1>1, <2>2
  <2>7. \A i \in 1..Len(r) : g[i] <= changes'
    <3> SUFFICES ASSUME NEW i \in 1..Len(r)
                 PROVE  g[i] <= changes'
      OBVIOUS
    <3>1. CASE i \in 1..Len(q)
      <4>1. g[i] = f[i] /\ f[i] \in Nat /\ f[i] <= changes
        BY <2>2, <2>3, <3>1
      <4> QED
        BY <1>1, <4>1
    <3>2. CASE i = Len(r)
      BY <1>1, <2>2, <3>2
    <3> QED
      BY <2>6, <3>1, <3>2
  <2>8. ASSUME NEW i \in 1..Len(r), NEW j \in 1..Len(r), j = i + 1
        PROVE  g[i] <= g[j] /\ (ModeState[r[i]] # ModeState[r[j]] => g[i] < g[j])
    <3>1. CASE j \in 1..Len(q)
      <4>1. i \in 1..Len(q)
        BY <1>1, <2>2, <2>8, <3>1
      <4> QED
        BY <2>2, <2>3, <2>8, <3>1, <4>1
    <3>2. CASE j = Len(r)
      <4>1. i = Len(q) /\ i \in 1..Len(q) /\ q # <<>>
        BY <1>1, <2>2, <2>5, <2>8, <3>2
      <4>2. /\ g[i] = f[Len(q)] /\ r[i] = q[Len(q)] /\ f[Len(q)] \in Nat /\ f[Len(q)] <= changes
            /\ g[j] = changes' /\ ModeState[r[j]] = v
        BY <2>2, <2>3, <3>2, <4>1 DEF v
      <4>3. ModeState[q[Len(q)]] # v => f[Len(q)] < changes'
        BY <1>1, <2>4, <4>1, <4>2
      <4> QED
        BY <1>1, <4>2, <4>3
    <3> QED
      BY <2>6, <3>1, <3>2
  <2>9. /\ emitted' <= g[1] + 1
        /\ ~isFirstEvent' /\ lastState' # ModeState[r[1]] => emitted' <= g[1]
    <3>1. CASE q # <<>>
      <4>1. g[1] = f[1] /\ r[1] = q[1]
        BY <2>2, <2>4, <3>1
      <4> QED
        BY <1>1, <2>4, <3>1, <4>1
    <3>2. CASE q = <<>>
      <4>1. g[1] = changes' /\ ModeState[r[1]] = v
        BY <1>1, <2>2, <2>5, <3>2 DEF v
      <4>2. emitted' <= changes' + 1
        BY <1>1, <2>5, <3>2
      <4>3. ~isFirstEvent' /\ lastState' # v => emitted' <= changes'
        BY <1>1, <2>5, <3>2
      <4> QED
        BY <4>1, <4>2, <4>3
    <3> QED
      BY <3>1, <3>2
  <2>10. ModeState[r[Len(r)]] = actual'
    BY <1>1, <2>2 DEF v
  <2>11. \E h \in Seq(Nat) : StampedBy(sigChan[w], h)'
    BY <2>1, <2>2, <2>7, <2>8, <2>9, <2>10 DEF StampedBy
  <2> QED
    BY <1>3, <2>11 DEF GenuineSoFar
<1> QED
  BY <1>4, <1>5

(* A signal that is read takes its number along.                           *)
LEMMA WatchStamps ==
    ASSUME Dpms!TypeOK, NEW w, Buses = {w}, GenuineSoFar(w), Dpms!Watch(w)
    PROVE  GenuineSoFar(w)'
<1> DEFINE q == sigChan[w]
           r == Tail(q)
           v == ModeState[q[1]]
<1>1. q \in Seq(Modes) /\ q # <<>> /\ Head(q) = q[1] /\ q[1] \in Modes /\ sigChan'[w] = r
  BY DEF Dpms!TypeOK, Dpms!Watch
<1>2. Len(q) \in Nat /\ Len(q) > 0 /\ changes \in Nat /\ emitted \in Nat /\ isFirstEvent \in BOOLEAN
  BY <1>1 DEF Dpms!TypeOK
<1>3. v \in Dpms!States
  BY <1>1, MeaningIsState
<1>4. Dpms!UpdateState(v) /\ UNCHANGED <<actual, changes>>
  BY <1>1 DEF Dpms!Watch, Dpms!deskVars
<1>5. /\ ~isFirstEvent' /\ lastState' = v
      /\ emitted' \in Nat /\ emitted' <= emitted + 1
      /\ ~isFirstEvent /\ lastState = v => emitted' = emitted
  <2> HIDE DEF v
  <2> QED
    BY <1>3, <1>4, UpdateStateCounts
<1>6. PICK f \in Seq(Nat) : StampedBy(q, f)
  BY DEF GenuineSoFar
<1>7. /\ Len(f) = Len(q)
      /\ \A i \in 1..Len(q) : f[i] \in Nat /\ f[i] <= changes
      /\ \A i \in 1..Len(q) : \A j \in 1..Len(q) :
            j = i + 1 => f[i] <= f[j] /\ (ModeState[q[i]] # ModeState[q[j]] => f[i] < f[j])
      /\ emitted <= f[1] + 1
      /\ ~isFirstEvent /\ lastState # v => emitted <= f[1]
      /\ ModeState[q[Len(q)]] # actual => f[Len(q)] < changes
  <2>1. \A i \in 1..Len(f) : f[i] \in Nat
    OBVIOUS
  <2> HIDE DEF q
  <2>2. Len(f) = Len(q)
    BY <1>6 DEF StampedBy
  <2> QED
    BY <1>1, <1>6, <2>1, <2>2 DEF StampedBy
<1>8. f[1] \in Nat /\ f[1] <= changes
  BY <1>2, <1>7
<1>9. emitted' <= f[1] + 1
  BY <1>2, <1>5, <1>7, <1>8 DEF GenuineSoFar
<1> DEFINE g == Tail(f)
<1>10. /\ g \in Seq(Nat) /\ Len(g) = Len(r) /\ Len(r) = Len(q) - 1
       /\ \A i \in 1..Len(r) : i + 1 \in 1..Len(q) /\ r[i] = q[i + 1] /\ g[i] = f[i + 1]
       /\ r = <<>> => Len(q) = 1
       /\ r # <<>> => Len(r) > 0
  <2>1. f # <<>>
    BY <1>2, <1>7
  <2>2. r \in Seq(Modes) /\ Len(r) = Len(q) - 1 /\ \A i \in 1..Len(r) : i + 1 \in 1..Len(q) /\ r[i] = q[i + 1]
    BY <1>1, <1>2
  <2>3. g \in Seq(Nat) /\ Len(g) = Len(f) - 1 /\ \A i \in 1..Len(g) : g[i] = f[i + 1]
    BY <1>7, <2>1
  <2>4. Len(<<>>) = 0
    OBVIOUS
  <2> HIDE DEF r, g, q
  <2>5. r = <<>> => Len(r) = 0
    BY <2>4, Zenon
  <2>6. r # <<>> => Len(r) > 0
    BY <2>2
  <2>7. Len(g) = Len(r)
    BY <1>7, <2>2, <2>3
  <2>8. r = <<>> => Len(q) = 1
    BY <1>2, <2>2, <2>5
  <2> QED
    BY <2>2, <2>3, <2>6, <2>7, <2>8
<1> HIDE DEF g, r, q, v
<1>11. \A i \in 1..Len(r) : g[i] <= changes
  BY <1>7, <1>10
<1>12. ASSUME NEW i \in 1..Len(r), NEW j \in 1..Len(r), j = i + 1
       PROVE  g[i] <= g[j] /\ (ModeState[r[i]] # ModeState[r[j]] => g[i] < g[j])
  <2>1. j + 1 = (i + 1) + 1
    BY <1>12
  <2> QED
    BY <1>7, <1>10, <2>1
<1>13. ASSUME r # <<>>
       PROVE  /\ emitted' <= g[1] + 1
              /\ lastState' # ModeState[r[1]] => emitted' <= g[1]
              /\ ModeState[r[Len(r)]] # actual => g[Len(r)] < changes
  <2>1. 1 \in 1..Len(r) /\ 2 \in 1..Len(q) /\ 1 \in 1..Len(q) /\ r[1] = q[2] /\ g[1] = f[2]
    <3>1. Len(r) \in Nat /\ Len(r) > 0
      BY <1>10, <1>13
    <3>2. Len(q) = Len(r) + 1
      BY <1>2, <1>10, <3>1
    <3>3. 1 \in 1..Len(r) /\ 2 \in 1..Len(q) /\ 1 \in 1..Len(q)
      BY <3>1, <3>2
    <3>4. r[1] = q[1 + 1] /\ g[1] = f[1 + 1]
      BY <1>10, <3>3
    <3>5. 1 + 1 = 2
      OBVIOUS
    <3> QED
      BY <3>3, <3>4, <3>5, Zenon
  <2>2. f[1] <= g[1] /\ (v # ModeState[r[1]] => f[1] < g[1]) /\ g[1] \in Nat
    BY <1>7, <2>1 DEF v
  <2>3. Len(r) \in 1..Len(r) /\ Len(r) + 1 = Len(q)
    BY <1>2, <1>10, <1>13
  <2>4. r[Len(r)] = q[Len(q)] /\ g[Len(r)] = f[Len(q)]
    BY <1>10, <2>3
  <2>5. emitted' <= g[1] + 1
    BY <1>5, <1>8, <1>9, <2>2
  <2>6. lastState' # ModeState[r[1]] => emitted' <= g[1]
    BY <1>5, <1>8, <1>9, <2>2
  <2> QED
    BY <1>7, <2>4, <2>5, <2>6
<1>14. ASSUME r = <<>>
       PROVE  /\ emitted' <= changes + 1
              /\ lastState' # actual => emitted' <= changes
  <2>1. v # actual => f[1] < changes
    BY <1>7, <1>10, <1>14 DEF v
  <2> QED
    BY <1>2, <1>5, <1>8, <1>9, <2>1
<1>15. \E h \in Seq(Nat) : StampedBy(sigChan[w], h)'
  BY <1>1, <1>4, <1>10, <1>11, <1>12, <1>13, <1>14 DEF StampedBy
<1> QED
  BY <1>5, <1>15 DEF GenuineSoFar

(* What was emitted is behind the numbers of the signals left.             *)
LEMMA OnlyGenuineAlone ==
    Dpms!Init /\ [][Dpms!Next]_(Dpms!vars) => []Dpms!OnlyGenuine
<1>1. Dpms!Init => GenuineSoFar(Bus)
  <2> SUFFICES ASSUME Dpms!Init
               PROVE  GenuineSoFar(Bus)
    OBVIOUS
  <2>1. sigChan[Bus] = <<>> /\ changes = 0 /\ emitted = 0 /\ isFirstEvent
    BY DEF Dpms!Init, Buses
  <2>2. <<>> \in Seq(Nat) /\ Len(<<>>) = 0
    OBVIOUS
  <2>3. StampedBy(sigChan[Bus], <<>>)
    BY <2>1, <2>2 DEF StampedBy
  <2> QED
    BY <2>1, <2>2, <2>3 DEF GenuineSoFar
<1>2. Dpms!TypeOK /\ GenuineSoFar(Bus) /\ [Dpms!Next]_(Dpms!vars) => GenuineSoFar(Bus)'
  <2> SUFFICES ASSUME Dpms!TypeOK, GenuineSoFar(Bus), [Dpms!Next]_(Dpms!vars)
               PROVE  GenuineSoFar(Bus)'
    OBVIOUS
  <2>1. CASE \/ Dpms!Cancel \/ Dpms!CloseOut \/ Dpms!Consume \/ Dpms!StopMonitor \/ UNCHANGED Dpms!vars
             \/ \E u \in Buses : Dpms!LoseBus(u) \/ Dpms!StopWatching(u)
    <3>1. UNCHANGED <<actual, changes, sigChan, isFirstEvent, lastState, emitted>>
      BY <2>1 DEF Dpms!Cancel, Dpms!CloseOut, Dpms!Consume, Dpms!StopMonitor, Dpms!LoseBus,
                  Dpms!StopWatching, Dpms!vars, Dpms!deskVars, Dpms!managerVars
    <3> QED
      BY <3>1 DEF GenuineSoFar, StampedBy
  <2> QED
    BY <2>1, ReportStamps, WatchStamps DEF Buses, Dpms!Next, Dpms!Desktop, Dpms!Manager, Dpms!Monitor
<1>3. Dpms!TypeOK /\ GenuineSoFar(Bus) => Dpms!OnlyGenuine
  <2> SUFFICES ASSUME Dpms!TypeOK, GenuineSoFar(Bus)
               PROVE  emitted <= changes + 1
    BY DEF Dpms!OnlyGenuine
  <2>1. PICK f \in Seq(Nat) : StampedBy(sigChan[Bus], f)
    BY DEF GenuineSoFar
  <2>2. changes \in Nat /\ emitted \in Nat /\ sigChan[Bus] \in Seq(Modes)
    BY DEF Dpms!TypeOK, Buses
  <2>3. CASE sigChan[Bus] = <<>>
    BY <2>1, <2>3 DEF StampedBy
  <2>4. CASE sigChan[Bus] # <<>>
    <3>1. 1 \in 1..Len(sigChan[Bus]) /\ Len(f) = Len(sigChan[Bus])
      BY <2>1, <2>2, <2>4 DEF StampedBy
    <3>2. f[1] \in Nat /\ f[1] <= changes /\ emitted <= f[1] + 1
      BY <2>1, <2>4, <3>1 DEF StampedBy
    <3> QED
      BY <2>2, <3>2
  <2> QED
    BY <2>3, <2>4
<1> QED
  BY <1>1, <1>2, <1>3, DpmsTypesAlone, PTL

--------------------------------------------------------------------------------
(* DesktopFeeds                                                            *)

(* The behaviours of the notifications part are NotificationFeed's own.    *)
LEMMA FeedPart ==
    /\ Init /\ part = "notifications" => Feed!Init
    /\ part = "notifications" /\ [Next]_vars => [Feed!Next]_(Feed!vars)
    /\ [Next]_vars => (part = "notifications" <=> (part = "notifications")')
BY DEF Init, Next, vars, feedVars, Feed!vars

(* The behaviours of the power part are PowerProfiles' own.                *)
LEMMA PowerPart ==
    /\ Init /\ part = "power" => Power!Init
    /\ part = "power" /\ [Next]_vars => [Power!Next]_(Power!vars)
    /\ [Next]_vars => (part = "power" <=> (part = "power")')
BY DEF Init, Next, vars, powerVars, Power!vars, Power!serviceVars, Power!managerVars, Power!chanVars

(* The behaviours of the artwork part are Artwork's own.                   *)
LEMMA ArtPart ==
    /\ Init /\ part = "artwork" => Art!Init
    /\ part = "artwork" /\ [Next]_vars => [Art!Next]_(Art!vars)
    /\ [Next]_vars => (part = "artwork" <=> (part = "artwork")')
BY DEF Init, Next, vars, artVars, Art!vars, Art!diskVars, Art!queueVars, Art!loopVars, Art!cacheVars

(* The behaviours of the dpms part are TransitionSource's own.             *)
LEMMA DpmsPart ==
    /\ Init /\ part = "dpms" => Dpms!Init
    /\ part = "dpms" /\ [Next]_vars => [Dpms!Next]_(Dpms!vars)
    /\ [Next]_vars => (part = "dpms" <=> (part = "dpms")')
BY DEF Init, Next, vars, dpmsVars, Dpms!vars, Dpms!deskVars, Dpms!managerVars, Dpms!monitorVars

(* The behaviours of the streams part are EventStreams' own.               *)
LEMMA StreamsPart ==
    /\ Init /\ part = "streams" => Streaming!Init
    /\ part = "streams" /\ [Next]_vars => [Streaming!Next]_(Streaming!vars)
    /\ [Next]_vars => (part = "streams" <=> (part = "streams")')
BY DEF Init, Next, vars, streamVars, Streaming!vars

(* NotificationsKept for any number of notifications and any capacities:   *)
(* none is lost or doubled, but for those the eavesdropping channel had no *)
(* room for, until the context is done or the process ends, and it ends    *)
(* only through a goroutine the close of out left.                         *)
THEOREM NotificationsKeptAlways == Spec => []NotificationsKept
<1>1. Feed!Init /\ [][Feed!Next]_(Feed!vars) => []Feed!NotificationsKept
      BY FeedsAssumption, NotificationsKeptAlone DEF FeedsAssumption
<1> QED
    BY <1>1, FeedPart, PTL DEF Spec, NotificationsKept

(* OnlyIconsCached for any notifications, icons and files that come and    *)
(* go: goroutines that share the cache never leave a failure in it, and    *)
(* image data wins.                                                        *)
THEOREM OnlyIconsCachedAlways == Spec => []OnlyIconsCached
<1>1. Feed!Init /\ [][Feed!Next]_(Feed!vars) => []Feed!OnlyIconsCached
      BY FeedsAssumption, OnlyIconsCachedAlone DEF FeedsAssumption
<1> QED
    BY <1>1, FeedPart, PTL DEF Spec, OnlyIconsCached

(* ClientsHaveProfile for any profiles, clients and capacity: a switch     *)
(* during Start, or by two requests at once, is neither lost nor undone.   *)
THEOREM ClientsHaveProfileAlways == Spec => []ClientsHaveProfile
<1>1. Power!Init /\ [][Power!Next]_(Power!vars) => []Power!ClientsHaveProfile
      BY FeedsAssumption, ClientsHaveProfileAlone DEF FeedsAssumption
<1> QED
    BY <1>1, PowerPart, PTL DEF Spec, ClientsHaveProfile

(* StreamsInOrder for any number of casters and streams and any capacity:  *)
(* each source's events arrive in their order and none twice, although     *)
(* broadcasts interleave and a full channel drops events.                  *)
THEOREM StreamsInOrderAlways == Spec => []StreamsInOrder
<1>1. Streaming!Init /\ [][Streaming!Next]_(Streaming!vars) => []Streaming!StreamsInOrder
      BY FeedsAssumption, StreamsInOrderAlone DEF FeedsAssumption
<1> QED
    BY <1>1, StreamsPart, PTL DEF Spec, StreamsInOrder

(* OnlyGenuine for the DPMS manager's one bus, whatever it reports and     *)
(* however often: the manager emits no event that is not a transition of   *)
(* the desktop, but for the first.                                         *)
THEOREM OnlyGenuineAlways == Spec => []OnlyGenuine
BY OnlyGenuineAlone, DpmsPart, PTL DEF Spec, OnlyGenuine

(* ArtIsRight for any tracks, keys and cover files: no track gets the      *)
(* artwork of another through the two caches, and artwork known for the    *)
(* track that stays on is not taken away.                                  *)
THEOREM ArtIsRightAlways == Spec => ArtIsRight
<1>1. ~(part = "artwork") /\ [Next]_vars =>
          [Art!ArtIsOwn' /\ (shown # Nil /\ shown.art # Nil /\ shown'.track = shown.track => shown'.art # Nil)]_shown
      BY DEF Next, vars, artVars
<1> QED
    BY <1>1, ArtIsRightAlone, ArtPart, PTL DEF Spec, ArtIsRight, Art!ArtIsRight

(* FeedsTypeOK for any values of the constants: types and capacities of    *)
(* every part, and no stream's channel is sent to after it was closed.     *)
THEOREM FeedsTypesAlways == Spec => []FeedsTypeOK
<1>1. /\ Feed!Init /\ [][Feed!Next]_(Feed!vars) => []FeedInv
      /\ Power!Init /\ [][Power!Next]_(Power!vars) => []PowerInv
      /\ Art!Init /\ [][Art!Next]_(Art!vars) => []Art!TypeOK
      /\ Streaming!Init /\ [][Streaming!Next]_(Streaming!vars) => []Streaming!TypeOK
      BY FeedsAssumption, FeedInvAlways, PowerInvAlways, ArtTypesAlone, StreamTypesAlone DEF FeedsAssumption
<1>2. (FeedInv => Feed!TypeOK) /\ (PowerInv => Power!TypeOK)
      BY DEF FeedInv, FeedType, PowerInv, PowerType
<1> QED
    BY <1>1, <1>2, DpmsTypesAlone, FeedPart, PowerPart, ArtPart, DpmsPart, StreamsPart, PTL
    DEF Spec, FeedsTypeOK

================================================================================
