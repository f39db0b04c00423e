--------------------------- MODULE MediaPlayersProofs ---------------------------
(* Proofs about MediaPlayers, for any names, connections and capacity.     *)
EXTENDS MediaPlayers, FiniteSetTheorems, TLAPS

--------------------------------------------------------------------------------
(* Signals on their way to the loop                                        *)

\* o gives up a name nobody takes; o takes the name s; o has a status of S.
Removals(o) == [member : {"NameOwnerChanged"}, service : Services, old : {o}, new : {Nil}]
Additions(o, s) == [member : {"NameOwnerChanged"}, service : {s}, old : Owners \cup {Nil}, new : {o}]
Changes(o, S) == [member : {"PropertiesChanged"}, sender : {o}, status : S]

SomeAddition(o) == UNION {Additions(o, s) : s \in Services}

OwnerSignals ==
    [member : {"NameOwnerChanged"}, service : Services, old : Owners \cup {Nil}, new : Owners \cup {Nil}]
StatusSignals == [member : {"PropertiesChanged"}, sender : Owners, status : Statuses]
BusSignals == OwnerSignals \cup StatusSignals

\* q holds no signal of R; q holds one of A with none of R behind it.
Lacks(q, R) == \A j \in 1..Len(q) : q[j] \notin R
Ends(q, A, R) == \E i \in 1..Len(q) : q[i] \in A /\ \A j \in 1..Len(q) : j > i => q[j] \notin R

--------------------------------------------------------------------------------
(* The inductive invariants                                                *)

LoopStates == {"start", "failed", "list", "bootNext", "bootFetch", "bootStore", "started",
               "select", "fetch", "store", "broadcast", "done"}
Asking == {"bootFetch", "fetch"}
Storing == {"bootStore", "store"}

BusType ==
    /\ nameOwner \in [Services -> Owners \cup {Nil}]
    /\ status \in [Owners -> Statuses]
    /\ signals \in Seq(BusSignals)
    /\ announced \in 0..MaxSignals
    /\ displaced \subseteq Owners /\ released \subseteq Owners

LoopType ==
    /\ loop \in LoopStates
    /\ names \subseteq Services
    /\ loop \in Asking => work \in [owner : Owners, service : Services]
    /\ loop \in Storing => work \in [owner : Owners, player : Players]
    /\ activePlayers \in [Owners -> Players \cup {Nil}]

PollType ==
    /\ toPoll \subseteq Owners \X Services
    /\ poller = "write" => polled \in Owners

ChanType ==
    /\ eventsChan \in 0..EventsCap
    /\ latest \in [Owners -> Players \cup {Nil}]
    /\ closed => loop = "done"
    /\ OnlyPollerPanics

TypeInv == BusType /\ LoopType /\ PollType /\ ChanType

\* Nothing is announced or listed before the match rules are in place.
Quiet ==
    /\ ~subscribed => signals = <<>>
    /\ subscribed <=> loop \notin {"start", "failed"}
    /\ loop \in {"start", "failed"} => activePlayers = NoPlayers

\* While neither goroutine is between a change of the list and its
\* broadcast, the last snapshot is the list.
Snapshot ==
    /\ loop \notin {"select", "fetch", "store", "broadcast", "done"} => poller = "off"
    /\ poller \in {"off", "select", "done"} => ~updated
    /\ loop \in {"start", "failed", "list", "started", "select", "fetch", "store", "done"} =>
           (~lost /\ ~updated /\ panicked = Nil => latest = activePlayers)

\* The last status announced is the status.
StatusTold ==
    \A o \in Owners, st \in Statuses :
        Ends(signals, Changes(o, {st}), Changes(o, Statuses)) => status[o] = st

\* A name taken and not given up is held.
StillHeld ==
    \A o \in Owners \ displaced :
        /\ \A s \in Services : Ends(signals, Additions(o, s), Removals(o)) => nameOwner[s] = o
        /\ loop \in Asking /\ work.owner = o /\ Lacks(signals, Removals(o)) => nameOwner[work.service] = o

\* st is the status of o, or there are news of it in the queue.
Known(o, st) == st = status[o] \/ ~Lacks(signals, Changes(o, Statuses))

WorkKnown ==
    \A o \in Owners \ displaced :
        loop \in Storing /\ work.owner = o /\ Lacks(signals, Removals(o)) /\ o \notin unread =>
            Known(o, work.player.status)

\* An owner without a name is not listed, nor about to be, or it is going to
\* be removed.
Unlisted(o) ==
    /\ o \notin Registered
    /\ loop \in Asking \cup Storing => work.owner # o
    /\ Lacks(signals, SomeAddition(o))

NamelessGo ==
    \A o \in Owners \ displaced :
        Holds(o) = {} => Unlisted(o) \/ Ends(signals, Removals(o), SomeAddition(o))

\* An owner with a name is listed with its status, or about to be.
ToList(o) ==
    \/ loop = "list"
    \/ loop \in {"bootNext", "bootFetch", "bootStore"} /\ \E s \in names : nameOwner[s] = o

Listed(o) == o \in Registered /\ (o \notin unread => Known(o, activePlayers[o].status))

HoldersListed ==
    subscribed /\ busUp =>
        \A o \in Owners \ (released \cup displaced) :
            Holds(o) # {} =>
                \/ Ends(signals, SomeAddition(o), Removals(o))
                \/ /\ Lacks(signals, Removals(o))
                   /\ \/ ToList(o)
                      \/ loop \in Asking \cup Storing /\ work.owner = o
                      \/ Listed(o)

ListInv == StatusTold /\ StillHeld /\ WorkKnown /\ NamelessGo /\ HoldersListed

--------------------------------------------------------------------------------
(* The queue                                                               *)

(* A queue lacks a kind of signal after Append iff it did before and the   *)
(* new signal is of another kind.                                          *)
LEMMA LacksAppend ==
    ASSUME NEW S, NEW q \in Seq(S), NEW x \in S, NEW R
    PROVE  Lacks(Append(q, x), R) <=> Lacks(q, R) /\ x \notin R
<1>1. Append(q, x) \in Seq(S) /\ Len(Append(q, x)) = Len(q) + 1
      OBVIOUS
<1>2. Append(q, x)[Len(q) + 1] = x /\ \A j \in 1..Len(q) : Append(q, x)[j] = q[j]
      OBVIOUS
<1>3. Len(q) \in Nat
      OBVIOUS
<1>4. 1..(Len(q) + 1) = (1..Len(q)) \cup {Len(q) + 1}
      BY <1>3
<1> QED
    BY <1>1, <1>2, <1>3, <1>4 DEF Lacks

(* The same for the signal the loop takes.                                 *)
LEMMA LacksTail ==
    ASSUME NEW S, NEW q \in Seq(S), q # <<>>, NEW R
    PROVE  Lacks(q, R) <=> Head(q) \notin R /\ Lacks(Tail(q), R)
<1>1. Len(q) \in Nat /\ Len(q) > 0 /\ Len(Tail(q)) = Len(q) - 1 /\ Head(q) = q[1]
      OBVIOUS
<1>2. \A j \in 1..Len(Tail(q)) : Tail(q)[j] = q[j + 1]
      OBVIOUS
<1>3. \A j \in 2..Len(q) : j - 1 \in 1..Len(Tail(q)) /\ Tail(q)[j - 1] = q[j]
      BY <1>1, <1>2
<1>4. 1..Len(q) = {1} \cup 2..Len(q)
      BY <1>1
<1>5. \A j \in 1..Len(Tail(q)) : j + 1 \in 1..Len(q)
      BY <1>1
<1> QED
    BY <1>1, <1>2, <1>3, <1>4, <1>5 DEF Lacks

(* What comes last after Append: the new signal, or what did so before.    *)
LEMMA EndsAppend ==
    ASSUME NEW S, NEW q \in Seq(S), NEW x \in S, NEW A, NEW R
    PROVE  Ends(Append(q, x), A, R) <=> x \in A \/ (Ends(q, A, R) /\ x \notin R)
<1>1. Append(q, x) \in Seq(S) /\ Len(Append(q, x)) = Len(q) + 1 /\ Len(q) \in Nat
      OBVIOUS
<1>2. Append(q, x)[Len(q) + 1] = x /\ \A j \in 1..Len(q) : Append(q, x)[j] = q[j]
      OBVIOUS
<1>3. ASSUME x \in A
      PROVE  Ends(Append(q, x), A, R)
      <2>1. Len(q) + 1 \in 1..Len(Append(q, x)) /\ Append(q, x)[Len(q) + 1] \in A
            BY <1>1, <1>2, <1>3
      <2>2. \A j \in 1..Len(Append(q, x)) : ~(j > Len(q) + 1)
            BY <1>1
      <2> QED
          BY <2>1, <2>2 DEF Ends
<1>4. ASSUME Ends(q, A, R), x \notin R
      PROVE  Ends(Append(q, x), A, R)
      <2>1. PICK i \in 1..Len(q) : q[i] \in A /\ \A j \in 1..Len(q) : j > i => q[j] \notin R
            BY <1>4 DEF Ends
      <2>2. i \in 1..Len(Append(q, x)) /\ Append(q, x)[i] \in A
            BY <1>1, <1>2, <2>1
      <2>3. \A j \in 1..Len(Append(q, x)) : j > i => Append(q, x)[j] \notin R
            <3>1. SUFFICES ASSUME NEW j \in 1..Len(Append(q, x)), j > i
                           PROVE  Append(q, x)[j] \notin R
                  OBVIOUS
            <3>2. CASE j = Len(q) + 1
                  BY <1>2, <1>4, <3>2
            <3>3. CASE j # Len(q) + 1
                  <4>1. j \in 1..Len(q)
                        BY <1>1, <3>3
                  <4> QED
                      BY <1>2, <2>1, <3>1, <4>1
            <3> QED
                BY <3>2, <3>3
      <2> QED
          BY <2>2, <2>3 DEF Ends
<1>5. ASSUME Ends(Append(q, x), A, R), x \notin A
      PROVE  Ends(q, A, R) /\ x \notin R
      <2>1. PICK i \in 1..Len(Append(q, x)) :
                Append(q, x)[i] \in A /\ \A j \in 1..Len(Append(q, x)) : j > i => Append(q, x)[j] \notin R
            BY <1>5 DEF Ends
      <2>2. i \in 1..Len(q) /\ q[i] \in A
            BY <1>1, <1>2, <1>5, <2>1
      <2>3. x \notin R
            <3>1. Len(q) + 1 \in 1..Len(Append(q, x)) /\ Len(q) + 1 > i
                  BY <1>1, <2>2
            <3> QED
                BY <1>2, <2>1, <3>1
      <2>4. \A j \in 1..Len(q) : j > i => q[j] \notin R
            <3>1. \A j \in 1..Len(q) : j \in 1..Len(Append(q, x))
                  BY <1>1
            <3> QED
                BY <1>2, <2>1, <3>1
      <2> QED
          BY <2>2, <2>3, <2>4 DEF Ends
<1> QED
    BY <1>3, <1>4, <1>5

(* The same for the signal the loop takes.                                 *)
LEMMA EndsTail ==
    ASSUME NEW S, NEW q \in Seq(S), q # <<>>, NEW A, NEW R
    PROVE  Ends(q, A, R) <=> (Head(q) \in A /\ Lacks(Tail(q), R)) \/ Ends(Tail(q), A, R)
<1>1. Len(q) \in Nat /\ Len(q) > 0 /\ Len(Tail(q)) = Len(q) - 1 /\ Head(q) = q[1]
      OBVIOUS
<1>2. \A j \in 1..Len(Tail(q)) : j + 1 \in 1..Len(q) /\ Tail(q)[j] = q[j + 1]
      BY <1>1
<1>3. \A j \in 1..Len(q) : j > 1 => j - 1 \in 1..Len(Tail(q)) /\ q[j] = Tail(q)[j - 1]
      BY <1>1, <1>2
<1>4. ASSUME Ends(Tail(q), A, R)
      PROVE  Ends(q, A, R)
      <2>1. PICK i \in 1..Len(Tail(q)) :
                Tail(q)[i] \in A /\ \A j \in 1..Len(Tail(q)) : j > i => Tail(q)[j] \notin R
            BY <1>4 DEF Ends
      <2>2. i + 1 \in 1..Len(q) /\ q[i + 1] \in A
            BY <1>2, <2>1
      <2>3. \A j \in 1..Len(q) : j > i + 1 => q[j] \notin R
            <3>1. SUFFICES ASSUME NEW j \in 1..Len(q), j > i + 1
                           PROVE  q[j] \notin R
                  OBVIOUS
            <3>2. j > 1 /\ j - 1 > i
                  BY <2>1, <3>1
            <3> QED
                BY <1>3, <2>1, <3>2
      <2> QED
          BY <2>2, <2>3 DEF Ends
<1>5. ASSUME Head(q) \in A, Lacks(Tail(q), R)
      PROVE  Ends(q, A, R)
      <2>1. 1 \in 1..Len(q) /\ q[1] \in A
            BY <1>1, <1>5
      <2>2. \A j \in 1..Len(q) : j > 1 => q[j] \notin R
            BY <1>3, <1>5 DEF Lacks
      <2> QED
          BY <2>1, <2>2 DEF Ends
<1>6. ASSUME Ends(q, A, R)
      PROVE  (Head(q) \in A /\ Lacks(Tail(q), R)) \/ Ends(Tail(q), A, R)
      <2>1. PICK i \in 1..Len(q) : q[i] \in A /\ \A j \in 1..Len(q) : j > i => q[j] \notin R
            BY <1>6 DEF Ends
      <2>2. CASE i = 1
            <3>1. \A j \in 1..Len(Tail(q)) : j + 1 > i
                  BY <1>1, <2>2
            <3>2. Lacks(Tail(q), R)
                  BY <1>2, <2>1, <3>1 DEF Lacks
            <3> QED
                BY <1>1, <2>1, <2>2, <3>2
      <2>3. CASE i > 1
            <3>1. i - 1 \in 1..Len(Tail(q)) /\ Tail(q)[i - 1] \in A
                  BY <1>3, <2>1, <2>3
            <3>2. \A j \in 1..Len(Tail(q)) : j > i - 1 => j + 1 > i
                  OBVIOUS
            <3>3. \A j \in 1..Len(Tail(q)) : j > i - 1 => Tail(q)[j] \notin R
                  BY <1>2, <2>1, <3>2
            <3> QED
                BY <3>1, <3>3 DEF Ends
      <2> QED
          BY <1>1, <2>1, <2>2, <2>3
<1> QED
    BY <1>4, <1>5, <1>6

(* An empty queue lacks everything.                                        *)
LEMMA EmptyQueue ==
    ASSUME NEW A, NEW R
    PROVE  Lacks(<<>>, R) /\ ~Ends(<<>>, A, R)
BY DEF Lacks, Ends

(* A queue that lacks a kind of signal does not end with one.              *)
LEMMA EndsNotLacks ==
    ASSUME NEW q, NEW A, NEW R, Ends(q, A, R)
    PROVE  ~Lacks(q, A)
BY DEF Lacks, Ends

(* What an ownership signal says of a connection o.                        *)
LEMMA OwnerSignal ==
    ASSUME NEW sig \in OwnerSignals, NEW o \in Owners
    PROVE  /\ sig \in Removals(o) <=> sig.old = o /\ sig.new = Nil
           /\ \A s \in Services : sig \in Additions(o, s) <=> sig.service = s /\ sig.new = o
           /\ sig \in SomeAddition(o) <=> sig.new = o
           /\ \A S : sig \notin Changes(o, S)
           /\ sig.member = "NameOwnerChanged" /\ sig.service \in Services
           /\ sig.old \in Owners \cup {Nil} /\ sig.new \in Owners \cup {Nil}
<1>1. sig \in Removals(o) <=> sig.old = o /\ sig.new = Nil
      BY DEF OwnerSignals, Removals
<1>2. \A s \in Services : sig \in Additions(o, s) <=> sig.service = s /\ sig.new = o
      BY DEF OwnerSignals, Additions
<1>3. sig.service \in Services /\ sig.member = "NameOwnerChanged"
      BY DEF OwnerSignals
<1>4. sig \in SomeAddition(o) <=> sig.new = o
      BY <1>2, <1>3 DEF SomeAddition
<1>5. \A S : sig \notin Changes(o, S)
      BY <1>3 DEF Changes
<1> QED
    BY <1>1, <1>2, <1>3, <1>4, <1>5 DEF OwnerSignals

(* What a status signal says of a connection o.                            *)
LEMMA StatusSignal ==
    ASSUME NEW sig \in StatusSignals, NEW o \in Owners
    PROVE  /\ sig \notin Removals(o) /\ sig \notin SomeAddition(o)
           /\ \A s \in Services : sig \notin Additions(o, s)
           /\ sig \in Changes(o, Statuses) <=> sig.sender = o
           /\ \A st \in Statuses : sig \in Changes(o, {st}) <=> sig.sender = o /\ sig.status = st
           /\ sig.member = "PropertiesChanged" /\ sig.sender \in Owners /\ sig.status \in Statuses
<1>1. sig.member = "PropertiesChanged" /\ sig.sender \in Owners /\ sig.status \in Statuses
      BY DEF StatusSignals
<1>2. sig \notin Removals(o)
      BY <1>1 DEF Removals
<1>3. \A s \in Services : sig \notin Additions(o, s)
      BY <1>1 DEF Additions
<1>4. sig \notin SomeAddition(o)
      BY <1>3 DEF SomeAddition
<1>5. sig \in Changes(o, Statuses) <=> sig.sender = o
      BY DEF StatusSignals, Changes
<1>6. \A st \in Statuses : sig \in Changes(o, {st}) <=> sig.sender = o /\ sig.status = st
      BY DEF StatusSignals, Changes
<1> QED
    BY <1>1, <1>2, <1>3, <1>4, <1>5, <1>6

--------------------------------------------------------------------------------
(* Types                                                                   *)

(* What the bus announces is a signal of the right shape.                  *)
LEMMA BusStep ==
    ASSUME TypeInv, [Next]_vars
    PROVE  BusType'
<1> USE MediaAssumption
<1>1. ASSUME NEW s \in Services, NEW new \in Owners \cup {Nil}, ChangeOwner(s, new)
      PROVE  BusType'
      <2> DEFINE sig == [member |-> "NameOwnerChanged", service |-> s, old |-> nameOwner[s], new |-> new]
      <2>1. nameOwner[s] \in Owners \cup {Nil}
            BY DEF TypeInv, BusType
      <2>2. sig \in BusSignals
            BY <2>1 DEF BusSignals, OwnerSignals
      <2>3. signals' = Append(signals, sig) \/ signals' = signals
            BY <1>1 DEF ChangeOwner, Announce
      <2> HIDE DEF sig
      <2>4. signals' \in Seq(BusSignals)
            BY <2>2, <2>3 DEF TypeInv, BusType
      <2>5. announced' \in 0..MaxSignals
            BY <1>1 DEF ChangeOwner, Announce, TypeInv, BusType
      <2>6. nameOwner' \in [Services -> Owners \cup {Nil}] /\ status' = status
            BY <1>1 DEF ChangeOwner, TypeInv, BusType
      <2>7. displaced' \subseteq Owners /\ released' \subseteq Owners
            BY <1>1, <2>1 DEF ChangeOwner, TypeInv, BusType
      <2> QED
          BY <2>4, <2>5, <2>6, <2>7 DEF TypeInv, BusType
<1>2. ASSUME NEW o \in Owners, NEW st \in Statuses, ChangeStatus(o, st)
      PROVE  BusType'
      <2> DEFINE sig == [member |-> "PropertiesChanged", sender |-> o, status |-> st]
      <2>1. sig \in BusSignals
            BY DEF BusSignals, StatusSignals
      <2>2. signals' = Append(signals, sig) \/ signals' = signals
            BY <1>2 DEF ChangeStatus, Announce
      <2> HIDE DEF sig
      <2>3. signals' \in Seq(BusSignals)
            BY <2>1, <2>2 DEF TypeInv, BusType
      <2>4. announced' \in 0..MaxSignals
            BY <1>2 DEF ChangeStatus, Announce, TypeInv, BusType
      <2>5. status' \in [Owners -> Statuses]
            BY <1>2 DEF ChangeStatus, TypeInv, BusType
      <2> QED
          BY <1>2, <2>3, <2>4, <2>5 DEF ChangeStatus, TypeInv, BusType
<1>3. CASE HandleDbusSignal
      <2>1. signals' \in Seq(BusSignals)
            BY <1>3 DEF HandleDbusSignal, TypeInv, BusType
      <2> QED
          BY <1>3, <2>1 DEF HandleDbusSignal, TypeInv, BusType
<1>4. ASSUME UNCHANGED <<nameOwner, status, signals, announced, displaced, released>>
      PROVE  BusType'
      BY <1>4 DEF TypeInv, BusType
<1>5. CASE LoseBus \/ Cancel \/ Boot
      BY <1>4, <1>5 DEF LoseBus, Cancel, Boot, StartFails, Subscribe, ListNames, GetNameOwner,
                        BootBroadcast, Launch, busVars
<1>6. CASE Fetch \/ Register \/ LoopBroadcast \/ LoopReturns
      BY <1>4, <1>6 DEF Fetch, Register, LoopBroadcast, LoopReturns, busVars
<1>7. CASE Poller \/ Monitor
      BY <1>4, <1>7 DEF Poller, PollCopy, PollRead, PollWrite, PollEnd, PollerReturns, Monitor, busVars
<1>8. CASE UNCHANGED vars
      BY <1>4, <1>8 DEF vars, busVars
<1> QED
    BY <1>1, <1>2, <1>3, <1>5, <1>6, <1>7, <1>8 DEF Next, Bus, Loop

(* A player stays one, with its service, whatever field is stored.         *)
LEMMA PlayerFields ==
    ASSUME NEW p \in Players, NEW st \in Statuses
    PROVE  /\ [p EXCEPT !.status = st] \in Players /\ [p EXCEPT !.status = st].status = st
           /\ [p EXCEPT !.position = "polled"] \in Players
           /\ [p EXCEPT !.position = "polled"].status = p.status
           /\ p # Nil
BY MediaAssumption DEF Players, Positions

(* What the handler of a signal does to the list.                          *)
LEMMA SignalEffect ==
    ASSUME TypeInv, HandleDbusSignal
    PROVE  \/ /\ Head(signals) \in OwnerSignals
              /\ \/ /\ Head(signals).old \in Owners /\ Head(signals).new = Nil
                    /\ activePlayers' = [activePlayers EXCEPT ![Head(signals).old] = Nil]
                    /\ loop' = "broadcast" /\ work' = work
                 \/ /\ Head(signals).new \in Owners
                    /\ activePlayers' = activePlayers
                    /\ loop' = "fetch"
                    /\ work' = [owner |-> Head(signals).new, service |-> Head(signals).service]
           \/ /\ Head(signals) \in StatusSignals
              /\ work' = work
              /\ LET o == Head(signals).sender IN
                 \/ /\ activePlayers[o] = Nil /\ activePlayers' = activePlayers
                    /\ loop' = "select"
                 \/ /\ activePlayers[o] \in Players
                    /\ activePlayers' = [activePlayers EXCEPT
                           ![o] = [activePlayers[o] EXCEPT !.status = Head(signals).status]]
                    /\ loop' = "broadcast"
<1>1. Head(signals) \in BusSignals
      BY DEF TypeInv, BusType, HandleDbusSignal
<1>2. CASE Head(signals) \in OwnerSignals
      <2>1. Head(signals).member = "NameOwnerChanged"
            BY <1>2 DEF OwnerSignals
      <2>2. Head(signals).old \in Owners \cup {Nil} /\ Head(signals).new \in Owners \cup {Nil}
            BY <1>2 DEF OwnerSignals
      <2>3. OwnerChanged(Head(signals))
            BY <2>1 DEF HandleDbusSignal
      <2> QED
          BY <1>2, <2>2, <2>3 DEF OwnerChanged
<1>3. CASE Head(signals) \in StatusSignals
      <2>1. Head(signals).member = "PropertiesChanged" /\ Head(signals).sender \in Owners
            BY <1>3 DEF StatusSignals
      <2>2. PropertiesChanged(Head(signals))
            BY <2>1 DEF HandleDbusSignal
      <2>3. activePlayers[Head(signals).sender] \in Players \cup {Nil}
            BY <2>1 DEF TypeInv, LoopType
      <2> QED
          BY <1>3, <2>2, <2>3 DEF PropertiesChanged
<1> QED
    BY <1>1, <1>2, <1>3 DEF BusSignals

(* What PollWrite does to the list.                                        *)
LEMMA PollEffect ==
    ASSUME TypeInv, PollWrite
    PROVE  \/ activePlayers' = activePlayers /\ updated' = updated
           \/ /\ polled \in Owners /\ activePlayers[polled] \in Players
              /\ activePlayers' = [activePlayers EXCEPT
                     ![polled] = [activePlayers[polled] EXCEPT !.position = "polled"]]
              /\ updated' = TRUE
<1>1. polled \in Owners
      BY DEF TypeInv, PollType, PollWrite
<1>2. activePlayers[polled] \in Players \cup {Nil}
      BY <1>1 DEF TypeInv, LoopType
<1>3. CASE activePlayers[polled] = Nil
      BY <1>3 DEF PollWrite
<1>4. CASE activePlayers[polled] # Nil
      BY <1>1, <1>2, <1>4 DEF PollWrite
<1> QED
    BY <1>3, <1>4

(* The registration in progress and the list have their types.             *)
LEMMA LoopStep ==
    ASSUME TypeInv, [Next]_vars
    PROVE  LoopType'
<1> USE DEF LoopStates, Asking, Storing
<1>1. ASSUME UNCHANGED <<loop, names, work, activePlayers>>
      PROVE  LoopType'
      BY <1>1 DEF TypeInv, LoopType
<1>2. CASE Bus
      BY <1>1, <1>2 DEF Bus, ChangeOwner, ChangeStatus, LoseBus, Cancel, loopVars
<1>3. CASE StartFails \/ Subscribe \/ BootBroadcast \/ Launch
      BY <1>3 DEF StartFails, Subscribe, BootBroadcast, Launch, TypeInv, LoopType
<1>4. CASE ListNames
      BY <1>4 DEF ListNames, TypeInv, LoopType
<1>5. ASSUME NEW s \in Services, GetNameOwner(s)
      PROVE  LoopType'
      <2>1. nameOwner[s] \in Owners \cup {Nil}
            BY DEF TypeInv, BusType
      <2>2. names' \subseteq Services /\ activePlayers' = activePlayers /\ loop = "bootNext"
            BY <1>5 DEF GetNameOwner, TypeInv, LoopType
      <2>3. CASE nameOwner[s] = Nil
            BY <1>5, <2>2, <2>3 DEF GetNameOwner, TypeInv, LoopType
      <2>4. CASE nameOwner[s] # Nil
            <3>1. loop' = "bootFetch" /\ work' = [owner |-> nameOwner[s], service |-> s]
                  BY <1>5, <2>4 DEF GetNameOwner
            <3> QED
                BY <2>1, <2>2, <2>4, <3>1 DEF TypeInv, LoopType
      <2> QED
          BY <2>3, <2>4
<1>6. CASE Fetch
      <2>1. work.owner \in Owners /\ work.service \in Services
            BY <1>6 DEF Fetch, TypeInv, LoopType
      <2>2. nameOwner[work.service] \in Owners \cup {Nil}
            BY <2>1 DEF TypeInv, BusType
      <2>3. \E st \in Statuses :
                work' = [owner |-> work.owner,
                         player |-> [service |-> work.service, status |-> st, position |-> "fetched"]]
            <3>1. "Stopped" \in Statuses
                  BY DEF Statuses
            <3>2. nameOwner[work.service] # Nil => status[nameOwner[work.service]] \in Statuses
                  BY <2>2 DEF TypeInv, BusType
            <3> QED
                BY <1>6, <3>1, <3>2 DEF Fetch
      <2>4. work' \in [owner : Owners, player : Players]
            BY <2>1, <2>3 DEF Players, Positions
      <2>5. loop' \in {"bootStore", "store"}
            BY <1>6 DEF Fetch
      <2>6. names' = names /\ activePlayers' = activePlayers
            BY <1>6 DEF Fetch
      <2> QED
          BY <2>4, <2>5, <2>6 DEF TypeInv, LoopType
<1>7. CASE Register
      <2>1. work.owner \in Owners /\ work.player \in Players
            BY <1>7 DEF Register, TypeInv, LoopType
      <2>2. activePlayers' \in [Owners -> Players \cup {Nil}]
            BY <1>7, <2>1 DEF Register, TypeInv, LoopType
      <2>3. loop' \in {"bootNext", "broadcast"} /\ names' = names
            BY <1>7 DEF Register
      <2> QED
          BY <2>2, <2>3 DEF TypeInv, LoopType
<1>8. CASE HandleDbusSignal
      <2>1. names' = names
            BY <1>8 DEF HandleDbusSignal
      <2>2. activePlayers' \in [Owners -> Players \cup {Nil}]
            <3>1. \A p \in Players, st \in Statuses : [p EXCEPT !.status = st] \in Players
                  BY PlayerFields
            <3>2. Head(signals) \in StatusSignals =>
                      Head(signals).status \in Statuses /\ Head(signals).sender \in Owners
                  BY DEF StatusSignals
            <3> QED
                BY <1>8, <3>1, <3>2, SignalEffect DEF TypeInv, LoopType
      <2>3. \/ loop' \in {"broadcast", "select"}
            \/ loop' = "fetch" /\ work' \in [owner : Owners, service : Services]
            <3>1. Head(signals) \in OwnerSignals => Head(signals).service \in Services
                  BY DEF OwnerSignals
            <3> QED
                BY <1>8, <3>1, SignalEffect
      <2> QED
          BY <2>1, <2>2, <2>3 DEF TypeInv, LoopType
<1>9. CASE LoopBroadcast \/ LoopReturns
      BY <1>9 DEF LoopBroadcast, LoopReturns, TypeInv, LoopType
<1>10. CASE PollWrite
      <2>1. UNCHANGED <<loop, names, work>>
            BY <1>10 DEF PollWrite, loopVars
      <2>2. \A p \in Players : [p EXCEPT !.position = "polled"] \in Players
            BY PlayerFields DEF Statuses
      <2>3. activePlayers' \in [Owners -> Players \cup {Nil}]
            BY <1>10, <2>2, PollEffect DEF TypeInv, LoopType
      <2> QED
          BY <2>1, <2>3 DEF TypeInv, LoopType
<1>11. CASE PollCopy \/ PollRead \/ PollEnd \/ PollerReturns \/ Monitor
      BY <1>1, <1>11 DEF PollCopy, PollRead, PollEnd, PollerReturns, Monitor, loopVars
<1>12. CASE UNCHANGED vars
      BY <1>1, <1>12 DEF vars, loopVars
<1> QED
    BY <1>2, <1>3, <1>4, <1>5, <1>6, <1>7, <1>8, <1>9, <1>10, <1>11, <1>12 DEF Next, Boot, Loop, Poller

(* So have the poller's variables.                                         *)
LEMMA PollStep ==
    ASSUME TypeInv, [Next]_vars
    PROVE  PollType'
<1>1. ASSUME UNCHANGED <<poller, toPoll, polled>>
      PROVE  PollType'
      BY <1>1 DEF TypeInv, PollType
<1>2. CASE Bus
      BY <1>1, <1>2 DEF Bus, ChangeOwner, ChangeStatus, LoseBus, Cancel, pollVars
<1>3. CASE Boot
      BY <1>1, <1>3 DEF Boot, StartFails, Subscribe, ListNames, GetNameOwner, BootBroadcast, Launch,
                        pollVars, TypeInv, PollType
<1>4. CASE Loop
      BY <1>1, <1>4 DEF Loop, Fetch, Register, HandleDbusSignal, LoopBroadcast, LoopReturns, pollVars
<1>5. CASE PollCopy
      <2>1. \A o \in Registered : activePlayers[o] \in Players
            BY DEF Registered, TypeInv, LoopType
      <2>2. \A o \in Registered : o \in Owners /\ activePlayers[o].service \in Services
            BY <2>1 DEF Registered, Players
      <2>3. toPoll' \subseteq Owners \X Services
            BY <1>5, <2>2 DEF PollCopy
      <2> QED
          BY <1>5, <2>3 DEF PollCopy, PollType
<1>6. CASE PollRead
      <2>1. PICK e \in toPoll :
                \/ polled' = e[1] /\ poller' = "write" /\ toPoll' = toPoll \ {e}
                \/ toPoll' = toPoll \ {e} /\ UNCHANGED <<poller, polled>>
            BY <1>6 DEF PollRead
      <2>2. e[1] \in Owners
            BY DEF TypeInv, PollType
      <2> QED
          BY <2>1, <2>2 DEF TypeInv, PollType
<1>7. CASE PollWrite \/ PollEnd \/ PollerReturns
      BY <1>7 DEF PollWrite, PollEnd, PollerReturns, TypeInv, PollType
<1>8. CASE Monitor \/ UNCHANGED vars
      BY <1>1, <1>8 DEF Monitor, vars, pollVars
<1> QED
    BY <1>2, <1>3, <1>4, <1>5, <1>6, <1>7, <1>8 DEF Next, Poller

(* A snapshot enters eventsChan only when there is room; the loop closes   *)
(* it last of all.                                                         *)
LEMMA BroadcastEffect ==
    ASSUME TypeInv, NEW who, BroadcastState(who)
    PROVE  /\ eventsChan' \in 0..EventsCap
           /\ latest' \in [Owners -> Players \cup {Nil}]
           /\ ~lost' => latest' = activePlayers
           /\ panicked' = IF closed THEN who ELSE Nil
<1>1. EventsCap \in Nat /\ eventsChan \in 0..EventsCap
      BY MediaAssumption DEF TypeInv, ChanType
<1>2. latest \in [Owners -> Players \cup {Nil}] /\ activePlayers \in [Owners -> Players \cup {Nil}]
      BY DEF TypeInv, ChanType, LoopType
<1>3. CASE eventsChan = EventsCap
      <2>1. lost' = TRUE
            BY <1>3 DEF BroadcastState
      <2> QED
          BY <1>1, <1>2, <2>1 DEF BroadcastState
<1>4. CASE eventsChan # EventsCap
      <2>1. lost' = FALSE
            BY <1>4 DEF BroadcastState
      <2>2. eventsChan' = eventsChan + 1 /\ latest' = activePlayers
            BY <2>1 DEF BroadcastState
      <2>3. eventsChan + 1 \in 0..EventsCap
            BY <1>1, <1>4
      <2> QED
          BY <1>2, <2>1, <2>2, <2>3 DEF BroadcastState
<1> QED
    BY <1>3, <1>4

(* eventsChan stays in its type, and only the poller panics.               *)
LEMMA ChanStep ==
    ASSUME TypeInv, [Next]_vars
    PROVE  ChanType'
<1> USE DEF OnlyPollerPanics
<1>1. ASSUME UNCHANGED <<chanVars, closed>>, loop' = loop \/ ~closed
      PROVE  ChanType'
      BY <1>1 DEF TypeInv, ChanType, chanVars
<1>2. CASE Bus
      BY <1>1, <1>2 DEF Bus, ChangeOwner, ChangeStatus, LoseBus, Cancel, loopVars
<1>3. CASE StartFails \/ Subscribe \/ ListNames \/ (\E s \in Services : GetNameOwner(s)) \/ Launch
      <2>1. ~closed
            BY <1>3 DEF StartFails, Subscribe, ListNames, GetNameOwner, Launch, TypeInv, ChanType
      <2> QED
          BY <1>1, <1>3, <2>1 DEF StartFails, Subscribe, ListNames, GetNameOwner, Launch
<1>4. CASE Fetch \/ Register \/ HandleDbusSignal
      <2>1. ~closed
            BY <1>4 DEF Fetch, Register, HandleDbusSignal, TypeInv, ChanType
      <2> QED
          BY <1>1, <1>4, <2>1 DEF Fetch, Register, HandleDbusSignal
<1>5. CASE BootBroadcast \/ LoopBroadcast
      <2>1. ~closed /\ closed' = closed
            BY <1>5 DEF BootBroadcast, LoopBroadcast, TypeInv, ChanType
      <2>2. \E who : BroadcastState(who)
            BY <1>5 DEF BootBroadcast, LoopBroadcast
      <2> QED
          BY <2>1, <2>2, BroadcastEffect DEF ChanType
<1>6. CASE LoopReturns
      BY <1>6 DEF LoopReturns, chanVars, TypeInv, ChanType
<1>7. CASE PollEnd
      <2>1. closed' = closed /\ loop' = loop
            BY <1>7 DEF PollEnd, loopVars
      <2>2. CASE updated
            <3>1. BroadcastState("poller")
                  BY <1>7, <2>2 DEF PollEnd
            <3> QED
                BY <2>1, <3>1, BroadcastEffect DEF TypeInv, ChanType
      <2>3. CASE ~updated
            BY <1>1, <1>7, <2>1, <2>3 DEF PollEnd
      <2> QED
          BY <2>2, <2>3
<1>8. CASE PollCopy \/ PollRead \/ PollWrite \/ PollerReturns
      BY <1>1, <1>8 DEF PollCopy, PollRead, PollWrite, PollerReturns, loopVars
<1>9. CASE Monitor
      <2>1. EventsCap \in Nat
            BY MediaAssumption
      <2> QED
          BY <1>9, <2>1 DEF Monitor, loopVars, TypeInv, ChanType
<1>10. CASE UNCHANGED vars
      BY <1>1, <1>10 DEF vars, loopVars
<1> QED
    BY <1>2, <1>3, <1>4, <1>5, <1>6, <1>7, <1>8, <1>9, <1>10 DEF Next, Boot, Loop, Poller

(* The invariants of the first group hold at the start.                    *)
LEMMA TypeInit == Init => TypeInv
<1> SUFFICES ASSUME Init
             PROVE  TypeInv
    OBVIOUS
<1>1. BusType
      BY MediaAssumption DEF Init, BusType
<1>2. LoopType
      BY DEF Init, LoopType, LoopStates, Asking, Storing, NoPlayers
<1>3. PollType
      BY DEF Init, PollType
<1>4. ChanType
      BY MediaAssumption DEF Init, ChanType, NoPlayers, OnlyPollerPanics
<1> QED
    BY <1>1, <1>2, <1>3, <1>4 DEF TypeInv

(* The types of variables, of work in progress and of signals, preserved.  *)
LEMMA TypeStep == TypeInv /\ [Next]_vars => TypeInv'
BY BusStep, LoopStep, PollStep, ChanStep DEF TypeInv

(* EventsChanSafe holds for every set of names and connections and every   *)
(* capacity of eventsChan: it never exceeds the capacity, and only the     *)
(* poller can send on it once the signal loop has closed it.               *)
THEOREM EventsChanSafeAlways == Spec => []EventsChanSafe
<1>1. TypeInv => EventsChanSafe
      BY DEF TypeInv, BusType, LoopType, PollType, ChanType, EventsChanSafe, TypeOK, OnlyPollerPanics
<1> QED
    BY <1>1, TypeInit, TypeStep, PTL DEF Spec

--------------------------------------------------------------------------------
(* The last snapshot                                                       *)

(* Each goroutine that has changed the list broadcasts it before it goes   *)
(* back to its select.                                                     *)
LEMMA SnapshotStep ==
    ASSUME TypeInv, Snapshot, [Next]_vars
    PROVE  Snapshot'
<1>1. ASSUME UNCHANGED <<chanVars, activePlayers, pollVars, loop>>
      PROVE  Snapshot'
      BY <1>1 DEF Snapshot, chanVars, pollVars
<1>2. CASE Bus
      BY <1>1, <1>2 DEF Bus, ChangeOwner, ChangeStatus, LoseBus, Cancel, loopVars
<1>3. CASE StartFails \/ Subscribe \/ ListNames \/ (\E s \in Services : GetNameOwner(s))
      BY <1>3 DEF StartFails, Subscribe, ListNames, GetNameOwner, chanVars, pollVars, Snapshot
<1>4. CASE Launch
      BY <1>4 DEF Launch, chanVars, Snapshot
<1>5. CASE BootBroadcast \/ LoopBroadcast
      <2>1. \E who : BroadcastState(who)
            BY <1>5 DEF BootBroadcast, LoopBroadcast
      <2>2. UNCHANGED <<activePlayers, pollVars>>
            BY <1>5 DEF BootBroadcast, LoopBroadcast
      <2>3. ~lost' => latest' = activePlayers
            BY <2>1, BroadcastEffect
      <2> QED
          BY <1>5, <2>2, <2>3 DEF BootBroadcast, LoopBroadcast, Snapshot, pollVars
<1>6. CASE Fetch \/ LoopReturns
      BY <1>6 DEF Fetch, LoopReturns, chanVars, pollVars, Snapshot
<1>7. CASE Register
      BY <1>7 DEF Register, chanVars, pollVars, Snapshot
<1>8. CASE HandleDbusSignal
      <2>1. loop = "select" /\ UNCHANGED <<chanVars, pollVars>>
            BY <1>8 DEF HandleDbusSignal
      <2>2. /\ activePlayers' = activePlayers \/ loop' = "broadcast"
            /\ loop' \in {"select", "fetch", "broadcast"}
            BY <1>8, SignalEffect
      <2> QED
          BY <2>1, <2>2 DEF Snapshot, chanVars, pollVars
<1>9. CASE PollCopy \/ PollRead \/ PollerReturns
      <2>1. UNCHANGED <<chanVars, activePlayers, loop>> /\ poller # "off" /\ (updated' = updated \/ poller = "select")
            BY <1>9 DEF PollCopy, PollRead, PollerReturns, loopVars
      <2>2. poller' \in {"off", "select", "done"} => poller \in {"off", "select", "done"} /\ updated' = updated
            BY <1>9 DEF PollCopy, PollRead, PollerReturns
      <2> QED
          BY <2>1, <2>2 DEF Snapshot, chanVars
<1>10. CASE PollWrite
      <2>1. UNCHANGED <<chanVars, loop>> /\ poller = "write" /\ poller' = "read"
            BY <1>10 DEF PollWrite, loopVars
      <2>2. updated' = TRUE \/ (activePlayers' = activePlayers /\ updated' = updated)
            BY <1>10, PollEffect
      <2> QED
          BY <2>1, <2>2 DEF Snapshot, chanVars
<1>11. CASE PollEnd
      <2>1. UNCHANGED <<loop, activePlayers>> /\ updated' = FALSE /\ poller = "read"
            BY <1>11 DEF PollEnd, loopVars
      <2>2. CASE updated
            <3>1. BroadcastState("poller")
                  BY <1>11, <2>2 DEF PollEnd
            <3> QED
                BY <2>1, <3>1, BroadcastEffect DEF Snapshot
      <2>3. CASE ~updated
            <3>1. UNCHANGED chanVars
                  BY <1>11, <2>3 DEF PollEnd
            <3> QED
                BY <2>1, <2>3, <3>1 DEF Snapshot, chanVars
      <2> QED
          BY <2>2, <2>3
<1>12. CASE Monitor
      BY <1>12 DEF Monitor, loopVars, pollVars, Snapshot
<1>13. CASE UNCHANGED vars
      BY <1>1, <1>13 DEF vars, loopVars
<1> QED
    BY <1>2, <1>3, <1>4, <1>5, <1>6, <1>7, <1>8, <1>9, <1>10, <1>11, <1>12, <1>13
    DEF Next, Boot, Loop, Poller

(* ClientsGetLatest for every instance: whenever neither goroutine is      *)
(* between a change of the list and its broadcast and the last snapshot    *)
(* was not dropped, that snapshot is the list as it is.                    *)
THEOREM ClientsGetLatestAlways == Spec => []ClientsGetLatest
<1>1. Init => Snapshot
      BY DEF Init, Snapshot
<1>2. TypeInv /\ Snapshot /\ [Next]_vars => Snapshot'
      BY SnapshotStep
<1>3. Snapshot => ClientsGetLatest
      BY DEF Snapshot, ClientsGetLatest
<1> QED
    BY <1>1, <1>2, <1>3, TypeInit, TypeStep, PTL DEF Spec

--------------------------------------------------------------------------------
(* The list and the bus                                                    *)

\* q' is q with sig behind it; q' is q without sig, its first.
Grows(q, r, sig) ==
    /\ \A R : Lacks(r, R) <=> Lacks(q, R) /\ sig \notin R
    /\ \A A, R : Ends(r, A, R) <=> sig \in A \/ (Ends(q, A, R) /\ sig \notin R)
Shrinks(q, r, sig) ==
    /\ \A R : Lacks(q, R) <=> sig \notin R /\ Lacks(r, R)
    /\ \A A, R : Ends(q, A, R) <=> (sig \in A /\ Lacks(r, R)) \/ Ends(r, A, R)

(* A change of owner is announced, unless nobody has subscribed yet.       *)
LEMMA OwnerAnnounced ==
    ASSUME TypeInv, Quiet, NEW s \in Services, NEW new \in Owners \cup {Nil}, ChangeOwner(s, new)
    PROVE  \/ loop \in {"start", "failed"} /\ ~subscribed /\ signals = <<>> /\ signals' = <<>>
           \/ /\ loop \notin {"start", "failed"} /\ subscribed
              /\ \E sig \in OwnerSignals :
                    /\ sig.service = s /\ sig.old = nameOwner[s] /\ sig.new = new
                    /\ Grows(signals, signals', sig)
<1> DEFINE sig == [member |-> "NameOwnerChanged", service |-> s, old |-> nameOwner[s], new |-> new]
<1>1. nameOwner[s] \in Owners \cup {Nil}
      BY DEF TypeInv, BusType
<1>2. sig \in OwnerSignals /\ sig.service = s /\ sig.old = nameOwner[s] /\ sig.new = new
      BY <1>1 DEF OwnerSignals
<1>3. signals' = IF subscribed THEN Append(signals, sig) ELSE signals
      BY DEF ChangeOwner, Announce
<1> HIDE DEF sig
<1>4. signals \in Seq(BusSignals) /\ sig \in BusSignals
      BY <1>2 DEF TypeInv, BusType, BusSignals
<1>5. CASE ~subscribed
      BY <1>3, <1>5 DEF Quiet
<1>6. CASE subscribed
      <2>1. signals' = Append(signals, sig)
            BY <1>3, <1>6
      <2>2. \A R : Lacks(signals', R) <=> Lacks(signals, R) /\ sig \notin R
            BY <1>4, <2>1, LacksAppend
      <2>3. \A A, R : Ends(signals', A, R) <=> sig \in A \/ (Ends(signals, A, R) /\ sig \notin R)
            BY <1>4, <2>1, EndsAppend
      <2> QED
          BY <1>2, <1>6, <2>2, <2>3 DEF Quiet, Grows
<1> QED
    BY <1>5, <1>6

(* So is a change of status.                                               *)
LEMMA StatusAnnounced ==
    ASSUME TypeInv, Quiet, NEW o \in Owners, NEW st \in Statuses, ChangeStatus(o, st)
    PROVE  \/ loop \in {"start", "failed"} /\ ~subscribed /\ signals = <<>> /\ signals' = <<>>
           \/ /\ loop \notin {"start", "failed"} /\ subscribed
              /\ \E sig \in StatusSignals :
                    sig.sender = o /\ sig.status = st /\ Grows(signals, signals', sig)
<1> DEFINE sig == [member |-> "PropertiesChanged", sender |-> o, status |-> st]
<1>1. sig \in StatusSignals /\ sig.sender = o /\ sig.status = st
      BY DEF StatusSignals
<1>2. signals' = IF subscribed THEN Append(signals, sig) ELSE signals
      BY DEF ChangeStatus, Announce
<1> HIDE DEF sig
<1>3. signals \in Seq(BusSignals) /\ sig \in BusSignals
      BY <1>1 DEF TypeInv, BusType, BusSignals
<1>4. CASE ~subscribed
      BY <1>2, <1>4 DEF Quiet
<1>5. CASE subscribed
      <2>1. signals' = Append(signals, sig)
            BY <1>2, <1>5
      <2>2. \A R : Lacks(signals', R) <=> Lacks(signals, R) /\ sig \notin R
            BY <1>3, <2>1, LacksAppend
      <2>3. \A A, R : Ends(signals', A, R) <=> sig \in A \/ (Ends(signals, A, R) /\ sig \notin R)
            BY <1>3, <2>1, EndsAppend
      <2> QED
          BY <1>1, <1>5, <2>2, <2>3 DEF Quiet, Grows
<1> QED
    BY <1>4, <1>5

(* The loop takes the first signal.                                        *)
LEMMA SignalTaken ==
    ASSUME TypeInv, HandleDbusSignal
    PROVE  Shrinks(signals, signals', Head(signals))
<1>1. signals \in Seq(BusSignals) /\ signals # <<>> /\ signals' = Tail(signals)
      BY DEF TypeInv, BusType, HandleDbusSignal
<1>2. \A R : Lacks(signals, R) <=> Head(signals) \notin R /\ Lacks(signals', R)
      BY <1>1, LacksTail
<1>3. \A A, R : Ends(signals, A, R) <=>
                    (Head(signals) \in A /\ Lacks(signals', R)) \/ Ends(signals', A, R)
      BY <1>1, EndsTail
<1> QED
    BY <1>2, <1>3 DEF Shrinks

(* An owner whose name changes hands, and that was neither displaced nor   *)
(* left with another name, has none.                                       *)
LEMMA LastName ==
    ASSUME TypeInv, NEW s \in Services, NEW new \in Owners \cup {Nil}, ChangeOwner(s, new),
           NEW o \in Owners, nameOwner[s] = o, o \notin released'
    PROVE  Holds(o)' = {}
<1>1. IsFiniteSet(Holds(o)) /\ s \in Holds(o)
      BY MediaAssumption, FS_Subset DEF Holds
<1>2. o # Nil
      BY MediaAssumption
<1>3. ~(Cardinality(Holds(o)) > 1)
      BY <1>2 DEF ChangeOwner
<1>4. IsFiniteSet(Holds(o) \ {s}) /\ Cardinality(Holds(o) \ {s}) = Cardinality(Holds(o)) - 1
      BY <1>1, FS_RemoveElement
<1>5. Cardinality(Holds(o)) \in Nat /\ Cardinality(Holds(o) \ {s}) \in Nat
      BY <1>1, <1>4, FS_CardinalityType
<1>6. Cardinality(Holds(o) \ {s}) = 0
      BY <1>3, <1>4, <1>5
<1>7. Holds(o) \ {s} = {}
      BY <1>4, <1>6, FS_EmptySet
<1>8. nameOwner' = [nameOwner EXCEPT ![s] = new] /\ new # o
      BY DEF ChangeOwner
<1>9. \A t \in Services : nameOwner'[t] # o
      BY <1>7, <1>8 DEF Holds, TypeInv, BusType
<1> QED
    BY <1>9 DEF Holds

(* The steps that leave the bus, the registration and the list alone.      *)
Rests ==
    /\ UNCHANGED <<nameOwner, status, subscribed, signals, displaced, released, names, work, unread,
                   activePlayers>>
    /\ busUp' => busUp
    /\ \/ loop' = loop
       \/ loop = "start" /\ loop' = "failed"
       \/ loop = "bootNext" /\ names = {} /\ loop' = "started"
       \/ loop = "started" /\ loop' = "select"
       \/ loop = "broadcast" /\ loop' = "select"
       \/ loop = "select" /\ loop' = "done"

(* Every other step is one of eight.                                       *)
LEMMA ListSteps ==
    ASSUME TypeInv, [Next]_vars
    PROVE  \/ Rests \/ PollWrite \/ Subscribe \/ ListNames \/ Fetch \/ Register \/ HandleDbusSignal
           \/ \E s \in Services : GetNameOwner(s)
           \/ \E s \in Services, new \in Owners \cup {Nil} : ChangeOwner(s, new)
           \/ \E o \in Owners, st \in Statuses : ChangeStatus(o, st)
<1>1. CASE LoseBus \/ Cancel
      BY <1>1 DEF LoseBus, Cancel, Rests, busVars, loopVars
<1>2. CASE StartFails \/ BootBroadcast \/ Launch
      BY <1>2 DEF StartFails, BootBroadcast, Launch, Rests, busVars
<1>3. CASE LoopBroadcast \/ LoopReturns
      BY <1>3 DEF LoopBroadcast, LoopReturns, Rests, busVars
<1>4. CASE PollCopy \/ PollRead \/ PollEnd \/ PollerReturns \/ Monitor \/ UNCHANGED vars
      BY <1>4 DEF PollCopy, PollRead, PollEnd, PollerReturns, Monitor, vars, Rests, busVars, loopVars
<1> QED
    BY <1>1, <1>2, <1>3, <1>4 DEF Next, Bus, Boot, Loop, Poller

(* Before the subscription the queue and the list stay empty.              *)
LEMMA QuietStep ==
    ASSUME TypeInv, Quiet, [Next]_vars
    PROVE  Quiet'
<1>1. CASE Rests
      BY <1>1 DEF Rests, Quiet, NoPlayers
<1>2. CASE PollWrite
      <2>1. UNCHANGED <<subscribed, signals, loop>>
            BY <1>2 DEF PollWrite, busVars, loopVars
      <2>2. activePlayers = NoPlayers => activePlayers' = activePlayers
            <3>1. polled \in Owners => NoPlayers[polled] = Nil
                  BY DEF NoPlayers
            <3>2. Nil \notin Players
                  BY MediaAssumption
            <3> QED
                BY <1>2, <3>1, <3>2, PollEffect
      <2> QED
          BY <2>1, <2>2 DEF Quiet, NoPlayers
<1>3. CASE Subscribe
      BY <1>3 DEF Subscribe, Quiet
<1>4. CASE ListNames \/ Fetch \/ Register \/ HandleDbusSignal \/ \E s \in Services : GetNameOwner(s)
      <2>1. loop \notin {"start", "failed"} /\ loop' \notin {"start", "failed"} /\ subscribed' = subscribed
            <3>1. CASE HandleDbusSignal
                  BY <3>1, SignalEffect DEF HandleDbusSignal
            <3> QED
                BY <1>4, <3>1 DEF ListNames, Fetch, Register, GetNameOwner, busVars
      <2> QED
          BY <2>1 DEF Quiet
<1>5. ASSUME NEW s \in Services, NEW new \in Owners \cup {Nil}, ChangeOwner(s, new)
      PROVE  Quiet'
      <2>1. UNCHANGED <<subscribed, loop, activePlayers>>
            BY <1>5 DEF ChangeOwner, loopVars
      <2>2. ~subscribed => signals' = <<>>
            BY <1>5, OwnerAnnounced
      <2> QED
          BY <2>1, <2>2 DEF Quiet, NoPlayers
<1>6. ASSUME NEW o \in Owners, NEW st \in Statuses, ChangeStatus(o, st)
      PROVE  Quiet'
      <2>1. UNCHANGED <<subscribed, loop, activePlayers>>
            BY <1>6 DEF ChangeStatus, loopVars
      <2>2. ~subscribed => signals' = <<>>
            BY <1>6, StatusAnnounced
      <2> QED
          BY <2>1, <2>2 DEF Quiet, NoPlayers
<1> QED
    BY <1>1, <1>2, <1>3, <1>4, <1>5, <1>6, ListSteps

(* The last status announced stays the status.                             *)
LEMMA StatusToldStep ==
    ASSUME TypeInv, Quiet, StatusTold, [Next]_vars
    PROVE  StatusTold'
<1> SUFFICES ASSUME NEW o \in Owners, NEW st \in Statuses,
                    Ends(signals', Changes(o, {st}), Changes(o, Statuses))
             PROVE  status'[o] = st
    BY DEF StatusTold
<1> DEFINE Last(q) == Ends(q, Changes(o, {st}), Changes(o, Statuses))
<1>1. Last(signals) => status[o] = st
      BY DEF StatusTold
<1>2. Last(signals')
      OBVIOUS
<1>3. ~Last(<<>>)
      BY EmptyQueue
<1> HIDE DEF Last
<1>4. ASSUME NEW s \in Services, NEW new \in Owners \cup {Nil}, ChangeOwner(s, new)
      PROVE  status'[o] = st
      <2>1. status' = status
            BY <1>4 DEF ChangeOwner
      <2>2. ASSUME NEW sig \in OwnerSignals, Grows(signals, signals', sig)
            PROVE  Last(signals)
            BY <1>2, <2>2, OwnerSignal DEF Grows, Last
      <2> QED
          BY <1>1, <1>2, <1>3, <1>4, <2>1, <2>2, OwnerAnnounced
<1>5. ASSUME NEW p \in Owners, NEW new \in Statuses, ChangeStatus(p, new)
      PROVE  status'[o] = st
      <2>1. status' = [status EXCEPT ![p] = new] /\ status \in [Owners -> Statuses]
            BY <1>5 DEF ChangeStatus, TypeInv, BusType
      <2>2. PICK sig \in StatusSignals : sig.sender = p /\ sig.status = new /\ Grows(signals, signals', sig)
            BY <1>2, <1>3, <1>5, StatusAnnounced
      <2>3. \/ sig \in Changes(o, {st})
            \/ Last(signals) /\ sig \notin Changes(o, Statuses)
            BY <1>2, <2>2 DEF Grows, Last
      <2>4. (p = o /\ new = st) \/ (Last(signals) /\ p # o)
            BY <2>2, <2>3, StatusSignal
      <2> QED
          BY <1>1, <2>1, <2>4
<1>6. CASE HandleDbusSignal
      <2>1. Last(signals)
            BY <1>2, <1>6, SignalTaken DEF Shrinks, Last
      <2> QED
          BY <1>1, <1>6, <2>1 DEF HandleDbusSignal
<1>7. ASSUME UNCHANGED <<status, signals>>
      PROVE  status'[o] = st
      BY <1>1, <1>2, <1>7
<1>8. CASE Rests \/ PollWrite \/ Subscribe \/ ListNames \/ Fetch \/ Register \/ \E s \in Services : GetNameOwner(s)
      BY <1>7, <1>8 DEF Rests, PollWrite, Subscribe, ListNames, Fetch, Register, GetNameOwner, busVars
<1> QED
    BY <1>4, <1>5, <1>6, <1>8, ListSteps

(* A name that was taken and not given up stays held.                      *)
LEMMA StillHeldStep ==
    ASSUME TypeInv, Quiet, StillHeld, [Next]_vars
    PROVE  StillHeld'
<1> SUFFICES ASSUME NEW o \in Owners, o \notin displaced'
             PROVE  /\ \A s \in Services :
                           Ends(signals', Additions(o, s), Removals(o)) => nameOwner'[s] = o
                    /\ loop' \in Asking /\ work'.owner = o /\ Lacks(signals', Removals(o)) =>
                           nameOwner'[work'.service] = o
    BY DEF StillHeld
<1> DEFINE Taken(q, s) == Ends(q, Additions(o, s), Removals(o))
           Kept(q) == Lacks(q, Removals(o))
           Goal == /\ \A s \in Services : Taken(signals', s) => nameOwner'[s] = o
                   /\ loop' \in Asking /\ work'.owner = o /\ Kept(signals') =>
                          nameOwner'[work'.service] = o
<1>1. o \notin displaced =>
          /\ \A s \in Services : Taken(signals, s) => nameOwner[s] = o
          /\ loop \in Asking /\ work.owner = o /\ Kept(signals) => nameOwner[work.service] = o
      BY DEF StillHeld
<1>2. \A s \in Services : ~Taken(<<>>, s)
      BY EmptyQueue
<1> SUFFICES Goal
    OBVIOUS
<1> HIDE DEF Taken, Kept
<1>3. ASSUME NEW t \in Services, NEW new \in Owners \cup {Nil}, ChangeOwner(t, new)
      PROVE  Goal
      <2>1. /\ nameOwner' = [nameOwner EXCEPT ![t] = new] /\ nameOwner[t] # new
            /\ o \notin displaced
            /\ nameOwner[t] = o => new = Nil
            /\ UNCHANGED <<loop, work>>
            BY <1>3, MediaAssumption DEF ChangeOwner, loopVars
      <2>2. nameOwner \in [Services -> Owners \cup {Nil}] /\ o # Nil
            BY MediaAssumption DEF TypeInv, BusType
      <2>3. CASE loop \in {"start", "failed"} /\ signals' = <<>>
            BY <1>2, <2>1, <2>3 DEF Asking
      <2>4. ASSUME NEW sig \in OwnerSignals, sig.service = t, sig.old = nameOwner[t], sig.new = new,
                   Grows(signals, signals', sig)
            PROVE  Goal
            <3>1. Kept(signals') <=> Kept(signals) /\ nameOwner[t] # o
                  <4>1. Kept(signals') <=> Kept(signals) /\ sig \notin Removals(o)
                        BY <2>4 DEF Grows, Kept
                  <4> QED
                      BY <2>1, <2>4, <4>1, OwnerSignal
            <3>2. \A s \in Services :
                      Taken(signals', s) <=> (s = t /\ new = o) \/ (Taken(signals, s) /\ nameOwner[t] # o)
                  <4>1. \A s \in Services :
                            Taken(signals', s) <=> sig \in Additions(o, s) \/ (Taken(signals, s) /\ sig \notin Removals(o))
                        BY <2>4 DEF Grows, Taken
                  <4> QED
                      BY <2>1, <2>4, <4>1, OwnerSignal
            <3>3. ASSUME NEW s \in Services, Taken(signals', s)
                  PROVE  nameOwner'[s] = o
                  BY <1>1, <2>1, <2>2, <3>2, <3>3
            <3>4. ASSUME loop' \in Asking, work'.owner = o, Kept(signals')
                  PROVE  nameOwner'[work'.service] = o
                  <4>1. work.service \in Services
                        BY <2>1, <3>4 DEF TypeInv, LoopType
                  <4> QED
                      BY <1>1, <2>1, <2>2, <3>1, <3>4, <4>1
            <3> QED
                BY <3>3, <3>4
      <2> HIDE DEF Goal
      <2> QED
          BY <1>3, <2>3, <2>4, OwnerAnnounced
<1>4. ASSUME NEW p \in Owners, NEW st \in Statuses, ChangeStatus(p, st)
      PROVE  Goal
      <2>1. UNCHANGED <<nameOwner, displaced, loop, work>>
            BY <1>4 DEF ChangeStatus, loopVars
      <2>2. CASE loop \in {"start", "failed"} /\ signals' = <<>>
            BY <1>2, <2>1, <2>2 DEF Asking
      <2>3. ASSUME NEW sig \in StatusSignals, Grows(signals, signals', sig)
            PROVE  Goal
            <3>1. Kept(signals') => Kept(signals)
                  BY <2>3 DEF Grows, Kept
            <3>2. \A s \in Services : Taken(signals', s) => Taken(signals, s)
                  BY <2>3, StatusSignal DEF Grows, Taken
            <3> QED
                BY <1>1, <2>1, <3>1, <3>2
      <2> HIDE DEF Goal
      <2> QED
          BY <1>4, <2>2, <2>3, StatusAnnounced
<1>5. CASE HandleDbusSignal
      <2>1. UNCHANGED <<nameOwner, displaced>>
            BY <1>5 DEF HandleDbusSignal
      <2>2. \A s \in Services :
                Taken(signals, s) <=> (Head(signals) \in Additions(o, s) /\ Kept(signals')) \/ Taken(signals', s)
            BY <1>5, SignalTaken DEF Shrinks, Taken, Kept
      <2>3. \A s \in Services : Taken(signals', s) => nameOwner'[s] = o
            BY <1>1, <2>1, <2>2
      <2>4. ASSUME loop' \in Asking, work'.owner = o, Kept(signals')
            PROVE  nameOwner'[work'.service] = o
            <3>1. /\ Head(signals) \in OwnerSignals
                  /\ work' = [owner |-> Head(signals).new, service |-> Head(signals).service]
                  BY <1>5, <2>4, SignalEffect DEF Asking
            <3>2. Head(signals).new = o /\ work'.service = Head(signals).service
                  BY <2>4, <3>1
            <3>3. Head(signals).service \in Services /\ Head(signals) \in Additions(o, Head(signals).service)
                  BY <3>1, <3>2, OwnerSignal
            <3> QED
                BY <1>1, <2>1, <2>2, <2>4, <3>2, <3>3
      <2> QED
          BY <2>3, <2>4
<1>6. ASSUME NEW s \in Services, GetNameOwner(s)
      PROVE  Goal
      <2>1. UNCHANGED <<nameOwner, displaced, signals>> /\ loop = "bootNext"
            BY <1>6 DEF GetNameOwner, busVars
      <2>2. \/ loop' = loop
            \/ loop' = "bootFetch" /\ work' = [owner |-> nameOwner[s], service |-> s]
            BY <1>6 DEF GetNameOwner
      <2> QED
          BY <1>1, <2>1, <2>2 DEF Asking
<1>7. ASSUME UNCHANGED <<nameOwner, displaced, signals>>,
             loop' \notin Asking \/ UNCHANGED <<loop, work>>
      PROVE  Goal
      BY <1>1, <1>7
<1> HIDE DEF Goal
<1>8. CASE Rests \/ PollWrite \/ Subscribe
      BY <1>7, <1>8 DEF Rests, PollWrite, Subscribe, busVars, loopVars, Asking
<1>9. CASE ListNames \/ Fetch \/ Register
      BY <1>7, <1>9 DEF ListNames, Fetch, Register, busVars, Asking
<1> QED
    BY <1>3, <1>4, <1>5, <1>6, <1>8, <1>9, ListSteps

(* A successful read is of the owner itself: it had the name when it was   *)
(* asked, or its removal is in the queue.                                  *)
LEMMA FetchReads ==
    ASSUME TypeInv, StillHeld, Fetch, NEW o \in Owners \ displaced, work.owner = o,
           Lacks(signals, Removals(o)), o \notin unread'
    PROVE  work'.player.status = status[o]
<1>1. nameOwner[work.service] = o
      BY DEF Fetch, StillHeld, Asking
<1>2. work' = [owner |-> work.owner,
               player |-> [service |-> work.service, status |-> status[nameOwner[work.service]],
                           position |-> "fetched"]]
      BY DEF Fetch
<1> QED
    BY <1>1, <1>2

(* What the queue tells of an owner after a step of the bus.               *)
LEMMA KnownStays ==
    ASSUME TypeInv, Quiet, subscribed, NEW o \in Owners, NEW st, Known(o, st),
           \/ \E s \in Services, new \in Owners \cup {Nil} : ChangeOwner(s, new)
           \/ \E p \in Owners, new \in Statuses : ChangeStatus(p, new)
    PROVE  st = status'[o] \/ ~Lacks(signals', Changes(o, Statuses))
<1> DEFINE Silent(q) == Lacks(q, Changes(o, Statuses))
<1>1. st = status[o] \/ ~Silent(signals)
      BY DEF Known
<1>2. ASSUME NEW s \in Services, NEW new \in Owners \cup {Nil}, ChangeOwner(s, new)
      PROVE  st = status'[o] \/ ~Silent(signals')
      <2>1. \E sig \in OwnerSignals : Grows(signals, signals', sig)
            BY <1>2, OwnerAnnounced
      <2>2. Silent(signals') => Silent(signals)
            BY <2>1 DEF Grows
      <2> HIDE DEF Silent
      <2> QED
          BY <1>1, <1>2, <2>2 DEF ChangeOwner
<1>3. ASSUME NEW p \in Owners, NEW new \in Statuses, ChangeStatus(p, new)
      PROVE  st = status'[o] \/ ~Silent(signals')
      <2>1. PICK sig \in StatusSignals : sig.sender = p /\ Grows(signals, signals', sig)
            BY <1>3, StatusAnnounced
      <2>2. Silent(signals') => Silent(signals) /\ sig \notin Changes(o, Statuses)
            BY <2>1 DEF Grows
      <2>3. Silent(signals') => Silent(signals) /\ p # o
            BY <2>1, <2>2, StatusSignal
      <2>4. status' = [status EXCEPT ![p] = new] /\ status \in [Owners -> Statuses]
            BY <1>3 DEF ChangeStatus, TypeInv, BusType
      <2>5. p # o => status'[o] = status[o]
            BY <2>4
      <2> HIDE DEF Silent
      <2> QED
          BY <1>1, <2>3, <2>5
<1> HIDE DEF Silent
<1>4. st = status'[o] \/ ~Silent(signals')
      BY <1>2, <1>3
<1> QED
    BY <1>4 DEF Silent

(* A step of the bus keeps the removals in the queue, and no owner that    *)
(* was displaced is forgotten.                                             *)
LEMMA BusKeeps ==
    ASSUME TypeInv, Quiet,
           \/ \E s \in Services, new \in Owners \cup {Nil} : ChangeOwner(s, new)
           \/ \E p \in Owners, new \in Statuses : ChangeStatus(p, new)
    PROVE  /\ UNCHANGED <<subscribed, busUp, loop, work, names, unread, activePlayers>>
           /\ displaced \subseteq displaced' /\ released \subseteq released'
           /\ \A R : Lacks(signals', R) => Lacks(signals, R)
<1>1. ASSUME NEW s \in Services, NEW new \in Owners \cup {Nil}, ChangeOwner(s, new)
      PROVE  /\ UNCHANGED <<subscribed, busUp, loop, work, names, unread, activePlayers>>
             /\ displaced \subseteq displaced' /\ released \subseteq released'
      BY <1>1 DEF ChangeOwner, loopVars
<1>2. ASSUME NEW s \in Services, NEW new \in Owners \cup {Nil}, ChangeOwner(s, new), NEW R, Lacks(signals', R)
      PROVE  Lacks(signals, R)
      <2>1. signals' = signals \/ \E sig \in OwnerSignals : Grows(signals, signals', sig)
            BY <1>2, OwnerAnnounced
      <2> QED
          BY <1>2, <2>1 DEF Grows
<1>3. ASSUME NEW p \in Owners, NEW new \in Statuses, ChangeStatus(p, new)
      PROVE  /\ UNCHANGED <<subscribed, busUp, loop, work, names, unread, activePlayers>>
             /\ displaced \subseteq displaced' /\ released \subseteq released'
      BY <1>3 DEF ChangeStatus, loopVars
<1>4. ASSUME NEW p \in Owners, NEW new \in Statuses, ChangeStatus(p, new), NEW R, Lacks(signals', R)
      PROVE  Lacks(signals, R)
      <2>1. signals' = signals \/ \E sig \in StatusSignals : Grows(signals, signals', sig)
            BY <1>4, StatusAnnounced
      <2> QED
          BY <1>4, <2>1 DEF Grows
<1> QED
    BY <1>1, <1>2, <1>3, <1>4

(* What was read stays known until it is stored.                           *)
LEMMA WorkKnownStep ==
    ASSUME TypeInv, Quiet, StillHeld, WorkKnown, [Next]_vars
    PROVE  WorkKnown'
<1> SUFFICES ASSUME NEW o \in Owners, o \notin displaced', loop' \in Storing, work'.owner = o,
                    Lacks(signals', Removals(o)), o \notin unread'
             PROVE  work'.player.status = status'[o] \/ ~Lacks(signals', Changes(o, Statuses))
    BY DEF WorkKnown, Known
<1> DEFINE Goal == work'.player.status = status'[o] \/ ~Lacks(signals', Changes(o, Statuses))
<1> SUFFICES Goal
    OBVIOUS
<1>1. CASE \/ \E s \in Services, new \in Owners \cup {Nil} : ChangeOwner(s, new)
           \/ \E p \in Owners, new \in Statuses : ChangeStatus(p, new)
      <2>1. UNCHANGED <<loop, work, unread>> /\ o \notin displaced /\ Lacks(signals, Removals(o))
            BY <1>1, BusKeeps
      <2>2. Known(o, work.player.status)
            BY <2>1 DEF WorkKnown
      <2>3. subscribed
            BY <2>1 DEF Quiet, Storing
      <2> QED
          BY <1>1, <2>1, <2>2, <2>3, KnownStays
<1>2. CASE Fetch
      <2>1. UNCHANGED <<signals, displaced, status>> /\ work.owner = o
            BY <1>2 DEF Fetch, busVars
      <2> QED
          BY <1>2, <2>1, FetchReads
<1>3. CASE HandleDbusSignal
      BY <1>3, SignalEffect DEF Storing
<1>4. ASSUME UNCHANGED <<status, signals, displaced, work, unread, loop>>
      PROVE  Goal
      BY <1>4 DEF WorkKnown, Known
<1>5. ASSUME loop' \notin Storing
      PROVE  Goal
      BY <1>5
<1> HIDE DEF Goal
<1>6. CASE Rests
      BY <1>4, <1>5, <1>6 DEF Rests, Storing
<1>7. CASE PollWrite
      BY <1>4, <1>7 DEF PollWrite, busVars, loopVars
<1>8. CASE Subscribe \/ ListNames \/ Register \/ \E s \in Services : GetNameOwner(s)
      BY <1>5, <1>8 DEF Subscribe, ListNames, Register, GetNameOwner, Storing
<1> QED
    BY <1>1, <1>2, <1>3, <1>6, <1>7, <1>8, ListSteps

(* The players that are listed, after a step that stores one field.        *)
LEMMA SameRegistered ==
    ASSUME TypeInv, PollWrite, NEW o \in Owners
    PROVE  /\ activePlayers'[o] # Nil <=> activePlayers[o] # Nil
           /\ activePlayers[o] # Nil => activePlayers'[o].status = activePlayers[o].status
<1>1. activePlayers \in [Owners -> Players \cup {Nil}]
      BY DEF TypeInv, LoopType
<1>2. CASE activePlayers' = activePlayers
      BY <1>2
<1>3. CASE /\ polled \in Owners /\ activePlayers[polled] \in Players
           /\ activePlayers' = [activePlayers EXCEPT
                  ![polled] = [activePlayers[polled] EXCEPT !.position = "polled"]]
      <2>1. "Stopped" \in Statuses
            BY DEF Statuses
      <2> DEFINE new == [activePlayers[polled] EXCEPT !.position = "polled"]
      <2>2. new # Nil /\ new.status = activePlayers[polled].status /\ activePlayers[polled] # Nil
            BY <1>3, <2>1, PlayerFields
      <2> HIDE DEF new
      <2>3. activePlayers' = [activePlayers EXCEPT ![polled] = new]
            BY <1>3 DEF new
      <2>4. activePlayers'[o] = IF o = polled THEN new ELSE activePlayers[o]
            BY <1>1, <2>3
      <2> QED
          BY <2>2, <2>4
<1> QED
    BY <1>2, <1>3, PollEffect

(* An owner that lost its last name is not listed again, or is removed.    *)
LEMMA NamelessGoStep ==
    ASSUME TypeInv, Quiet, NamelessGo, [Next]_vars
    PROVE  NamelessGo'
<1> SUFFICES ASSUME NEW o \in Owners, o \notin displaced', Holds(o)' = {}
             PROVE  Unlisted(o)' \/ Ends(signals', Removals(o), SomeAddition(o))
    BY DEF NamelessGo
<1> DEFINE NotComing(q) == Lacks(q, SomeAddition(o))
           Going(q) == Ends(q, Removals(o), SomeAddition(o))
           Out == /\ activePlayers[o] = Nil
                  /\ loop \in Asking \cup Storing => work.owner # o
                  /\ NotComing(signals)
           OutNext == /\ activePlayers'[o] = Nil
                      /\ loop' \in Asking \cup Storing => work'.owner # o
                      /\ NotComing(signals')
<1>1. Out <=> Unlisted(o)
      BY DEF Unlisted, Registered
<1>2. OutNext <=> Unlisted(o)'
      BY DEF Unlisted, Registered
<1>3. o \notin displaced /\ Holds(o) = {} => Out \/ Going(signals)
      BY <1>1 DEF NamelessGo
<1> SUFFICES OutNext \/ Going(signals')
    BY <1>2
<1>4. \A s \in Services : nameOwner'[s] # o
      BY DEF Holds
<1>5. o # Nil
      BY MediaAssumption
<1>6. activePlayers \in [Owners -> Players \cup {Nil}]
      BY DEF TypeInv, LoopType
<1>7. NotComing(<<>>)
      BY EmptyQueue
<1> HIDE DEF NotComing, Going
<1>8. ASSUME NEW s \in Services, NEW new \in Owners \cup {Nil}, ChangeOwner(s, new)
      PROVE  OutNext \/ Going(signals')
      <2>1. UNCHANGED <<loop, work, activePlayers>> /\ o \notin displaced
            BY <1>8 DEF ChangeOwner, loopVars
      <2>2. nameOwner' = [nameOwner EXCEPT ![s] = new] /\ (nameOwner[s] = o => new = Nil)
            BY <1>5, <1>8 DEF ChangeOwner
      <2>3. new # o
            BY <1>4, <2>2 DEF TypeInv, BusType
      <2>4. CASE loop \in {"start", "failed"} /\ signals' = <<>>
            BY <1>7, <2>1, <2>4 DEF Quiet, NoPlayers, Asking, Storing
      <2>5. ASSUME NEW sig \in OwnerSignals, sig.old = nameOwner[s], sig.new = new,
                   Grows(signals, signals', sig)
            PROVE  OutNext \/ Going(signals')
            <3>1. NotComing(signals') <=> NotComing(signals)
                  BY <2>3, <2>5, OwnerSignal DEF Grows, NotComing
            <3>2. Going(signals') <=> sig \in Removals(o) \/ Going(signals)
                  BY <2>3, <2>5, OwnerSignal DEF Grows, Going
            <3>3. CASE nameOwner[s] = o
                  BY <2>2, <2>5, <3>2, <3>3, OwnerSignal
            <3>4. CASE nameOwner[s] # o
                  <4>1. Holds(o) = {}
                        BY <1>4, <2>2, <3>4 DEF Holds, TypeInv, BusType
                  <4> QED
                      BY <1>3, <2>1, <3>1, <3>2, <4>1
            <3> QED
                BY <3>3, <3>4
      <2> HIDE DEF OutNext
      <2> QED
          BY <1>8, <2>4, <2>5, OwnerAnnounced
<1>9. ASSUME NEW p \in Owners, NEW st \in Statuses, ChangeStatus(p, st)
      PROVE  OutNext \/ Going(signals')
      <2>1. UNCHANGED <<nameOwner, displaced, loop, work, activePlayers>>
            BY <1>9 DEF ChangeStatus, loopVars
      <2>2. Out \/ Going(signals)
            BY <1>3, <1>4, <2>1 DEF Holds
      <2>3. signals' = signals \/ \E sig \in StatusSignals : Grows(signals, signals', sig)
            BY <1>9, StatusAnnounced
      <2>4. (NotComing(signals) => NotComing(signals')) /\ (Going(signals) => Going(signals'))
            BY <2>3, StatusSignal DEF Grows, NotComing, Going
      <2> QED
          BY <2>1, <2>2, <2>4
<1>10. ASSUME UNCHANGED <<nameOwner, displaced, signals>>
      PROVE  Out \/ Going(signals')
      BY <1>3, <1>4, <1>10 DEF Holds
<1>11. CASE Rests
      <2>1. UNCHANGED <<nameOwner, displaced, signals, activePlayers, work>>
            BY <1>11 DEF Rests
      <2>2. loop' \in Asking \cup Storing => loop' = loop
            BY <1>11 DEF Rests, Asking, Storing
      <2> QED
          BY <1>10, <2>1, <2>2
<1>12. CASE PollWrite
      <2>1. UNCHANGED <<nameOwner, displaced, signals, loop, work>>
            BY <1>12 DEF PollWrite, busVars, loopVars
      <2>2. activePlayers[o] = Nil => activePlayers'[o] = Nil
            BY <1>12, SameRegistered
      <2> QED
          BY <1>10, <2>1, <2>2
<1>13. CASE Subscribe \/ ListNames
      <2>1. UNCHANGED <<nameOwner, displaced, signals, activePlayers>> /\ loop' \notin Asking \cup Storing
            BY <1>13 DEF Subscribe, ListNames, busVars, Asking, Storing
      <2> QED
          BY <1>10, <2>1
<1>14. CASE Fetch
      <2>1. UNCHANGED <<nameOwner, displaced, signals, activePlayers>> /\ work'.owner = work.owner
            BY <1>14 DEF Fetch, busVars
      <2>2. loop \in Asking
            BY <1>14 DEF Fetch, Asking
      <2> QED
          BY <1>10, <2>1, <2>2
<1>15. CASE Register
      <2>1. UNCHANGED <<nameOwner, displaced, signals>> /\ loop \in Storing /\ loop' \notin Asking \cup Storing
            BY <1>15 DEF Register, busVars, Asking, Storing
      <2>2. activePlayers' = [activePlayers EXCEPT ![work.owner] = work.player]
            BY <1>15 DEF Register
      <2> QED
          BY <1>6, <1>10, <2>1, <2>2
<1>16. ASSUME NEW s \in Services, GetNameOwner(s)
      PROVE  OutNext \/ Going(signals')
      <2>1. UNCHANGED <<nameOwner, displaced, signals, activePlayers>> /\ loop = "bootNext"
            BY <1>16 DEF GetNameOwner, busVars
      <2>2. \/ loop' = loop
            \/ work' = [owner |-> nameOwner[s], service |-> s]
            BY <1>16 DEF GetNameOwner
      <2> QED
          BY <1>4, <1>10, <2>1, <2>2 DEF Asking, Storing
<1>17. CASE HandleDbusSignal
      <2>1. UNCHANGED <<nameOwner, displaced>>
            BY <1>17 DEF HandleDbusSignal
      <2>2. Out \/ Going(signals)
            BY <1>3, <1>4, <2>1 DEF Holds
      <2>3. /\ NotComing(signals) <=> Head(signals) \notin SomeAddition(o) /\ NotComing(signals')
            /\ Going(signals) <=> (Head(signals) \in Removals(o) /\ NotComing(signals')) \/ Going(signals')
            BY <1>17, SignalTaken DEF Shrinks, NotComing, Going
      <2>4. CASE Going(signals')
            BY <2>4
      <2>5. CASE Head(signals) \in Removals(o) /\ NotComing(signals')
            <3>1. Head(signals).member = "NameOwnerChanged" /\ Head(signals).old = o /\ Head(signals).new = Nil
                  BY <2>5 DEF Removals
            <3>2. activePlayers' = [activePlayers EXCEPT ![o] = Nil] /\ loop' = "broadcast"
                  BY <1>17, <3>1, SignalEffect, MediaAssumption DEF StatusSignals
            <3> QED
                BY <1>6, <2>5, <3>2 DEF Asking, Storing
      <2>6. CASE Out
            <3>1. Head(signals) \notin SomeAddition(o) /\ NotComing(signals')
                  BY <2>3, <2>6
            <3>2. CASE Head(signals) \in OwnerSignals
                  <4>1. Head(signals).new # o
                        BY <3>1, <3>2, OwnerSignal
                  <4>2. \/ /\ Head(signals).old \in Owners /\ loop' = "broadcast"
                           /\ activePlayers' = [activePlayers EXCEPT ![Head(signals).old] = Nil]
                        \/ /\ activePlayers' = activePlayers
                           /\ work' = [owner |-> Head(signals).new, service |-> Head(signals).service]
                        BY <1>17, <3>2, SignalEffect DEF OwnerSignals, StatusSignals
                  <4> QED
                      BY <1>6, <2>6, <3>1, <4>1, <4>2 DEF Asking, Storing
            <3>3. CASE Head(signals) \in StatusSignals
                  <4>1. Head(signals).sender \in Owners /\ loop' \in {"select", "broadcast"}
                        BY <1>17, <3>3, SignalEffect DEF StatusSignals, OwnerSignals
                  <4>2. activePlayers'[o] = Nil
                        <5>1. \/ activePlayers' = activePlayers
                              \/ /\ activePlayers[Head(signals).sender] \in Players
                                 /\ \E new : activePlayers' = [activePlayers EXCEPT ![Head(signals).sender] = new]
                              BY <1>17, <3>3, SignalEffect DEF StatusSignals, OwnerSignals
                        <5>2. Nil \notin Players
                              BY MediaAssumption
                        <5> QED
                            BY <1>6, <2>6, <4>1, <5>1, <5>2
                  <4> QED
                      BY <3>1, <4>1, <4>2 DEF Asking, Storing
            <3> QED
                BY <1>17, <3>2, <3>3, SignalEffect
      <2> HIDE DEF Out, OutNext
      <2> QED
          BY <2>2, <2>3, <2>4, <2>5, <2>6
<1> HIDE DEF OutNext
<1> QED
    BY <1>8, <1>9, <1>11, <1>12, <1>13, <1>14, <1>15, <1>16, <1>17, ListSteps

(* An owner with a name is listed, or comes to be listed.                  *)
LEMMA HoldersListedStep ==
    ASSUME TypeInv, Quiet, StatusTold, StillHeld, WorkKnown, HoldersListed, [Next]_vars
    PROVE  HoldersListed'
<1> SUFFICES ASSUME subscribed', busUp', NEW o \in Owners, o \notin released', o \notin displaced',
                    Holds(o)' # {}
             PROVE  \/ Ends(signals', SomeAddition(o), Removals(o))
                    \/ /\ Lacks(signals', Removals(o))
                       /\ \/ ToList(o)'
                          \/ loop' \in Asking \cup Storing /\ work'.owner = o
                          \/ Listed(o)'
    BY DEF HoldersListed
<1> DEFINE Coming(q) == Ends(q, SomeAddition(o), Removals(o))
           Kept(q) == Lacks(q, Removals(o))
           Silent(q) == Lacks(q, Changes(o, Statuses))
           Worked == loop \in Asking \cup Storing /\ work.owner = o
           WorkedNext == loop' \in Asking \cup Storing /\ work'.owner = o
           Shown == /\ activePlayers[o] # Nil
                    /\ o \notin unread => activePlayers[o].status = status[o] \/ ~Silent(signals)
           ShownNext == /\ activePlayers'[o] # Nil
                        /\ o \notin unread' => activePlayers'[o].status = status'[o] \/ ~Silent(signals')
           Goal == Coming(signals') \/ (Kept(signals') /\ (ToList(o)' \/ WorkedNext \/ ShownNext))
<1>1. Shown <=> Listed(o)
      BY DEF Listed, Registered, Known
<1>2. ShownNext <=> Listed(o)'
      BY DEF Listed, Registered, Known
<1>3. ASSUME subscribed, busUp, o \notin released, o \notin displaced, Holds(o) # {}
      PROVE  Coming(signals) \/ (Kept(signals) /\ (ToList(o) \/ Worked \/ Shown))
      BY <1>1, <1>3 DEF HoldersListed
<1> SUFFICES Goal
    BY <1>2
<1>4. activePlayers \in [Owners -> Players \cup {Nil}] /\ o # Nil
      BY MediaAssumption DEF TypeInv, LoopType
<1>5. loop \in Storing /\ work.owner = o /\ Kept(signals) /\ o \notin unread /\ o \notin displaced =>
          work.player.status = status[o] \/ ~Silent(signals)
      BY DEF WorkKnown, Known
<1> HIDE DEF Coming, Kept, Silent
<1>6. ASSUME NEW s \in Services, NEW new \in Owners \cup {Nil}, ChangeOwner(s, new)
      PROVE  Goal
      <2>1. UNCHANGED <<subscribed, busUp, loop, work, names, unread, activePlayers, status>>
            BY <1>6 DEF ChangeOwner, loopVars
      <2>2. o \notin released /\ o \notin displaced /\ nameOwner' = [nameOwner EXCEPT ![s] = new]
            BY <1>6 DEF ChangeOwner
      <2>3. nameOwner[s] # o
            BY <1>6, LastName
      <2>4. PICK sig \in OwnerSignals : sig.old = nameOwner[s] /\ sig.new = new /\ Grows(signals, signals', sig)
            BY <1>6, <2>1, OwnerAnnounced
      <2>5. sig \notin Removals(o)
            BY <2>3, <2>4, OwnerSignal
      <2>6. /\ Kept(signals') <=> Kept(signals)
            /\ Coming(signals') <=> sig \in SomeAddition(o) \/ Coming(signals)
            /\ Silent(signals') => Silent(signals)
            BY <2>4, <2>5 DEF Grows, Kept, Coming, Silent
      <2>7. CASE new = o
            BY <2>4, <2>6, <2>7, OwnerSignal
      <2>8. CASE new # o
            <3>1. \A t \in Services : nameOwner'[t] = o <=> nameOwner[t] = o
                  BY <2>2, <2>3, <2>8 DEF TypeInv, BusType
            <3>2. Holds(o) # {}
                  BY <3>1 DEF Holds
            <3>3. ToList(o) => ToList(o)'
                  <4>1. names \subseteq Services
                        BY DEF TypeInv, LoopType
                  <4> QED
                      BY <2>1, <3>1, <4>1 DEF ToList
            <3> QED
                BY <1>3, <2>1, <2>2, <2>6, <3>2, <3>3
      <2> QED
          BY <2>7, <2>8
<1>7. ASSUME NEW p \in Owners, NEW st \in Statuses, ChangeStatus(p, st)
      PROVE  Goal
      <2>1. UNCHANGED <<subscribed, busUp, loop, work, names, unread, activePlayers, nameOwner, released, displaced>>
            BY <1>7 DEF ChangeStatus, loopVars
      <2>2. Holds(o) # {}
            BY <2>1 DEF Holds
      <2>3. PICK sig \in StatusSignals : sig.sender = p /\ Grows(signals, signals', sig)
            BY <1>7, <2>1, StatusAnnounced
      <2>4. /\ Kept(signals') <=> Kept(signals)
            /\ Coming(signals') <=> Coming(signals)
            /\ Silent(signals') <=> Silent(signals) /\ sig \notin Changes(o, Statuses)
            BY <2>3, StatusSignal DEF Grows, Kept, Coming, Silent
      <2>5. ToList(o) => ToList(o)'
            BY <2>1 DEF ToList
      <2>6. Silent(signals') => status'[o] = status[o]
            <3>1. Silent(signals') => p # o
                  BY <2>3, <2>4, StatusSignal
            <3> QED
                BY <1>7, <3>1 DEF ChangeStatus, TypeInv, BusType
      <2> QED
          BY <1>3, <2>1, <2>2, <2>4, <2>5, <2>6
<1>8. ASSUME UNCHANGED <<nameOwner, released, displaced, signals>>, busUp, subscribed
      PROVE  Coming(signals') \/ (Kept(signals') /\ (ToList(o) \/ Worked \/ Shown))
      BY <1>3, <1>8 DEF Holds
<1>9. CASE Rests
      <2>1. UNCHANGED <<nameOwner, status, released, displaced, signals, subscribed, activePlayers, work, unread, names>>
            BY <1>9 DEF Rests
      <2>2. busUp
            BY <1>9 DEF Rests
      <2>3. ToList(o) => ToList(o)'
            BY <1>9, <2>1 DEF Rests, ToList, Quiet
      <2>4. Worked => WorkedNext
            BY <1>9, <2>1 DEF Rests, Asking, Storing
      <2> QED
          BY <1>8, <2>1, <2>2, <2>3, <2>4
<1>10. CASE PollWrite
      <2>1. UNCHANGED <<nameOwner, status, released, displaced, signals, subscribed, busUp, loop, work, unread, names>>
            BY <1>10 DEF PollWrite, busVars, loopVars
      <2>2. ToList(o) => ToList(o)'
            BY <2>1 DEF ToList
      <2> QED
          BY <1>8, <1>10, <2>1, <2>2, SameRegistered
<1>11. CASE Subscribe
      <2>1. signals' = <<>> /\ loop' = "list"
            BY <1>11 DEF Subscribe, Quiet
      <2> QED
          BY <2>1, EmptyQueue DEF Kept, ToList
<1>12. CASE ListNames
      <2>1. UNCHANGED <<nameOwner, status, released, displaced, signals, subscribed, busUp, activePlayers, work, unread>>
            BY <1>12 DEF ListNames, busVars
      <2>2. loop = "list" /\ loop' = "bootNext" /\ names' = {s \in Services : nameOwner[s] # Nil}
            BY <1>12, <2>1 DEF ListNames
      <2>3. ToList(o)'
            BY <1>4, <2>1, <2>2 DEF ToList, Holds
      <2> QED
          BY <1>8, <2>1, <2>3
<1>13. ASSUME NEW s \in Services, GetNameOwner(s)
      PROVE  Goal
      <2>1. UNCHANGED <<nameOwner, status, released, displaced, signals, subscribed, busUp, activePlayers, unread>>
            BY <1>13 DEF GetNameOwner, busVars
      <2>2. loop = "bootNext" /\ names' = names \ {s}
            BY <1>13 DEF GetNameOwner
      <2>3. CASE nameOwner[s] = o
            <3>1. loop' = "bootFetch" /\ work' = [owner |-> o, service |-> s]
                  BY <1>4, <1>13, <2>3 DEF GetNameOwner
            <3> QED
                BY <1>8, <2>1, <3>1 DEF Asking
      <2>4. CASE nameOwner[s] # o
            <3>1. loop' \in {"bootNext", "bootFetch"}
                  BY <1>13, <2>2 DEF GetNameOwner
            <3>2. ToList(o) => ToList(o)'
                  BY <2>1, <2>2, <2>4, <3>1 DEF ToList
            <3>3. ~Worked
                  BY <2>2 DEF Asking, Storing
            <3> QED
                BY <1>8, <2>1, <3>2, <3>3
      <2> QED
          BY <2>3, <2>4
<1>14. CASE Fetch
      <2>1. UNCHANGED <<nameOwner, status, released, displaced, signals, subscribed, busUp, activePlayers, names>>
            BY <1>14 DEF Fetch, busVars
      <2>2. loop \in Asking /\ loop' \in Storing /\ work'.owner = work.owner
            BY <1>14 DEF Fetch, Asking, Storing
      <2>3. ToList(o) => ToList(o)'
            BY <1>14, <2>1 DEF Fetch, ToList
      <2>4. CASE work.owner = o
            BY <1>8, <2>1, <2>2, <2>4
      <2>5. CASE work.owner # o
            <3>1. o \in unread' <=> o \in unread
                  BY <1>14, <2>5 DEF Fetch
            <3> QED
                BY <1>8, <2>1, <2>3, <2>5, <3>1
      <2> QED
          BY <2>4, <2>5
<1>15. CASE Register
      <2>1. UNCHANGED <<nameOwner, status, released, displaced, signals, subscribed, busUp, unread, names>>
            BY <1>15 DEF Register, busVars
      <2>2. loop \in Storing /\ activePlayers' = [activePlayers EXCEPT ![work.owner] = work.player]
            BY <1>15 DEF Register, Storing
      <2>3. ToList(o) => ToList(o)'
            BY <1>15, <2>1 DEF Register, ToList
      <2>4. CASE work.owner = o
            <3>1. work.player # Nil
                  BY <2>2, MediaAssumption DEF TypeInv, LoopType
            <3>2. activePlayers'[o] = work.player
                  BY <1>4, <2>2, <2>4
            <3> QED
                BY <1>5, <1>8, <2>1, <2>2, <2>4, <3>1, <3>2
      <2>5. CASE work.owner # o
            <3>1. activePlayers'[o] = activePlayers[o]
                  BY <1>4, <2>2, <2>5
            <3> QED
                BY <1>8, <2>1, <2>3, <2>5, <3>1
      <2> QED
          BY <2>4, <2>5
<1>16. CASE HandleDbusSignal
      <2> DEFINE sig == Head(signals)
      <2>1. UNCHANGED <<nameOwner, status, released, displaced, subscribed, busUp, unread, names>> /\ loop = "select"
            BY <1>16 DEF HandleDbusSignal
      <2>2. Coming(signals) \/ (Kept(signals) /\ Shown)
            <3>1. Holds(o) # {}
                  BY <2>1 DEF Holds
            <3> QED
                BY <1>3, <2>1, <3>1 DEF ToList, Asking, Storing
      <2>3. /\ Coming(signals) <=> (sig \in SomeAddition(o) /\ Kept(signals')) \/ Coming(signals')
            /\ Kept(signals) <=> sig \notin Removals(o) /\ Kept(signals')
            /\ Silent(signals) <=> sig \notin Changes(o, Statuses) /\ Silent(signals')
            BY <1>16, SignalTaken DEF Shrinks, Coming, Kept, Silent
      <2>4. CASE sig \in SomeAddition(o) /\ Kept(signals')
            <3>1. sig.member = "NameOwnerChanged" /\ sig.new = o
                  BY <2>4 DEF SomeAddition, Additions
            <3>2. loop' = "fetch" /\ work' = [owner |-> o, service |-> sig.service]
                  BY <1>4, <1>16, <3>1, SignalEffect DEF StatusSignals
            <3> QED
                BY <2>4, <3>2 DEF Asking
      <2>5. CASE /\ sig \notin SomeAddition(o) /\ sig \notin Removals(o)
                 /\ Kept(signals') /\ Shown
            <3>1. CASE sig \in OwnerSignals
                  <4>1. activePlayers'[o] = activePlayers[o]
                        <5>1. ~(sig.old = o /\ sig.new = Nil)
                              BY <2>5, <3>1, OwnerSignal
                        <5>2. \/ activePlayers' = activePlayers
                              \/ sig.new = Nil /\ activePlayers' = [activePlayers EXCEPT ![sig.old] = Nil]
                              BY <1>16, <3>1, SignalEffect DEF OwnerSignals, StatusSignals
                        <5> QED
                            BY <1>4, <5>1, <5>2
                  <4>2. sig \notin Changes(o, Statuses)
                        BY <3>1, OwnerSignal
                  <4> QED
                      BY <2>1, <2>3, <2>5, <4>1, <4>2
            <3>2. CASE sig \in StatusSignals /\ sig.sender # o
                  <4>1. \/ activePlayers' = activePlayers
                        \/ \E new : activePlayers' = [activePlayers EXCEPT ![sig.sender] = new]
                        BY <1>16, <3>2, SignalEffect DEF OwnerSignals, StatusSignals
                  <4>2. activePlayers'[o] = activePlayers[o]
                        BY <1>4, <3>2, <4>1
                  <4>3. sig \notin Changes(o, Statuses)
                        BY <3>2, StatusSignal
                  <4> QED
                      BY <2>1, <2>3, <2>5, <4>2, <4>3
            <3>3. CASE sig \in StatusSignals /\ sig.sender = o
                  <4>1. sig.status \in Statuses /\ sig \in Changes(o, {sig.status})
                        BY <3>3, StatusSignal
                  <4>2. /\ activePlayers[o] \in Players
                        /\ activePlayers' = [activePlayers EXCEPT ![o] = [activePlayers[o] EXCEPT !.status = sig.status]]
                        BY <1>16, <2>5, <3>3, SignalEffect DEF OwnerSignals, StatusSignals
                  <4>3. activePlayers'[o] = [activePlayers[o] EXCEPT !.status = sig.status]
                        BY <1>4, <4>2
                  <4>4. activePlayers'[o] # Nil /\ activePlayers'[o].status = sig.status
                        <5> DEFINE q == [activePlayers[o] EXCEPT !.status = sig.status]
                        <5>1. q \in Players /\ q.status = sig.status
                              BY <4>1, <4>2, PlayerFields
                        <5> HIDE DEF q
                        <5>2. activePlayers'[o] = q
                              BY <4>3 DEF q
                        <5>3. activePlayers'[o] \in Players /\ activePlayers'[o].status = sig.status
                              BY <5>1, <5>2
                        <5> QED
                            BY <5>3, PlayerFields, <4>1
                  <4>5. Silent(signals') => status[o] = sig.status
                        <5>1. Silent(signals') => Ends(signals, Changes(o, {sig.status}), Changes(o, Statuses))
                              BY <1>16, <4>1, SignalTaken DEF Shrinks, Silent
                        <5> QED
                            BY <4>1, <5>1 DEF StatusTold
                  <4> QED
                      BY <2>1, <2>5, <4>4, <4>5
            <3> QED
                BY <1>16, <3>1, <3>2, <3>3, SignalEffect
      <2> HIDE DEF Goal, Shown
      <2>6. CASE Coming(signals')
            BY <2>6 DEF Goal
      <2> QED
          BY <2>2, <2>3, <2>4, <2>5, <2>6
<1> HIDE DEF Goal
<1> QED
    BY <1>6, <1>7, <1>9, <1>10, <1>11, <1>12, <1>13, <1>14, <1>15, <1>16, ListSteps

(* PlayersSettle for every instance: once every signal is handled, a       *)
(* connection that holds a name is listed with the status it has, and a    *)
(* listed one holds a name, but for those displaced by a handover and      *)
(* those that gave up one of two names.                                    *)
THEOREM PlayersSettleAlways == Spec => []PlayersSettle
<1> DEFINE Inv == TypeInv /\ Quiet /\ ListInv
<1>1. Init => Inv
      <2> SUFFICES ASSUME Init
                   PROVE  Quiet /\ ListInv
          BY TypeInit
      <2>1. /\ signals = <<>> /\ loop = "start" /\ subscribed = FALSE /\ activePlayers = NoPlayers
            BY DEF Init
      <2>2. Quiet
            BY <2>1 DEF Quiet
      <2>3. \A o \in Owners : Unlisted(o)
            BY <2>1, EmptyQueue DEF Unlisted, Registered, NoPlayers, Asking, Storing
      <2> QED
          BY <2>1, <2>2, <2>3, EmptyQueue
          DEF ListInv, StatusTold, StillHeld, WorkKnown, NamelessGo, HoldersListed, Asking, Storing
<1>2. Inv /\ [Next]_vars => Inv'
      BY TypeStep, QuietStep, StatusToldStep, StillHeldStep, WorkKnownStep, NamelessGoStep, HoldersListedStep
      DEF ListInv
<1>3. Inv => PlayersSettle
      <2> SUFFICES ASSUME Inv, loop = "select", signals = <<>>, busUp, NEW o \in Owners
                   PROVE  /\ o \in Registered => Holds(o) # {} \/ o \in displaced
                          /\ Holds(o) # {} /\ o \notin released \cup displaced =>
                                 o \in Registered /\ (o \notin unread => activePlayers[o].status = status[o])
          BY DEF PlayersSettle, Settled
      <2>1. o \in Registered => Holds(o) # {} \/ o \in displaced
            BY EmptyQueue DEF ListInv, NamelessGo, Unlisted
      <2>2. ASSUME Holds(o) # {}, o \notin released \cup displaced
            PROVE  o \in Registered /\ (o \notin unread => activePlayers[o].status = status[o])
            <3>1. Listed(o)
                  BY <2>2, EmptyQueue DEF ListInv, HoldersListed, Quiet, ToList, Asking, Storing
            <3> QED
                BY <3>1, EmptyQueue DEF Listed, Known
      <2> QED
          BY <2>1, <2>2
<1> QED
    BY <1>1, <1>2, <1>3, PTL DEF Spec

================================================================================
