------------------------------ MODULE EdgesProofs ------------------------------
(* Proofs about the parts of DaemonEdges for any values of the constants:  *)
(* first each component on its own, then, in the last section, the         *)
(* properties of DaemonEdges itself.                                       *)
EXTENDS DaemonEdges, SequenceTheorems, WellFoundedInduction, TLAPS

--------------------------------------------------------------------------------
(* CommandSocket                                                           *)

(* TypeOK by group of variables, with the types it leaves out.             *)
DaemonType ==
    /\ file \in Daemons \cup {Stale, Nil} /\ live \subseteq Daemons /\ cancelled \subseteq Daemons
    /\ pc \in [Daemons -> Socket!Busy \cup {"off", "stat", "serving", "removed", "refused", "ended"}]
    /\ refusal \in [Daemons -> {Nil, "in use", "remove", "bind"}]
    /\ overlap \in BOOLEAN

HandlerType ==
    /\ hpc \in [Clients -> {"none", "queued", "decode", "store", "clients", "streams", "respond", "closed"}]
    /\ done \in [Clients -> SUBSET {"cache", "clients", "streams"}]
    /\ answer \in [Clients -> {Nil, "success", "error"}]

ClientType ==
    /\ cpc \in [Clients -> {"idle", "encode", "wait", "done"}]
    /\ conn \in [Clients -> Daemons \cup {Nil}]
    /\ req \in [Clients -> Socket!Requests]
    /\ result \in [Clients -> {Nil, "success", "error", "failed"}]
    /\ \A c \in Clients : result[c] # Nil <=> cpc[c] = "done"

SocketType == DaemonType /\ HandlerType /\ ClientType /\ stuck \in BOOLEAN

(* A listener is open from bind to close.                                  *)
LiveWhileServing == \A d \in Daemons : d \in live <=> pc[d] \in {"serving", "closing"}

(* Without an overlap, one daemon at a time is between its look at the     *)
(* path and its last write to it.                                          *)
OneBusy == \A d, e \in Daemons : pc[d] \in Socket!Busy /\ pc[e] \in Socket!Busy => d = e

(* What a daemon found at the path stays true until it acts on it: there   *)
(* is a file to dial, nobody answers on the one to remove, and none is in  *)
(* the way of bind, or left to remove after the unlink.                    *)
PathAsSeen ==
    \A d \in Daemons :
        /\ pc[d] = "dial" => file # Nil
        /\ pc[d] = "remove" => file # Nil /\ file \notin live
        /\ pc[d] \in {"listen", "closing", "removing"} => file = Nil

(* SocketIsOwned, and what keeps it so while daemons come and go.          *)
PathInv ==
    /\ LiveWhileServing
    /\ ~overlap => OneBusy /\ PathAsSeen
    /\ Socket!SocketIsOwned

\* What a request's type caches.
CachePart(r) == IF r.kind \in CachedKinds THEN {"cache"} ELSE {}

(* At each point of a handler exactly the effects before it have happened, *)
(* and an accepted request is one that decodes.                            *)
EffectsSoFar(c) ==
    /\ hpc[c] \in {"none", "queued", "decode", "store"} => done[c] = {}
    /\ hpc[c] = "clients" => done[c] = CachePart(req[c])
    /\ hpc[c] = "streams" => done[c] = CachePart(req[c]) \cup {"clients"}
    /\ hpc[c] = "respond" => done[c] = Socket!Effects(req[c])
    /\ hpc[c] \in {"store", "clients", "streams", "respond"} => req[c].decodes

(* An answer is the handler's last word, and true; the client reports it.  *)
AnswerTrue(c) ==
    /\ answer[c] # Nil => hpc[c] = "closed"
    /\ answer[c] = "success" => req[c].decodes /\ done[c] = Socket!Effects(req[c])
    /\ answer[c] = "error" => ~req[c].decodes /\ done[c] = {}
    /\ result[c] \in {"success", "error"} => result[c] = answer[c]

(* A client that has not dialled has neither a connection nor a handler.   *)
NotDialled(c) == cpc[c] = "idle" => hpc[c] = "none" /\ conn[c] = Nil

ClientOK(c) == EffectsSoFar(c) /\ AnswerTrue(c) /\ NotDialled(c)

HandlerInv == \A c \in Clients : ClientOK(c)

--------------------------------------------------------------------------------
(* Type correctness                                                        *)

(* A request says whether its data decodes.                                *)
LEMMA RequestsDecode == \A r \in Socket!Requests : r.decodes \in BOOLEAN
  BY DEF Socket!Requests, Socket!CommandRequests, Socket!RawRequests

(* The initial types.                                                      *)
LEMMA TypeInitially == Socket!SocketAssumption /\ Socket!Init => SocketType
<1> SUFFICES ASSUME Socket!SocketAssumption, Socket!Init PROVE SocketType
  OBVIOUS
<1>1. overlap \in BOOLEAN /\ stuck \in BOOLEAN
  BY Zenon DEF Socket!Init
<1> QED
  BY <1>1 DEF Socket!Init, SocketType, DaemonType, HandlerType, ClientType, Socket!Busy

(* Moving a daemon's goroutine keeps the types of what it moves.           *)
LEMMA GotoTypes ==
    ASSUME DaemonType, NEW d \in Daemons,
           NEW step \in Socket!Busy \cup {"stat", "serving", "removed", "refused", "ended"}, Socket!Goto(d, step)
    PROVE  /\ pc' \in [Daemons -> Socket!Busy \cup {"off", "stat", "serving", "removed", "refused", "ended"}]
           /\ overlap' \in BOOLEAN
<1>1. pc' \in [Daemons -> Socket!Busy \cup {"off", "stat", "serving", "removed", "refused", "ended"}]
  BY DEF DaemonType, Socket!Goto
<1>2. overlap' \in BOOLEAN
  BY Zenon DEF Socket!Goto
<1> QED
  BY <1>1, <1>2

(* A daemon's own steps keep the types of the daemons.                     *)
LEMMA DaemonTypes ==
    ASSUME DaemonType, NEW d \in Daemons, Socket!DaemonStarts(d) \/ Socket!DaemonStops(d)
             \/ Socket!Cancel(d) \/ Socket!End(d)
    PROVE  DaemonType'
<1>1. CASE Socket!Start(d)
  BY <1>1, GotoTypes DEF Socket!Start, DaemonType
<1>2. CASE Socket!Stat(d)
  BY <1>2, GotoTypes DEF Socket!Stat, Socket!Busy, DaemonType
<1>3. CASE Socket!DialPath(d)
  BY <1>3, GotoTypes DEF Socket!DialPath, Socket!Refuse, Socket!Busy, DaemonType
<1>4. CASE Socket!RemoveStale(d)
  BY <1>4, GotoTypes DEF Socket!RemoveStale, Socket!Refuse, Socket!Busy, DaemonType
<1>5. CASE Socket!Listen(d)
  BY <1>5, GotoTypes DEF Socket!Listen, Socket!Refuse, Socket!Busy, DaemonType
<1>6. CASE Socket!Unlink(d)
  BY <1>6, GotoTypes DEF Socket!Unlink, Socket!Busy, DaemonType
<1>7. CASE Socket!CloseListener(d)
  BY <1>7, GotoTypes DEF Socket!CloseListener, Socket!Busy, DaemonType
<1>8. CASE Socket!RemoveAgain(d)
  BY <1>8, GotoTypes DEF Socket!RemoveAgain, Socket!Busy, DaemonType
<1>9. CASE Socket!Cancel(d)
  BY <1>9 DEF Socket!Cancel, DaemonType
<1>10. CASE Socket!End(d)
  BY <1>10, GotoTypes DEF Socket!End, DaemonType
<1> QED
  BY <1>1, <1>2, <1>3, <1>4, <1>5, <1>6, <1>7, <1>8, <1>9, <1>10 DEF Socket!DaemonStarts, Socket!DaemonStops

(* A daemon changes nothing of a client but that its handler is closed.    *)
LEMMA DaemonFrame ==
    ASSUME NEW d \in Daemons, Socket!DaemonStarts(d) \/ Socket!DaemonStops(d) \/ Socket!Cancel(d)
             \/ Socket!End(d)
    PROVE  /\ UNCHANGED <<Socket!clientVars, done, answer, stuck>>
           /\ \/ UNCHANGED hpc
              \/ hpc' = [c \in Clients |-> IF conn[c] = d /\ hpc[c] = "queued" THEN "closed" ELSE hpc[c]]
              \/ hpc' = [c \in Clients |-> IF conn[c] = d THEN "closed" ELSE hpc[c]]
<1>1. CASE Socket!DaemonStarts(d)
  BY <1>1 DEF Socket!DaemonStarts, Socket!Start, Socket!Stat, Socket!DialPath, Socket!RemoveStale,
              Socket!Listen, Socket!handlerVars
<1>2. CASE Socket!DaemonStops(d) \/ Socket!Cancel(d) \/ Socket!End(d)
  BY <1>2 DEF Socket!DaemonStops, Socket!Unlink, Socket!CloseListener, Socket!RemoveAgain,
              Socket!Cancel, Socket!End, Socket!handlerVars
<1> QED
  BY <1>1, <1>2

(* Handlers and clients keep theirs and leave the daemons alone.           *)
LEMMA ClientTypes ==
    ASSUME Socket!SocketAssumption, SocketType, NEW c \in Clients, Socket!Handler(c)
             \/ Socket!Deadline(c) \/ Socket!Client(c)
    PROVE  HandlerType' /\ ClientType' /\ UNCHANGED <<Socket!daemonVars, stuck>>
<1> USE DEF SocketType, Socket!HandlerAt, Socket!Does, Socket!ClientAt, Socket!Reports,
            Socket!handlerVars, Socket!clientVars
<1>1. CASE Socket!Accept(c)
  BY <1>1 DEF Socket!Accept, HandlerType, ClientType
<1>2. CASE Socket!Decode(c)
  BY <1>2 DEF Socket!Decode, HandlerType, ClientType
<1>3. CASE Socket!Store(c)
  BY <1>3 DEF Socket!Store, HandlerType, ClientType
<1>4. CASE Socket!BroadcastClients(c)
  BY <1>4 DEF Socket!BroadcastClients, HandlerType, ClientType
<1>5. CASE Socket!BroadcastStreams(c)
  BY <1>5 DEF Socket!BroadcastStreams, HandlerType, ClientType
<1>6. CASE Socket!WriteUDSResponse(c)
  BY <1>6 DEF Socket!WriteUDSResponse, HandlerType, ClientType
<1>7. CASE Socket!Deadline(c)
  BY <1>7 DEF Socket!Deadline, HandlerType, ClientType
<1>8. CASE Socket!Dial(c)
  <2>1. HandlerType' /\ UNCHANGED <<Socket!daemonVars, stuck>>
    BY <1>8 DEF Socket!Dial, HandlerType
  <2>2. ClientType'
    <3>1. file \in live => file \in Daemons
      BY DEF DaemonType
    <3>2. cpc' \in [Clients -> {"idle", "encode", "wait", "done"}]
      BY <1>8 DEF Socket!Dial, ClientType
    <3>3. conn' \in [Clients -> Daemons \cup {Nil}] /\ req' \in [Clients -> Socket!Requests]
      BY <1>8, <3>1 DEF Socket!Dial, ClientType
    <3>4. result' \in [Clients -> {Nil, "success", "error", "failed"}]
      BY <1>8 DEF Socket!Dial, ClientType
    <3>5. \A e \in Clients : result'[e] # Nil <=> cpc'[e] = "done"
      BY <1>8 DEF Socket!Dial, ClientType, Socket!SocketAssumption
    <3> QED
      BY <3>2, <3>3, <3>4, <3>5 DEF ClientType
  <2> QED
    BY <2>1, <2>2
<1>9. CASE Socket!Encode(c)
  BY <1>9 DEF Socket!Encode, HandlerType, ClientType, Socket!SocketAssumption
<1>10. CASE Socket!ReadResponse(c)
  BY <1>10 DEF Socket!ReadResponse, HandlerType, ClientType, Socket!SocketAssumption
<1> QED
  BY <1>1, <1>2, <1>3, <1>4, <1>5, <1>6, <1>7, <1>8, <1>9, <1>10 DEF Socket!Handler, Socket!Client

(* Every step keeps the types.                                             *)
LEMMA TypeStep == Socket!SocketAssumption /\ SocketType /\ [Socket!Next]_(Socket!vars) => SocketType'
<1> SUFFICES ASSUME Socket!SocketAssumption, SocketType, [Socket!Next]_(Socket!vars) PROVE SocketType'
  OBVIOUS
<1>1. ASSUME NEW d \in Daemons, Socket!DaemonStarts(d) \/ Socket!DaemonStops(d) \/ Socket!Cancel(d)
               \/ Socket!End(d)
      PROVE  SocketType'
  <2>1. DaemonType'
    BY <1>1, DaemonTypes DEF SocketType
  <2>2. HandlerType'
    BY <1>1, DaemonFrame DEF SocketType, HandlerType
  <2>3. ClientType' /\ stuck' \in BOOLEAN
    BY <1>1, DaemonFrame DEF SocketType, ClientType, Socket!clientVars
  <2> QED
    BY <2>1, <2>2, <2>3 DEF SocketType
<1>2. ASSUME NEW c \in Clients, Socket!Handler(c) \/ Socket!Deadline(c) \/ Socket!Client(c)
      PROVE SocketType'
  BY <1>2, ClientTypes DEF SocketType, DaemonType, Socket!daemonVars
<1>3. CASE Socket!Peer
  BY <1>3 DEF Socket!Peer, SocketType, DaemonType, HandlerType, ClientType, Socket!daemonVars,
              Socket!handlerVars, Socket!clientVars
<1>4. CASE UNCHANGED Socket!vars
  BY <1>4 DEF Socket!vars, SocketType, DaemonType, HandlerType, ClientType, Socket!daemonVars,
              Socket!handlerVars, Socket!clientVars
<1> QED
  BY <1>1, <1>2, <1>3, <1>4 DEF Socket!Next

(* Type correctness of the command socket: whoever dies or closes, every   *)
(* daemon and client is at a step of its own code, and a client reports    *)
(* exactly when it is done.                                                *)
THEOREM SocketTypes ==
    ASSUME Socket!SocketAssumption
    PROVE  Socket!Init /\ [][Socket!Next]_(Socket!vars) => []Socket!TypeOK
<1>1. Socket!Init => SocketType
  BY TypeInitially
<1>2. SocketType /\ [Socket!Next]_(Socket!vars) => SocketType'
  BY TypeStep
<1>3. SocketType => Socket!TypeOK
  BY DEF SocketType, Socket!TypeOK, DaemonType, HandlerType, ClientType
<1> QED
  BY <1>1, <1>2, <1>3, PTL

--------------------------------------------------------------------------------
(* The socket file                                                         *)

(* Before any daemon runs, nobody is in anybody's way.                     *)
LEMMA PathInitially == Socket!SocketAssumption /\ Socket!Init => PathInv
  BY DEF Socket!Init, PathInv, LiveWhileServing, OneBusy, PathAsSeen, Socket!SocketIsOwned,
         Socket!ServerAtPath,
         Socket!StaleNeverBlocks, Socket!Busy

(* Short of an overlap, a daemon that becomes busy is the only one.        *)
LEMMA GotoAlone ==
    ASSUME NEW d \in Daemons, NEW step, Socket!Goto(d, step), ~overlap'
    PROVE  /\ ~overlap
           /\ step \in Socket!Busy => \A x \in Daemons \ {d} : pc[x] \notin Socket!Busy
  BY Zenon DEF Socket!Goto

(* The daemon that moves is the only one whose place changes.              *)
LEMMA GotoPlace ==
    ASSUME DaemonType, NEW d \in Daemons, NEW step, Socket!Goto(d, step)
    PROVE  pc'[d] = step /\ \A x \in Daemons \ {d} : pc'[x] = pc[x]
  BY DEF DaemonType, Socket!Goto

(* Short of an overlap, nobody becomes busy beside another.                *)
LEMMA BusyStaysAlone ==
    ASSUME DaemonType, PathInv, NEW d \in Daemons, NEW step, Socket!Goto(d, step), ~overlap'
    PROVE  OneBusy'
  BY GotoAlone, GotoPlace DEF PathInv, OneBusy

(* Looking at the path, dialling, removing a stale file and binding.       *)
LEMMA StartsKeepPath ==
    ASSUME Socket!SocketAssumption, DaemonType, PathInv, NEW d \in Daemons, Socket!DaemonStarts(d)
    PROVE  PathInv'
<1> USE DEF PathInv
<1>1. PICK step : Socket!Goto(d, step)
  BY DEF Socket!DaemonStarts, Socket!Start, Socket!Stat, Socket!DialPath, Socket!RemoveStale,
         Socket!Listen, Socket!Refuse
<1>2. LiveWhileServing'
  BY GotoPlace DEF LiveWhileServing, Socket!DaemonStarts, Socket!Start, Socket!Stat, Socket!DialPath,
                   Socket!RemoveStale, Socket!Listen, Socket!Refuse
<1>3. ASSUME ~overlap' PROVE PathAsSeen'
  <2>1. ~overlap
    BY <1>1, <1>3, GotoAlone
  <2>2. CASE Socket!Start(d)
    BY <1>3, <2>1, <2>2, GotoPlace DEF Socket!Start, PathAsSeen
  <2>3. CASE Socket!Stat(d)
    BY <1>3, <2>1, <2>3, GotoPlace DEF Socket!Stat, PathAsSeen
  <2>4. CASE Socket!DialPath(d)
    BY <1>3, <2>1, <2>4, GotoPlace DEF Socket!DialPath, Socket!Refuse, PathAsSeen
  <2>5. CASE Socket!RemoveStale(d)
    BY <1>3, <2>1, <2>5, GotoPlace DEF Socket!RemoveStale, Socket!Refuse, PathAsSeen, OneBusy, Socket!Busy
  <2>6. CASE Socket!Listen(d)
    BY <1>3, <2>1, <2>6, GotoPlace DEF Socket!Listen, Socket!Refuse, PathAsSeen, OneBusy, Socket!Busy
  <2> QED
    BY <2>2, <2>3, <2>4, <2>5, <2>6 DEF Socket!DaemonStarts
<1>4. ASSUME ~overlap' PROVE Socket!SocketIsOwned'
  <2>1. ~overlap
    BY <1>1, <1>4, GotoAlone
  <2> USE DEF Socket!SocketIsOwned, Socket!ServerAtPath, Socket!StaleNeverBlocks
  <2>2. CASE Socket!Start(d)
    BY <1>4, <2>1, <2>2, GotoPlace DEF Socket!Start
  <2>3. CASE Socket!Stat(d)
    BY <1>4, <2>1, <2>3, GotoPlace DEF Socket!Stat
  <2>4. CASE Socket!DialPath(d)
    BY <1>4, <2>1, <2>4, GotoPlace DEF Socket!DialPath, Socket!Refuse, DaemonType
  <2>5. CASE Socket!RemoveStale(d)
    BY <1>4, <2>1, <2>5, GotoPlace DEF Socket!RemoveStale, Socket!Refuse, PathAsSeen, LiveWhileServing
  <2>6. CASE Socket!Listen(d)
    BY <1>4, <2>1, <2>6, GotoPlace DEF Socket!Listen, Socket!Refuse, PathAsSeen, Socket!SocketAssumption
  <2> QED
    BY <2>2, <2>3, <2>4, <2>5, <2>6 DEF Socket!DaemonStarts
<1>5. ASSUME ~overlap' PROVE OneBusy'
  BY <1>1, <1>5, BusyStaysAlone
<1>6. overlap' => Socket!SocketIsOwned'
  BY DEF Socket!SocketIsOwned, Socket!ServerAtPath, Socket!StaleNeverBlocks
<1> QED
  BY <1>2, <1>3, <1>4, <1>5, <1>6

(* Cancellation, the unlink, the close, the removal and a crash.           *)
LEMMA StopsKeepPath ==
    ASSUME Socket!SocketAssumption, DaemonType, PathInv, NEW d \in Daemons, Socket!DaemonStops(d)
             \/ Socket!Cancel(d) \/ Socket!End(d)
    PROVE  PathInv'
<1> USE DEF PathInv
<1>1. CASE Socket!Cancel(d)
  BY <1>1 DEF Socket!Cancel, LiveWhileServing, OneBusy, PathAsSeen, Socket!SocketIsOwned,
              Socket!ServerAtPath, Socket!StaleNeverBlocks
<1>2. CASE Socket!DaemonStops(d) \/ Socket!End(d)
  <2>1. PICK step : Socket!Goto(d, step)
    BY <1>2 DEF Socket!DaemonStops, Socket!Unlink, Socket!CloseListener, Socket!RemoveAgain, Socket!End
  <2>2. LiveWhileServing'
    BY <1>2, GotoPlace DEF LiveWhileServing, Socket!DaemonStops, Socket!Unlink, Socket!CloseListener,
                           Socket!RemoveAgain, Socket!End
  <2>3. ASSUME ~overlap' PROVE PathAsSeen'
    <3>1. ~overlap
      BY <2>1, <2>3, GotoAlone
    <3>2. CASE Socket!Unlink(d)
      BY <2>3, <3>1, <3>2, GotoPlace, GotoAlone DEF Socket!Unlink, PathAsSeen, Socket!Busy
    <3>3. CASE Socket!CloseListener(d)
      BY <2>3, <3>1, <3>3, GotoPlace DEF Socket!CloseListener, PathAsSeen
    <3>4. CASE Socket!RemoveAgain(d)
      BY <2>3, <3>1, <3>4, GotoPlace DEF Socket!RemoveAgain, PathAsSeen, OneBusy, Socket!Busy
    <3>5. CASE Socket!End(d)
      BY <2>3, <3>1, <3>5, GotoPlace DEF Socket!End, PathAsSeen
    <3> QED
      BY <1>2, <3>2, <3>3, <3>4, <3>5 DEF Socket!DaemonStops
  <2>4. ASSUME ~overlap' PROVE Socket!SocketIsOwned'
    <3>1. ~overlap
      BY <2>1, <2>4, GotoAlone
    <3> USE DEF Socket!SocketIsOwned, Socket!ServerAtPath, Socket!StaleNeverBlocks
    <3>2. CASE Socket!Unlink(d)
      <4>1. file = d /\ \A x \in Daemons : pc[x] = "serving" => x = d
        BY <3>1, <3>2 DEF Socket!Unlink
      <4>2. Socket!Goto(d, "closing") /\ UNCHANGED refusal
        BY <3>2 DEF Socket!Unlink
      <4>3. pc'[d] = "closing" /\ \A x \in Daemons \ {d} : pc'[x] = pc[x]
        BY <4>2, GotoPlace
      <4> QED
        BY <3>1, <4>1, <4>2, <4>3
    <3>3. CASE Socket!CloseListener(d)
      BY <2>4, <3>1, <3>3, GotoPlace DEF Socket!CloseListener
    <3>4. CASE Socket!RemoveAgain(d)
      BY <2>4, <3>1, <3>4, GotoPlace DEF Socket!RemoveAgain, PathAsSeen, Socket!SocketAssumption
    <3>5. CASE Socket!End(d)
      BY <2>4, <3>1, <3>5, GotoPlace DEF Socket!End
    <3> QED
      BY <1>2, <3>2, <3>3, <3>4, <3>5 DEF Socket!DaemonStops
  <2>5. ASSUME ~overlap' PROVE OneBusy'
    BY <2>1, <2>5, BusyStaysAlone
  <2>6. overlap' => Socket!SocketIsOwned'
    BY DEF Socket!SocketIsOwned, Socket!ServerAtPath, Socket!StaleNeverBlocks
  <2> QED
    BY <2>2, <2>3, <2>4, <2>5, <2>6
<1> QED
  BY <1>1, <1>2

(* Every step keeps the path as the daemons believe it to be.              *)
LEMMA PathStep == Socket!SocketAssumption /\ SocketType /\ PathInv /\ [Socket!Next]_(Socket!vars) => PathInv'
<1> SUFFICES ASSUME Socket!SocketAssumption, SocketType, PathInv, [Socket!Next]_(Socket!vars) PROVE PathInv'
  OBVIOUS
<1>1. CASE UNCHANGED Socket!daemonVars
  BY <1>1 DEF Socket!daemonVars, PathInv, LiveWhileServing, OneBusy, PathAsSeen, Socket!SocketIsOwned,
              Socket!ServerAtPath,
              Socket!StaleNeverBlocks
<1>2. ASSUME NEW d \in Daemons, Socket!DaemonStarts(d) \/ Socket!DaemonStops(d) \/ Socket!Cancel(d)
               \/ Socket!End(d)
      PROVE  PathInv'
  BY <1>2, StartsKeepPath, StopsKeepPath DEF SocketType
<1>3. ASSUME NEW c \in Clients, Socket!Handler(c) \/ Socket!Deadline(c) \/ Socket!Client(c) PROVE PathInv'
  BY <1>1, <1>3, ClientTypes
<1> QED
  BY <1>1, <1>2, <1>3 DEF Socket!Next, Socket!Peer, Socket!vars

(* The socket file is its server's, whatever the daemons do.               *)
LEMMA SocketIsOwnedAlone ==
    ASSUME Socket!SocketAssumption
    PROVE  Socket!Init /\ [][Socket!Next]_(Socket!vars) => []Socket!SocketIsOwned
<1>1. Socket!Init => SocketType /\ PathInv
  BY TypeInitially, PathInitially
<1>2. SocketType /\ PathInv /\ [Socket!Next]_(Socket!vars) => SocketType' /\ PathInv'
  BY TypeStep, PathStep
<1>3. PathInv => Socket!SocketIsOwned
  BY DEF PathInv
<1> QED
  BY <1>1, <1>2, <1>3, PTL

--------------------------------------------------------------------------------
(* Answers                                                                 *)

(* No client has dialled initially.                                        *)
LEMMA HandlerInitially == Socket!SocketAssumption /\ Socket!Init => HandlerInv
  BY DEF Socket!Init, HandlerInv, ClientOK, EffectsSoFar, AnswerTrue, NotDialled, Socket!SocketAssumption

(* Nothing of another client's request, handler or answer changes.         *)
LEMMA OthersKept ==
    ASSUME SocketType, HandlerInv, NEW c \in Clients, Socket!Handler(c) \/ Socket!Deadline(c)
             \/ Socket!Client(c),
           NEW e \in Clients \ {c}
    PROVE  ClientOK(e)'
<1>1. /\ hpc'[e] = hpc[e] /\ done'[e] = done[e] /\ answer'[e] = answer[e]
      /\ cpc'[e] = cpc[e] /\ conn'[e] = conn[e] /\ req'[e] = req[e] /\ result'[e] = result[e]
  <2> USE DEF Socket!HandlerAt, Socket!Does, Socket!ClientAt, Socket!Reports, Socket!handlerVars,
              Socket!clientVars, SocketType, HandlerType, ClientType
  <2>1. CASE Socket!Handler(c)
    BY <2>1 DEF Socket!Handler, Socket!Accept, Socket!Decode, Socket!Store, Socket!BroadcastClients,
                Socket!BroadcastStreams, Socket!WriteUDSResponse
  <2>2. CASE Socket!Deadline(c)
    BY <2>2 DEF Socket!Deadline
  <2>3. CASE Socket!Client(c)
    BY <2>3 DEF Socket!Client, Socket!Dial, Socket!Encode, Socket!ReadResponse
  <2> QED
    BY <2>1, <2>2, <2>3
<1>2. ClientOK(e)
  BY DEF HandlerInv
<1> QED
  BY <1>1, <1>2 DEF ClientOK, EffectsSoFar, AnswerTrue, NotDialled

(* Every step of a handler adds its effect; only the last one is answered  *)
(* with success, and only a decoding error with an error.                  *)
LEMMA AnswerKeeps ==
    ASSUME Socket!SocketAssumption, SocketType, HandlerInv, NEW c \in Clients, Socket!Handler(c)
             \/ Socket!Deadline(c)
    PROVE  ClientOK(c)'
<1>1. ClientOK(c)
  BY DEF HandlerInv
<1>2. req[c].decodes \in BOOLEAN
  BY RequestsDecode DEF SocketType, ClientType
<1> USE DEF Socket!HandlerAt, Socket!Does, Socket!handlerVars, Socket!clientVars, SocketType,
            HandlerType, ClientType, ClientOK,
            EffectsSoFar, AnswerTrue, NotDialled, Socket!SocketAssumption
<1>3. CASE Socket!Accept(c)
  BY <1>1, <1>3 DEF Socket!Accept
<1>4. CASE Socket!Decode(c)
  BY <1>1, <1>2, <1>4 DEF Socket!Decode
<1>5. CASE Socket!Store(c)
  <2>1. done[c] = {} /\ req[c].decodes /\ answer[c] = Nil
    BY <1>1, <1>5 DEF Socket!Store
  <2>2. done'[c] = CachePart(req[c])
    BY <1>5, <2>1 DEF Socket!Store, CachePart
  <2> QED
    BY <1>1, <1>5, <2>1, <2>2 DEF Socket!Store
<1>6. CASE Socket!BroadcastClients(c)
  BY <1>1, <1>6 DEF Socket!BroadcastClients
<1>7. CASE Socket!BroadcastStreams(c)
  BY <1>1, <1>7 DEF Socket!BroadcastStreams, CachePart, Socket!Effects
<1>8. CASE Socket!WriteUDSResponse(c)
  BY <1>1, <1>8 DEF Socket!WriteUDSResponse
<1>9. CASE Socket!Deadline(c)
  BY <1>1, <1>9 DEF Socket!Deadline
<1> QED
  BY <1>3, <1>4, <1>5, <1>6, <1>7, <1>8, <1>9 DEF Socket!Handler

(* The trigger command reports what it was answered.                       *)
LEMMA ClientKeeps ==
    ASSUME Socket!SocketAssumption, SocketType, HandlerInv, NEW c \in Clients, Socket!Client(c)
    PROVE  ClientOK(c)'
<1>1. ClientOK(c)
  BY DEF HandlerInv
<1> USE DEF Socket!HandlerAt, Socket!ClientAt, Socket!Reports, Socket!handlerVars, Socket!clientVars,
            SocketType, HandlerType, ClientType,
            ClientOK, EffectsSoFar, AnswerTrue, NotDialled, Socket!SocketAssumption
<1>2. CASE Socket!Dial(c)
  BY <1>1, <1>2 DEF Socket!Dial
<1>3. CASE Socket!Encode(c)
  BY <1>1, <1>3 DEF Socket!Encode
<1>4. CASE Socket!ReadResponse(c)
  BY <1>1, <1>4 DEF Socket!ReadResponse
<1> QED
  BY <1>2, <1>3, <1>4 DEF Socket!Client

(* A daemon that closes or dies ends handlers, and answers nobody.         *)
LEMMA DaemonKeeps ==
    ASSUME Socket!SocketAssumption, SocketType, HandlerInv, NEW d \in Daemons,
           Socket!DaemonStarts(d) \/ Socket!DaemonStops(d) \/ Socket!Cancel(d) \/ Socket!End(d), NEW c \in Clients
    PROVE  ClientOK(c)'
<1>1. ClientOK(c)
  BY DEF HandlerInv
<1>2. /\ done'[c] = done[c] /\ answer'[c] = answer[c] /\ cpc'[c] = cpc[c] /\ conn'[c] = conn[c]
      /\ req'[c] = req[c] /\ result'[c] = result[c]
      /\ hpc'[c] = hpc[c] \/ (conn[c] = d /\ hpc'[c] = "closed")
  BY DaemonFrame DEF Socket!clientVars
<1> QED
  BY <1>1, <1>2 DEF ClientOK, EffectsSoFar, AnswerTrue, NotDialled, Socket!SocketAssumption

(* Every step keeps effects and answers together.                          *)
LEMMA HandlerStep == Socket!SocketAssumption /\ SocketType /\ HandlerInv /\ [Socket!Next]_(Socket!vars) => HandlerInv'
<1> SUFFICES ASSUME Socket!SocketAssumption, SocketType, HandlerInv, [Socket!Next]_(Socket!vars)
             PROVE HandlerInv'
  OBVIOUS
<1>1. CASE UNCHANGED <<Socket!handlerVars, Socket!clientVars>>
  BY <1>1 DEF Socket!handlerVars, Socket!clientVars, HandlerInv, ClientOK, EffectsSoFar, AnswerTrue,
              NotDialled
<1>2. ASSUME NEW d \in Daemons, Socket!DaemonStarts(d) \/ Socket!DaemonStops(d) \/ Socket!Cancel(d)
               \/ Socket!End(d)
      PROVE  HandlerInv'
  BY <1>2, DaemonKeeps DEF HandlerInv
<1>3. ASSUME NEW c \in Clients, Socket!Handler(c) \/ Socket!Deadline(c) \/ Socket!Client(c)
      PROVE HandlerInv'
  BY <1>3, OthersKept, AnswerKeeps, ClientKeeps DEF HandlerInv
<1> QED
  BY <1>1, <1>2, <1>3 DEF Socket!Next, Socket!Peer, Socket!vars

(* A reported answer is true, whatever daemons and clients do.             *)
LEMMA AnswersAreTrueAlone ==
    ASSUME Socket!SocketAssumption
    PROVE  Socket!Init /\ [][Socket!Next]_(Socket!vars) => []Socket!AnswersAreTrue
<1>1. Socket!Init => SocketType /\ HandlerInv
  BY TypeInitially, HandlerInitially
<1>2. SocketType /\ HandlerInv /\ [Socket!Next]_(Socket!vars) => SocketType' /\ HandlerInv'
  BY TypeStep, HandlerStep
<1>3. HandlerInv => Socket!AnswersAreTrue
  BY DEF HandlerInv, ClientOK, AnswerTrue, Socket!AnswersAreTrue
<1> QED
  BY <1>1, <1>2, <1>3, PTL

--------------------------------------------------------------------------------
(* InboundCommands                                                         *)

Callers == Inbound!Callers
Outcomes == {Nil, "pong", "success", "error"}
Busy == {"lock", "send", "wait", "respond"}

\* A caller's n-th request, as the desktop is asked for it.
Message(c, n) == [by |-> c, n |-> n]

Records == [n : Nat, status : Outcomes, late : BOOLEAN]

InboundType ==
    /\ inbox \in [Callers -> Seq(Inbound!Requests)] /\ asked \in [Callers -> Seq(Inbound!Requests)]
    /\ ipc \in [Callers -> Busy \cup {"read", "gone"}]
    /\ outcome \in [Callers -> Outcomes]
    /\ replies \in [Callers -> Seq(Records)]
    /\ posted \subseteq [by : Callers, n : Nat] /\ performed \subseteq [by : Callers, n : Nat]
    /\ posted \cap performed = {} /\ unheard \subseteq performed

\* What an error must not be said of before the deadline.
Undenied == (performed \ unheard) \cup posted

\* Only what was asked is on its way or done.
SentWasAsked(c) ==
    /\ ipc[c] \in Busy => Len(asked[c]) > 0
    /\ \A n \in Nat : Message(c, n) \in posted \cup performed => n <= Len(asked[c])

\* What the handler under way knows of its request.
HandlerKnows(c) ==
    LET this == Message(c, Len(asked[c])) IN
    /\ ipc[c] \in {"lock", "send"} => this \notin posted \cup performed
    /\ ipc[c] = "wait" \/ (ipc[c] = "respond" /\ asked[c][Len(asked[c])].kind # "action") =>
          (outcome[c] = "success" => this \in performed)
    /\ ipc[c] = "wait" /\ outcome[c] = "error" => this \notin Undenied
    /\ ipc[c] = "respond" /\ outcome[c] = "error" /\ this \in Undenied =>
          c \in expired \/ asked[c][Len(asked[c])].kind = "action"

\* Replies come in order, and while a handler is under way none is its own.
InSequence(c) ==
    /\ \A i \in 1..Len(replies[c]) :
          replies[c][i].n \in 1..Len(asked[c]) /\ (ipc[c] \in Busy => replies[c][i].n < Len(asked[c]))
    /\ \A i, j \in 1..Len(replies[c]) : i < j => replies[c][i].n < replies[c][j].n

\* Who is still there has a reply to whatever has one, but for what is
\* under way.
Complete(c) ==
    c \in alive => \A n \in 1..Len(asked[c]) :
        (\E i \in 1..Len(replies[c]) : replies[c][i].n = n) <=>
            Inbound!Answered(c, asked[c][n]) /\ (ipc[c] \in Busy => n # Len(asked[c]))

\* RepliesAreTrue, of one reply.
TrueReply(c, reply) ==
    asked[c][reply.n].kind # "action" =>
        /\ reply.status = "success" => Message(c, reply.n) \in performed
        /\ reply.status = "error" /\ Message(c, reply.n) \in Undenied => reply.late

TrueReplies(c) == \A i \in 1..Len(replies[c]) : TrueReply(c, replies[c][i])

CallerInv(c) == SentWasAsked(c) /\ HandlerKnows(c) /\ InSequence(c) /\ Complete(c) /\ TrueReplies(c)

InboundInv == InboundType /\ \A c \in Callers : CallerInv(c)

(* A message is its caller and number.                                     *)
LEMMA MessageIs ==
    /\ \A c, d, m, n : Message(c, m) = Message(d, n) <=> c = d /\ m = n
    /\ \A m \in [by : Callers, n : Nat] : m = Message(m.by, m.n)
    /\ \A c \in Callers, n \in Nat : Message(c, n) \in [by : Callers, n : Nat]
BY DEF Message

(* A caller whose own things a step leaves alone keeps its part.           *)
LEMMA OthersUntouched ==
    ASSUME NEW d \in Callers, CallerInv(d),
           ipc'[d] = ipc[d], outcome'[d] = outcome[d], asked'[d] = asked[d], replies'[d] = replies[d],
           d \in expired' <=> d \in expired, d \in alive' => d \in alive,
           \A n : Message(d, n) \in posted' <=> Message(d, n) \in posted,
           \A n : Message(d, n) \in performed' <=> Message(d, n) \in performed,
           \A n : Message(d, n) \in unheard' <=> Message(d, n) \in unheard
    PROVE  CallerInv(d)'
<1>1. SentWasAsked(d)'
      BY DEF CallerInv, SentWasAsked
<1>2. HandlerKnows(d)'
      BY DEF CallerInv, HandlerKnows, Undenied
<1>3. InSequence(d)'
      BY DEF CallerInv, InSequence
<1>4. Complete(d)'
      BY DEF CallerInv, Complete, Inbound!Answered
<1>5. TrueReplies(d)'
      BY DEF CallerInv, TrueReplies, TrueReply, Undenied
<1> QED
    BY <1>1, <1>2, <1>3, <1>4, <1>5 DEF CallerInv

\* A request is read, and its handler starts at step with tells to report.
Begins(c, step, tells) ==
    /\ ipc[c] = "read" /\ inbox[c] # <<>>
    /\ inbox' = [inbox EXCEPT ![c] = Tail(inbox[c])]
    /\ asked' = [asked EXCEPT ![c] = Append(asked[c], Head(inbox[c]))]
    /\ expired' = expired \ {c}
    /\ ipc' = [ipc EXCEPT ![c] = step] /\ outcome' = [outcome EXCEPT ![c] = tells]
    /\ UNCHANGED <<alive, mu, posted, performed, unheard, replies>>

(* The read loop and the RPCs: what goes unanswered is not to be answered, *)
(* and what is a success without the desktop is an action.                 *)
LEMMA ReadsBegin ==
    ASSUME Inbound!InboundAssumption, NEW c \in Callers, Inbound!Reads(c), ~Inbound!LoopEnds(c)
    PROVE  \E step \in {"read", "lock", "send", "respond"}, tells \in Outcomes :
              /\ Begins(c, step, tells)
              /\ step = "read" => ~Inbound!Answered(c, Head(inbox[c]))
              /\ step = "respond" => tells # "success" \/ Head(inbox[c]).kind = "action"
<1> DEFINE r == Head(inbox[c])
           Goal == \E step \in {"read", "lock", "send", "respond"}, tells \in Outcomes :
                      /\ Begins(c, step, tells)
                      /\ step = "read" => ~Inbound!Answered(c, r)
                      /\ step = "respond" => tells # "success" \/ r.kind = "action"
<1>1. ASSUME NEW kind, Inbound!Takes(c, kind), NEW step \in {"lock", "send", "respond"}, NEW tells \in Outcomes,
             Inbound!Goto(c, step, tells), step = "respond" => tells # "success" \/ kind = "action"
      PROVE  Goal
      <2>1. Begins(c, step, tells) /\ r.kind = kind
            BY <1>1 DEF Inbound!Takes, Inbound!Goto, Inbound!carriedOut, Begins
      <2> QED
          BY <1>1, <2>1
<1>2. Nil \in Outcomes /\ "pong" \in Outcomes /\ "success" \in Outcomes /\ "error" \in Outcomes
      BY DEF Outcomes
<1>3. Nil # "success" /\ "pong" # "success" /\ "error" # "success"
      BY DEF Inbound!InboundAssumption
<1>4. ASSUME c \in Clients, Inbound!SkippedFrame(c)
      PROVE  Goal
      <2>1. PICK kind \in {"garbled", "unknown"} : Inbound!Takes(c, kind) /\ Inbound!Goto(c, "read", Nil)
            BY <1>4 DEF Inbound!SkippedFrame
      <2>2. Begins(c, "read", Nil) /\ r.kind = kind
            BY <2>1 DEF Inbound!Takes, Inbound!Goto, Inbound!carriedOut, Begins
      <2>3. ~Inbound!Answered(c, r)
            BY <1>4, <2>1, <2>2 DEF Inbound!Answered
      <2> QED
          BY <1>2, <2>2, <2>3
<1>5. ASSUME NEW kind, Inbound!Takes(c, kind)
      PROVE  /\ Inbound!Goto(c, "lock", Nil) => Goal
             /\ Inbound!Goto(c, "send", Nil) => Goal
             /\ Inbound!Goto(c, "respond", "pong") => Goal
             /\ Inbound!Goto(c, "respond", "error") => Goal
             /\ Inbound!Goto(c, "respond", "success") /\ kind = "action" => Goal
      BY <1>1, <1>2, <1>3, <1>5
<1> HIDE DEF Goal
<1>6. (Inbound!PingFrame(c) \/ Inbound!Unimplemented(c)) => Goal
      BY <1>5, Zenon DEF Inbound!PingFrame, Inbound!Unimplemented
<1>7. (Inbound!ActionFrame(c) \/ Inbound!ExecuteSystemAction(c)) => Goal
      BY <1>5, Zenon DEF Inbound!ActionFrame, Inbound!ExecuteSystemAction, Inbound!HandleAction
<1>8. (Inbound!NotificationFrame(c) \/ Inbound!SendNotification(c)) => Goal
      BY <1>5, Zenon DEF Inbound!NotificationFrame, Inbound!SendNotification,
                          Inbound!HandleNotificationCommand
<1>9. (Inbound!MediaFrame(c) \/ Inbound!SendMediaCommand(c)) => Goal
      BY <1>5, Zenon DEF Inbound!MediaFrame, Inbound!SendMediaCommand, Inbound!HandleMediaCommand
<1>10. (Inbound!ProfileFrame(c) \/ Inbound!SetPowerProfile(c)) => Goal
      BY <1>5, Zenon DEF Inbound!ProfileFrame, Inbound!SetPowerProfile,
                          Inbound!HandlePowerProfileCommand
<1>11. Goal
      BY <1>4, <1>6, <1>7, <1>8, <1>9, <1>10, Zenon DEF Inbound!Reads, Inbound!ReadFrame, Inbound!ReadCall
<1> QED
    BY <1>11 DEF Goal

(* Reading a request: nothing is known of it yet, and nothing sent.        *)
LEMMA BeginsKeeps ==
    ASSUME Inbound!InboundAssumption, InboundInv, NEW c \in Callers,
           NEW step \in {"read", "lock", "send", "respond"}, NEW out1 \in Outcomes, Begins(c, step, out1),
           step = "read" => ~Inbound!Answered(c, Head(inbox[c])),
           step = "respond" => out1 # "success" \/ Head(inbox[c]).kind = "action"
    PROVE  InboundInv'
<1> DEFINE r == Head(inbox[c])
           n == Len(asked[c])
<1>1. InboundType /\ CallerInv(c)
      BY DEF InboundInv
<1>2. /\ inbox[c] \in Seq(Inbound!Requests) /\ inbox[c] # <<>> /\ asked[c] \in Seq(Inbound!Requests) /\ n \in Nat
      /\ ipc[c] = "read"
      BY <1>1 DEF InboundType, Begins
<1>3. r \in Inbound!Requests /\ Tail(inbox[c]) \in Seq(Inbound!Requests)
      BY <1>2
<1>4. /\ asked'[c] = Append(asked[c], r) /\ ipc'[c] = step /\ outcome'[c] = out1
      /\ \A d \in Callers \ {c} : asked'[d] = asked[d] /\ ipc'[d] = ipc[d] /\ outcome'[d] = outcome[d]
      /\ expired' = expired \ {c} /\ UNCHANGED <<alive, posted, performed, unheard, replies>>
      BY <1>1 DEF InboundType, Begins
<1>5. /\ asked'[c] \in Seq(Inbound!Requests) /\ Len(asked'[c]) = n + 1 /\ asked'[c][n + 1] = r
      /\ \A i \in 1..n : asked'[c][i] = asked[c][i]
      <2> HIDE DEF r
      <2> QED
          BY <1>2, <1>3, <1>4
<1>6. InboundType'
      <2>1. inbox' \in [Callers -> Seq(Inbound!Requests)] /\ asked' \in [Callers -> Seq(Inbound!Requests)]
            BY <1>1, <1>3, <1>4, <1>5 DEF InboundType, Begins
      <2>2. ipc' \in [Callers -> Busy \cup {"read", "gone"}] /\ outcome' \in [Callers -> Outcomes]
            BY <1>1 DEF InboundType, Begins, Busy
      <2> QED
          BY <1>1, <1>4, <2>1, <2>2 DEF InboundType
<1> HIDE DEF r, n
<1>7. ASSUME NEW d \in Callers \ {c}
      PROVE  CallerInv(d)'
      BY <1>4, OthersUntouched DEF InboundInv
<1>8. \A m \in Nat : Message(c, m) \in posted \cup performed => m <= n
      BY <1>1 DEF CallerInv, SentWasAsked, n
<1>9. Message(c, n + 1) \notin posted' \cup performed'
      <2>1. n + 1 \in Nat /\ ~(n + 1 <= n)
            BY <1>2
      <2>2. Message(c, n + 1) \notin posted \cup performed
            BY <1>8, <2>1, Zenon
      <2> QED
          BY <1>4, <2>2
<1>10. SentWasAsked(c)'
      <2>1. \A m \in Nat : Message(c, m) \in posted \cup performed => m <= n + 1
            BY <1>2, <1>8
      <2> QED
          BY <1>2, <1>4, <1>5, <2>1 DEF SentWasAsked
<1>11. HandlerKnows(c)'
      BY <1>4, <1>5, <1>9 DEF HandlerKnows, r, Undenied
<1>12. \A i \in 1..Len(replies[c]) : replies[c][i].n \in 1..n
      BY <1>1 DEF CallerInv, InSequence, n
<1>13. InSequence(c)'
      <2>1. \A i \in 1..Len(replies[c]) : replies[c][i].n \in 1..(n + 1) /\ replies[c][i].n < n + 1
            BY <1>2, <1>12
      <2> QED
          BY <1>1, <1>4, <1>5, <2>1 DEF CallerInv, InSequence
<1>14. Complete(c)'
      <2> SUFFICES ASSUME c \in alive, NEW m \in 1..(n + 1)
                   PROVE  (\E i \in 1..Len(replies[c]) : replies[c][i].n = m) <=>
                             Inbound!Answered(c, asked'[c][m]) /\ (step \in Busy => m # n + 1)
          BY <1>4, <1>5 DEF Complete, Inbound!Answered
      <2>1. CASE m = n + 1
            <3>1. ~(\E i \in 1..Len(replies[c]) : replies[c][i].n = m)
                  BY <1>2, <1>12, <2>1
            <3>2. step = "read" => ~Inbound!Answered(c, asked'[c][m])
                  BY <1>5, <2>1 DEF r
            <3>3. step # "read" => step \in Busy
                  BY DEF Busy
            <3> QED
                BY <2>1, <3>1, <3>2, <3>3
      <2>2. CASE m \in 1..n
            <3>1. m # n + 1
                  BY <1>2, <2>2
            <3>2. (\E i \in 1..Len(replies[c]) : replies[c][i].n = m) <=> Inbound!Answered(c, asked[c][m])
                  BY <1>1, <1>2, <2>2 DEF CallerInv, Complete, Busy, n
            <3>3. asked'[c][m] = asked[c][m]
                  BY <1>5, <2>2
            <3> QED
                BY <3>1, <3>2, <3>3
      <2> QED
          BY <1>2, <2>1, <2>2
<1>15. TrueReplies(c)'
      BY <1>1, <1>4, <1>5, <1>12 DEF CallerInv, TrueReplies, TrueReply, Undenied
<1>16. CallerInv(c)'
      BY <1>10, <1>11, <1>13, <1>14, <1>15 DEF CallerInv
<1> QED
    BY <1>6, <1>7, <1>16 DEF InboundInv

(* A handler up to its reply: it sends its request at most once, and takes *)
(* the outcome along that the desktop gave it, or an error.                *)
LEMMA HandlerKeeps ==
    ASSUME Inbound!InboundAssumption, InboundInv, NEW c \in Callers,
           Inbound!Lock(c) \/ Inbound!Send(c) \/ Inbound!Return(c) \/ Inbound!TimeOut(c)
    PROVE  InboundInv'
<1> DEFINE n == Len(asked[c])
<1>1. InboundType /\ CallerInv(c)
      BY DEF InboundInv
<1>2. n \in Nat /\ posted \subseteq [by : Callers, n : Nat] /\ ipc \in [Callers -> Busy \cup {"read", "gone"}]
      BY <1>1 DEF InboundType
<1>3. UNCHANGED <<inbox, alive, asked, expired, performed, unheard, replies>>
      BY DEF Inbound!Lock, Inbound!Send, Inbound!Return, Inbound!TimeOut, Inbound!callerVars, Inbound!carriedOut
<1>4. \E step \in {"send", "wait", "respond"} : ipc' = [ipc EXCEPT ![c] = step]
      BY DEF Inbound!Lock, Inbound!Send, Inbound!Return, Inbound!TimeOut, Inbound!Goto
<1>5. outcome' = outcome \/ \E out1 \in Outcomes : outcome' = [outcome EXCEPT ![c] = out1]
      BY <1>1 DEF Inbound!Lock, Inbound!Send, Inbound!Return, Inbound!TimeOut, Inbound!Goto, InboundType, Outcomes
<1>6. posted' = posted \/ (ipc[c] = "send" /\ posted' = posted \cup {Message(c, n)})
      BY DEF Inbound!Lock, Inbound!Send, Inbound!Return, Inbound!TimeOut, Message
<1>7. ipc[c] \in Busy /\ ipc'[c] \in Busy /\ \A d \in Callers \ {c} : ipc'[d] = ipc[d] /\ outcome'[d] = outcome[d]
      <2>1. ipc[c] \in Busy
            BY DEF Inbound!Lock, Inbound!Send, Inbound!Return, Inbound!TimeOut, Busy
      <2> QED
          BY <1>1, <1>4, <1>5, <2>1 DEF Busy, InboundType
<1> HIDE DEF n
<1>8. ipc[c] = "send" => Message(c, n) \notin posted \cup performed
      BY <1>1 DEF CallerInv, HandlerKnows, n, Undenied
<1>9. InboundType'
      <2>1. ipc' \in [Callers -> Busy \cup {"read", "gone"}] /\ outcome' \in [Callers -> Outcomes]
            BY <1>1, <1>4, <1>5 DEF InboundType, Busy
      <2>2. posted' \subseteq [by : Callers, n : Nat]
            BY <1>2, <1>6, MessageIs
      <2>3. posted' \cap performed = {}
            BY <1>1, <1>6, <1>8 DEF InboundType
      <2> QED
          BY <1>1, <1>3, <2>1, <2>2, <2>3 DEF InboundType
<1>10. ASSUME NEW d \in Callers \ {c}
      PROVE  CallerInv(d)'
      <2>1. \A m : Message(d, m) \in posted' <=> Message(d, m) \in posted
            BY <1>6, MessageIs
      <2> QED
          BY <1>3, <1>7, <2>1, OthersUntouched DEF InboundInv
<1>11. SentWasAsked(c)'
      <2>1. \A m \in Nat : Message(c, m) \in posted' \cup performed => m <= n
            BY <1>1, <1>2, <1>6, MessageIs DEF CallerInv, SentWasAsked, n
      <2> QED
          BY <1>1, <1>3, <1>7, <2>1 DEF CallerInv, SentWasAsked, n
<1>12. HandlerKnows(c)'
      <2> DEFINE this == Message(c, n)
                 kind == asked[c][Len(asked[c])].kind
      <2>1. CASE Inbound!Lock(c)
            <3>1. ipc[c] = "lock" /\ ipc'[c] = "send" /\ posted' = posted
                  BY <1>2, <2>1 DEF Inbound!Lock
            <3> QED
                BY <1>1, <1>3, <3>1 DEF CallerInv, HandlerKnows, Undenied
      <2>2. CASE Inbound!Send(c)
            <3>1. CASE c \in expired
                  <4>1. ipc'[c] = "respond" /\ outcome'[c] = "error"
                        BY <1>1, <2>2, <3>1 DEF Inbound!Send, Inbound!Goto, InboundType
                  <4> QED
                      BY <1>3, <3>1, <4>1 DEF HandlerKnows, Undenied
            <3>2. CASE c \notin expired
                  <4>1. ipc'[c] = "wait" /\ outcome'[c] = Nil
                        BY <1>1, <2>2, <3>2 DEF Inbound!Send, Inbound!Goto, InboundType
                  <4>2. Nil # "success" /\ Nil # "error"
                        BY DEF Inbound!InboundAssumption
                  <4> QED
                      BY <4>1, <4>2 DEF HandlerKnows, Undenied
            <3> QED
                BY <3>1, <3>2
      <2>3. CASE Inbound!Return(c)
            <3>1. /\ ipc[c] = "wait" /\ ipc'[c] = "respond" /\ posted' = posted
                  /\ outcome'[c] = IF kind = "action" THEN "success" ELSE outcome[c]
                  BY <1>1, <2>3 DEF Inbound!Return, Inbound!Goto, Inbound!Current, InboundType
            <3> QED
                BY <1>1, <1>3, <3>1 DEF CallerInv, HandlerKnows, Undenied
      <2>4. CASE Inbound!TimeOut(c)
            <3>1. c \in expired /\ ipc'[c] = "respond" /\ outcome'[c] = "error"
                  BY <1>1, <2>4 DEF Inbound!TimeOut, Inbound!Goto, InboundType
            <3> QED
                BY <1>3, <3>1 DEF HandlerKnows, Undenied
      <2> QED
          BY <2>1, <2>2, <2>3, <2>4
<1>13. InSequence(c)' /\ Complete(c)'
      BY <1>1, <1>3, <1>7 DEF CallerInv, InSequence, Complete, Inbound!Answered
<1>14. TrueReplies(c)'
      <2>1. \A i \in 1..Len(replies[c]) : replies[c][i].n # n
            BY <1>1, <1>2, <1>7 DEF CallerInv, InSequence, n
      <2>2. \A i \in 1..Len(replies[c]) :
                Message(c, replies[c][i].n) \in posted' => Message(c, replies[c][i].n) \in posted
            BY <1>6, <2>1, MessageIs
      <2> QED
          BY <1>1, <1>3, <2>2 DEF CallerInv, TrueReplies, TrueReply, Undenied
<1>15. CallerInv(c)'
      BY <1>11, <1>12, <1>13, <1>14 DEF CallerInv
<1> QED
    BY <1>9, <1>10, <1>15 DEF InboundInv

(* The reply: the last in the sequence, true by what the handler knows.    *)
LEMMA RespondKeeps ==
    ASSUME Inbound!InboundAssumption, InboundInv, NEW c \in Callers, Inbound!Respond(c)
    PROVE  InboundInv'
<1> DEFINE n == Len(asked[c])
           reply == [n |-> n, status |-> outcome[c], late |-> c \in expired]
           q == replies[c]
           Due == c \in alive /\ Inbound!Answered(c, asked[c][n])
<1>1. InboundType /\ CallerInv(c)
      BY DEF InboundInv
<1>2. /\ n \in Nat /\ q \in Seq(Records)
      /\ reply \in Records
      <2>1. n \in Nat /\ q \in Seq(Records) /\ outcome[c] \in Outcomes
            BY <1>1 DEF InboundType
      <2>2. (c \in expired) \in BOOLEAN
            OBVIOUS
      <2>3. \A k \in Nat, o \in Outcomes, l \in BOOLEAN : [n |-> k, status |-> o, late |-> l] \in Records
            BY DEF Records
      <2> HIDE DEF n
      <2> QED
          BY <2>1, <2>2, <2>3, Zenon
<1>3. ipc[c] = "respond" /\ n > 0
      BY <1>1 DEF Inbound!Respond, CallerInv, SentWasAsked, Busy
<1>4. /\ UNCHANGED <<inbox, alive, asked, expired, posted, performed, unheard>>
      /\ ipc' = [ipc EXCEPT ![c] = "read"] /\ outcome' = [outcome EXCEPT ![c] = Nil]
      BY DEF Inbound!Respond, Inbound!Goto, Inbound!callerVars, Inbound!carriedOut
<1>5. replies' = IF Due THEN [replies EXCEPT ![c] = Append(q, reply)] ELSE replies
      BY DEF Inbound!Respond, Inbound!Current
<1>6. reply.n = n /\ reply.status = outcome[c] /\ (reply.late <=> c \in expired)
      OBVIOUS
<1> HIDE DEF reply
<1>7. Append(q, reply) \in Seq(Records)
      BY <1>2
<1>8. InboundType'
      <2>1. ipc' \in [Callers -> Busy \cup {"read", "gone"}] /\ outcome' \in [Callers -> Outcomes]
            BY <1>1, <1>4 DEF InboundType, Outcomes
      <2>2. replies' \in [Callers -> Seq(Records)]
            BY <1>1, <1>5, <1>7 DEF InboundType
      <2> QED
          BY <1>1, <1>4, <2>1, <2>2 DEF InboundType
<1>9. ASSUME NEW d \in Callers \ {c}
      PROVE  CallerInv(d)'
      <2>1. ipc'[d] = ipc[d] /\ outcome'[d] = outcome[d] /\ replies'[d] = replies[d]
            BY <1>1, <1>4, <1>5 DEF InboundType
      <2> QED
          BY <1>4, <2>1, OthersUntouched DEF InboundInv
<1>10. ipc'[c] = "read" /\ "read" \notin Busy
      BY <1>1, <1>4 DEF InboundType, Busy
<1>11. /\ \A i \in 1..Len(q) : q[i].n \in 1..n /\ q[i].n < n
       /\ \A i, j \in 1..Len(q) : i < j => q[i].n < q[j].n
       /\ c \in alive => \A m \in 1..n :
              (\E i \in 1..Len(q) : q[i].n = m) <=> Inbound!Answered(c, asked[c][m]) /\ m # n
       /\ \A i \in 1..Len(q) : TrueReply(c, q[i])
      BY <1>1, <1>3 DEF CallerInv, InSequence, Complete, TrueReplies, Busy
<1>12. TrueReply(c, reply)
      BY <1>1, <1>3, <1>6 DEF CallerInv, HandlerKnows, TrueReply, Undenied
<1>13. SentWasAsked(c)' /\ HandlerKnows(c)'
      BY <1>1, <1>4, <1>10 DEF CallerInv, SentWasAsked, HandlerKnows, Undenied
<1>14. CASE Due
      <2> DEFINE s == Append(q, reply)
      <2>1. replies'[c] = s
            BY <1>1, <1>5, <1>14 DEF InboundType
      <2>2. /\ Len(s) = Len(q) + 1 /\ Len(q) \in Nat /\ s[Len(q) + 1] = reply
            /\ \A i \in 1..Len(q) : s[i] = q[i]
            BY <1>2
      <2> HIDE DEF s, q, n
      <2>3. \A i \in 1..Len(s) : i \in 1..Len(q) \/ i = Len(q) + 1
            BY <2>2
      <2>4. n \in 1..n
            BY <1>2, <1>3
      <2>5. \A i \in 1..Len(s) : s[i].n \in 1..n
            BY <1>6, <1>11, <2>2, <2>3, <2>4
      <2>6. ASSUME NEW i \in 1..Len(s), NEW j \in 1..Len(s), i < j
            PROVE  s[i].n < s[j].n
            <3>1. i \in 1..Len(q)
                  BY <2>2, <2>3, <2>6
            <3>2. CASE j \in 1..Len(q)
                  BY <1>11, <2>2, <2>6, <3>1, <3>2
            <3>3. CASE j = Len(q) + 1
                  BY <1>6, <1>11, <2>2, <3>1, <3>3
            <3> QED
                BY <2>3, <3>2, <3>3
      <2>7. InSequence(c)'
            BY <1>4, <1>10, <2>1, <2>5, <2>6 DEF InSequence, n
      <2>8. ASSUME NEW m \in 1..n
            PROVE  (\E i \in 1..Len(s) : s[i].n = m) <=> Inbound!Answered(c, asked[c][m])
            <3>1. CASE m = n
                  <4>1. Len(q) + 1 \in 1..Len(s) /\ s[Len(q) + 1].n = m
                        BY <1>6, <2>2, <3>1
                  <4> QED
                      BY <1>14, <3>1, <4>1
            <3>2. CASE m # n
                  <4>1. (\E i \in 1..Len(s) : s[i].n = m) <=> (\E i \in 1..Len(q) : q[i].n = m)
                        <5>1. \A i \in 1..Len(q) : i \in 1..Len(s)
                              BY <2>2
                        <5> QED
                            BY <1>6, <2>2, <2>3, <3>2, <5>1
                  <4> QED
                      BY <1>11, <1>14, <3>2, <4>1
            <3> QED
                BY <3>1, <3>2
      <2>9. Complete(c)'
            BY <1>4, <1>10, <2>1, <2>8 DEF Complete, Inbound!Answered, n
      <2>10. \A i \in 1..Len(s) : TrueReply(c, s[i])
            BY <1>11, <1>12, <2>2, <2>3
      <2>11. TrueReplies(c)'
            BY <1>4, <2>1, <2>10 DEF TrueReplies, TrueReply, Undenied
      <2> QED
          BY <1>8, <1>9, <1>13, <2>7, <2>9, <2>11 DEF InboundInv, CallerInv
<1>15. CASE ~Due
      <2>1. replies' = replies
            BY <1>5, <1>15
      <2>2. InSequence(c)' /\ TrueReplies(c)'
            BY <1>4, <1>10, <1>11, <2>1 DEF InSequence, TrueReplies, TrueReply, Undenied
      <2>3. Complete(c)'
            BY <1>4, <1>10, <1>11, <1>15, <2>1 DEF Complete, Inbound!Answered
      <2> QED
          BY <1>8, <1>9, <1>13, <2>2, <2>3 DEF InboundInv, CallerInv
<1> QED
    BY <1>14, <1>15

(* The desktop carries a request out or refuses it, at any time.           *)
LEMMA DesktopKeeps ==
    ASSUME Inbound!InboundAssumption, InboundInv, NEW m \in posted, Inbound!Perform(m) \/ Inbound!BreakOff(m) \/ Inbound!Refuse(m)
    PROVE  InboundInv'
<1>1. InboundType /\ m \in [by : Callers, n : Nat] /\ m = Message(m.by, m.n) /\ m.by \in Callers
      BY MessageIs DEF InboundInv, InboundType
<1>2. /\ UNCHANGED <<inbox, alive, asked, ipc, expired, replies>> /\ posted' = posted \ {m}
      /\ \/ performed' = performed \cup {m} /\ unheard' = unheard /\ Inbound!Answer(m, "success")
         \/ performed' = performed \cup {m} /\ unheard' = unheard \cup {m} /\ Inbound!Answer(m, "error")
         \/ performed' = performed /\ unheard' = unheard /\ Inbound!Answer(m, "error")
      BY DEF Inbound!Perform, Inbound!BreakOff, Inbound!Refuse, Inbound!callerVars, Inbound!carriedOut
<1>3. /\ performed \subseteq performed' /\ posted' \cup performed' \subseteq posted \cup performed
      /\ posted' \cap performed' = {} /\ unheard' \subseteq performed' /\ Undenied' \subseteq Undenied
      BY <1>1, <1>2 DEF InboundType, Undenied
<1>4. outcome' \in [Callers -> Outcomes]
      BY <1>1, <1>2 DEF InboundType, Inbound!Answer, Outcomes
<1>5. InboundType'
      BY <1>1, <1>2, <1>3, <1>4 DEF InboundType
<1>6. ASSUME NEW d \in Callers
      PROVE  CallerInv(d)'
      <2> DEFINE this == Message(d, Len(asked[d]))
      <2>1. CallerInv(d)
            BY DEF InboundInv
      <2>2. SentWasAsked(d)' /\ InSequence(d)' /\ Complete(d)'
            BY <1>2, <1>3, <2>1 DEF CallerInv, SentWasAsked, InSequence, Complete, Inbound!Answered
      <2>3. TrueReplies(d)'
            BY <1>2, <1>3, <2>1 DEF CallerInv, TrueReplies, TrueReply, Undenied
      <2>4. \/ outcome'[d] = outcome[d]
            \/ /\ ipc[d] = "wait" /\ m = this
               /\ \/ outcome'[d] = "success" /\ this \in performed'
                  \/ outcome'[d] = "error" /\ this \notin Undenied'
            <3>1. outcome' = outcome \/ (/\ ipc[m.by] = "wait" /\ Len(asked[m.by]) = m.n
                                         /\ \/ outcome' = [outcome EXCEPT ![m.by] = "success"] /\ m \in performed'
                                            \/ outcome' = [outcome EXCEPT ![m.by] = "error"]
                                               /\ (performed' = performed \/ m \in unheard'))
                  BY <1>2 DEF Inbound!Answer
            <3>2. (performed' = performed \/ m \in unheard') => m \notin Undenied'
                  BY <1>1, <1>2 DEF InboundType, Undenied
            <3>3. CASE d # m.by
                  BY <1>1, <3>1, <3>3 DEF InboundType
            <3>4. CASE d = m.by /\ Len(asked[d]) = m.n
                  BY <1>1, <3>1, <3>2, <3>4 DEF InboundType
            <3>5. CASE d = m.by /\ Len(asked[d]) # m.n
                  BY <3>1, <3>5
            <3> QED
                BY <3>3, <3>4, <3>5
      <2>5. HandlerKnows(d)'
            BY <1>2, <1>3, <2>1, <2>4 DEF CallerInv, HandlerKnows, Undenied
      <2> QED
          BY <2>2, <2>3, <2>5 DEF CallerInv
<1> QED
    BY <1>5, <1>6 DEF InboundInv

(* Every step of companions, handlers and desktop keeps the invariant.     *)
LEMMA InboundStep ==
    ASSUME Inbound!InboundAssumption, InboundInv, [Inbound!Next]_(Inbound!vars)
    PROVE  InboundInv'
<1>1. CASE UNCHANGED Inbound!vars \/ \E c \in Clients : Inbound!Leave(c)
      <2>1. UNCHANGED <<inbox, asked, ipc, expired, outcome, posted, performed, unheard, replies>> /\ alive' \subseteq alive
            BY <1>1 DEF Inbound!vars, Inbound!callerVars, Inbound!carriedOut, Inbound!Leave
      <2>2. InboundType'
            BY <2>1 DEF InboundInv, InboundType
      <2> QED
          BY <2>1, <2>2, OthersUntouched DEF InboundInv
<1>2. ASSUME NEW c \in Callers, Inbound!Expire(c)
      PROVE  InboundInv'
      <2>1. /\ UNCHANGED <<inbox, alive, asked, ipc, outcome, posted, performed, unheard, replies>>
            /\ expired' = expired \cup {c}
            BY <1>2 DEF Inbound!Expire, Inbound!callerVars, Inbound!carriedOut
      <2>2. InboundType'
            BY <2>1 DEF InboundInv, InboundType
      <2>3. ASSUME NEW d \in Callers
            PROVE  CallerInv(d)'
            BY <2>1 DEF InboundInv, CallerInv, SentWasAsked, HandlerKnows, InSequence, Complete, Inbound!Answered,
                        TrueReplies, TrueReply, Undenied
      <2> QED
          BY <2>2, <2>3 DEF InboundInv
<1>3. ASSUME NEW c \in Callers, Inbound!LoopEnds(c)
      PROVE  InboundInv'
      <2>1. /\ UNCHANGED <<inbox, alive, asked, outcome, expired, posted, performed, unheard, replies>>
            /\ ipc[c] = "read" /\ ipc' = [ipc EXCEPT ![c] = "gone"] /\ c \notin alive
            BY <1>3 DEF Inbound!LoopEnds, Inbound!callerVars, Inbound!carriedOut
      <2>2. ipc \in [Callers -> Busy \cup {"read", "gone"}]
            BY DEF InboundInv, InboundType
      <2>3. InboundType'
            BY <2>1 DEF InboundInv, InboundType
      <2>4. ASSUME NEW d \in Callers \ {c}
            PROVE  CallerInv(d)'
            BY <2>1, <2>2, OthersUntouched DEF InboundInv
      <2>5. ipc'[c] = "gone" /\ "gone" \notin Busy /\ "read" \notin Busy
            BY <2>1, <2>2 DEF Busy
      <2>6. CallerInv(c)
            BY DEF InboundInv
      <2>7. CallerInv(c)'
            BY <2>1, <2>5, <2>6 DEF CallerInv, SentWasAsked, HandlerKnows, InSequence, Complete, TrueReplies,
                                    TrueReply, Undenied
      <2> QED
          BY <2>3, <2>4, <2>7 DEF InboundInv
<1>4. ASSUME NEW c \in Callers, Inbound!Reads(c), ~Inbound!LoopEnds(c)
      PROVE  InboundInv'
      BY <1>4, ReadsBegin, BeginsKeeps
<1>5. ASSUME NEW c \in Callers, Inbound!Handles(c)
      PROVE  InboundInv'
      BY <1>5, HandlerKeeps, RespondKeeps DEF Inbound!Handles
<1> QED
    BY <1>1, <1>2, <1>3, <1>4, <1>5, DesktopKeeps DEF Inbound!Next, Callers

(* At the start nothing is asked and nothing sent.                         *)
LEMMA InboundInitially ==
    ASSUME Inbound!InboundAssumption, Inbound!Init
    PROVE  InboundInv
<1>1. PICK first \in [Clients -> Scripts], call \in [Calls -> RpcRequests] :
          inbox = [c \in Callers |-> IF c \in Clients THEN first[c] ELSE <<call[c]>>]
      BY DEF Inbound!Init, Callers
<1>2. \A s \in Scripts : s \in Seq(Inbound!Requests)
      <2> SUFFICES ASSUME NEW s \in Scripts
                   PROVE  s \in Seq(Inbound!Requests)
          OBVIOUS
      <2>1. s \in Seq(Inbound!Range(s)) /\ Inbound!Range(s) \subseteq Inbound!Requests
            BY DEF Inbound!InboundAssumption, Inbound!Requests
      <2> HIDE DEF Inbound!Range, Inbound!Requests
      <2> QED
          BY <2>1
<1>3. \A c \in Callers : inbox[c] \in Seq(Inbound!Requests)
      <2>1. \A c \in Calls : call[c] \in Inbound!Requests
            BY DEF Inbound!Requests
      <2> QED
          BY <1>1, <1>2, <2>1 DEF Callers, Inbound!Callers
<1>4. /\ asked = [c \in Callers |-> <<>>] /\ replies = [c \in Callers |-> <<>>]
      /\ ipc = [c \in Callers |-> "read"] /\ outcome = [c \in Callers |-> Nil]
      /\ posted = {} /\ performed = {} /\ unheard = {}
      BY DEF Inbound!Init, Callers
<1>5. InboundType
      BY <1>1, <1>3, <1>4 DEF InboundType, Outcomes
<1>6. ASSUME NEW c \in Callers
      PROVE  CallerInv(c)
      <2>1. asked[c] = <<>> /\ replies[c] = <<>> /\ ipc[c] = "read"
            BY <1>4
      <2> QED
          BY <1>4, <2>1 DEF CallerInv, SentWasAsked, HandlerKnows, InSequence, Complete, TrueReplies, Busy, Undenied
<1> QED
    BY <1>5, <1>6 DEF InboundInv

(* Every caller's replies are complete, in order and true.                 *)
LEMMA RequestsAnsweredAlone ==
    ASSUME Inbound!InboundAssumption
    PROVE  Inbound!Init /\ [][Inbound!Next]_(Inbound!vars) => []Inbound!RequestsAnswered
<1>1. Inbound!Init => InboundInv
      BY InboundInitially
<1>2. InboundInv /\ [Inbound!Next]_(Inbound!vars) => InboundInv'
      BY InboundStep
<1>3. InboundInv => Inbound!RequestsAnswered
      <2> SUFFICES ASSUME InboundInv
                   PROVE  Inbound!EachAnsweredOnce /\ Inbound!RepliesAreTrue
          BY DEF Inbound!RequestsAnswered
      <2>1. \A c \in Callers : DOMAIN replies[c] = 1..Len(replies[c]) /\ Len(asked[c]) \in Nat
            BY DEF InboundInv, InboundType
      <2>2. posted \subseteq [by : Callers, n : Nat] /\ performed \subseteq [by : Callers, n : Nat]
            BY DEF InboundInv, InboundType
      <2>3. ASSUME NEW c \in Callers, c \in alive, ipc[c] = "read"
            PROVE  /\ \A i, j \in DOMAIN replies[c] : i < j => replies[c][i].n < replies[c][j].n
                   /\ {replies[c][i].n : i \in DOMAIN replies[c]} =
                         {n \in 1..Len(asked[c]) : Inbound!Answered(c, asked[c][n])}
            <3>1. InSequence(c) /\ Complete(c) /\ "read" \notin Busy
                  BY DEF InboundInv, CallerInv, Busy
            <3>2. \A i \in 1..Len(replies[c]) : replies[c][i].n \in 1..Len(asked[c])
                  BY <3>1 DEF InSequence
            <3>3. \A n \in 1..Len(asked[c]) :
                      (\E i \in 1..Len(replies[c]) : replies[c][i].n = n) <=> Inbound!Answered(c, asked[c][n])
                  BY <2>3, <3>1 DEF Complete
            <3>4. \A i, j \in 1..Len(replies[c]) : i < j => replies[c][i].n < replies[c][j].n
                  BY <3>1 DEF InSequence
            <3> QED
                BY <2>1, <3>2, <3>3, <3>4
      <2>4. Inbound!EachAnsweredOnce
            BY <2>3 DEF Inbound!EachAnsweredOnce, Callers
      <2>5. ASSUME NEW c \in Callers, NEW i \in 1..Len(replies[c]), asked[c][replies[c][i].n].kind # "action"
            PROVE  /\ replies[c][i].status = "success" =>
                         \E m \in performed : m.by = c /\ m.n = replies[c][i].n
                   /\ /\ replies[c][i].status = "error"
                      /\ \E m \in (performed \ unheard) \cup posted : m.by = c /\ m.n = replies[c][i].n
                      => replies[c][i].late
            <3>1. TrueReply(c, replies[c][i])
                  BY DEF InboundInv, CallerInv, TrueReplies
            <3>2. \A n : Message(c, n).by = c /\ Message(c, n).n = n
                  BY DEF Message
            <3>3. \A m \in performed \cup posted : m = Message(m.by, m.n)
                  BY <2>2, MessageIs
            <3> QED
                BY <2>5, <3>1, <3>2, <3>3 DEF TrueReply, Undenied
      <2>6. Inbound!RepliesAreTrue
            BY <2>1, <2>5 DEF Inbound!RepliesAreTrue, Callers
      <2> QED
          BY <2>4, <2>6
<1> QED
    BY <1>1, <1>2, <1>3, PTL

--------------------------------------------------------------------------------
(* What the desktop is sent                                                *)

NatOrder == OpToRel(<, Nat)

(* A set of naturals has a least element.                                  *)
LEMMA Least ==
    ASSUME NEW T \in SUBSET Nat, T # {}
    PROVE  \E x \in T : \A y \in T : x <= y
<1>1. IsWellFoundedOn(NatOrder, Nat)
  BY NatLessThanWellFounded, Zenon DEF NatOrder
<1>2. PICK x \in T : \A y \in T : ~(<<y, x>> \in NatOrder)
  BY <1>1, WFMin
<1>3. \A y \in T : ~(y < x)
  BY <1>2 DEF NatOrder, OpToRel
<1> QED
  BY <1>3

(* Induction, with a set in place of a predicate.                          *)
LEMMA SetInduction ==
    ASSUME NEW S \in SUBSET Nat, 0 \in S, \A n \in S : n + 1 \in S
    PROVE  S = Nat
<1> DEFINE T == Nat \ S
<1> SUFFICES ASSUME T # {} PROVE FALSE
  OBVIOUS
<1>1. T \in SUBSET Nat
  OBVIOUS
<1>2. PICK x \in T : \A y \in T : x <= y
  BY <1>1, Least
<1>3. x \in Nat /\ x # 0
  OBVIOUS
<1>4. x - 1 \in Nat /\ ~(x <= x - 1)
  BY <1>3
<1>5. x - 1 \in S
  BY <1>2, <1>4
<1>6. (x - 1) + 1 = x
  BY <1>3
<1> QED
  BY <1>5, <1>6

\* A step of SanitizeHTML's scan and where it starts.
Scanned(acc, ch) ==
    CASE acc.tag = <<>> /\ ch # "<" -> [acc EXCEPT !.out = Append(@, ch)]
      [] acc.tag # <<>> /\ ch = ">" -> [acc EXCEPT !.tag = <<>>]
      [] OTHER -> [acc EXCEPT !.tag = Append(@, ch)]

Unscanned == [out |-> <<>>, tag |-> <<>>]

\* it[s] is the scan of the bytes at the positions s, up to the n-th.
FoldsOver(it, text, n) ==
    it = [s \in SUBSET (1..n) |->
             IF s = {} THEN Unscanned
             ELSE Scanned(it[s \ {Inbound!Max(s)}], text[Inbound!Max(s)])]

(* The fold takes the last position first off.                             *)
LEMMA LastIndex ==
    ASSUME NEW n \in Nat, NEW s \in SUBSET (1..(n + 1)), n + 1 \in s
    PROVE  Inbound!Max(s) = n + 1
<1>1. \A y \in s : n + 1 >= y
  OBVIOUS
<1>2. \A x \in s : (\A y \in s : x >= y) => x = n + 1
  BY <1>1
<1> QED
  BY <1>1, <1>2 DEF Inbound!Max

(* The function that the fold's recursion describes exists.                *)
LEMMA FoldExists ==
    ASSUME NEW text
    PROVE  \A n \in Nat : \E it : FoldsOver(it, text, n)
<1> DEFINE S == {n \in Nat : \E it : FoldsOver(it, text, n)}
<1>1. 0 \in S
  <2> DEFINE it == [s \in SUBSET (1..0) |-> Unscanned]
  <2>1. \A s \in SUBSET (1..0) : s = {}
    OBVIOUS
  <2>2. FoldsOver(it, text, 0)
    BY <2>1 DEF FoldsOver
  <2> QED
    BY <2>2
<1>2. ASSUME NEW n \in S PROVE n + 1 \in S
  <2>1. n \in Nat /\ n + 1 \in Nat
    OBVIOUS
  <2>2. PICK it : FoldsOver(it, text, n)
    OBVIOUS
  <2> DEFINE top == n + 1
             new == [s \in SUBSET (1..top) |->
                        IF top \in s THEN Scanned(it[s \ {top}], text[top]) ELSE it[s]]
             Entry(s) == IF s = {} THEN Unscanned
                         ELSE Scanned(new[s \ {Inbound!Max(s)}], text[Inbound!Max(s)])
  <2>3. ASSUME NEW s \in SUBSET (1..top) PROVE new[s] = Entry(s)
    <3>1. CASE top \in s
      <4>1. Inbound!Max(s) = top /\ s # {}
        BY <2>1, <3>1, LastIndex
      <4>2. s \ {top} \in SUBSET (1..top) /\ top \notin s \ {top}
        OBVIOUS
      <4>3. s \ {top} \in SUBSET (1..n)
        BY <2>1
      <4>4. new[s \ {top}] = it[s \ {top}]
        BY <4>2
      <4>5. new[s] = Scanned(it[s \ {top}], text[top])
        BY <3>1
      <4> HIDE DEF new, top
      <4> QED
        BY <4>1, <4>4, <4>5
    <3>2. CASE top \notin s
      <4>1. s \in SUBSET (1..n)
        BY <2>1, <3>2
      <4> DEFINE m == Inbound!Max(s)
      <4>2. it[s] = IF s = {} THEN Unscanned ELSE Scanned(it[s \ {m}], text[m])
        BY <2>2, <4>1 DEF FoldsOver
      <4> HIDE DEF m
      <4>3. s \ {m} \in SUBSET (1..top) /\ top \notin s \ {m}
        BY <3>2
      <4>4. new[s \ {m}] = it[s \ {m}]
        BY <4>3
      <4>5. new[s] = it[s]
        BY <3>2
      <4> HIDE DEF new, top
      <4> QED
        BY <4>2, <4>4, <4>5 DEF m
    <3> QED
      BY <3>1, <3>2
  <2> HIDE DEF Entry
  <2>4. new = [s \in SUBSET (1..top) |-> Entry(s)]
    BY <2>3
  <2> HIDE DEF new
  <2>5. FoldsOver(new, text, top)
    BY <2>4 DEF FoldsOver, Entry
  <2> QED
    BY <2>1, <2>5
<1> HIDE DEF S
<1>3. S = Nat
  <2>1. S \in SUBSET Nat
    BY DEF S
  <2> QED
    BY <1>1, <1>2, <2>1, SetInduction
<1> QED
  BY <1>3 DEF S

(* SanitizeHTML is the scan of the whole text.                             *)
LEMMA SanitizeIs ==
    ASSUME NEW C, NEW text \in Seq(C)
    PROVE  \E it : /\ FoldsOver(it, text, Len(text))
                   /\ Inbound!SanitizeHTML(text) = it[1..Len(text)].out \o it[1..Len(text)].tag
<1> DEFINE it == CHOOSE f : FoldsOver(f, text, Len(text))
<1>1. Len(text) \in Nat /\ DOMAIN text = 1..Len(text)
  OBVIOUS
<1>2. FoldsOver(it, text, Len(text))
  BY <1>1, FoldExists
<1>3. Inbound!SanitizeHTML(text) = it[1..Len(text)].out \o it[1..Len(text)].tag
  BY <1>1 DEF Inbound!SanitizeHTML, Inbound!FoldLeft, Inbound!MapThenFoldSet, FoldsOver, Scanned, Unscanned
<1> QED
  BY <1>2, <1>3

\* What is true after k bytes: nothing was added, what is kept has no "<",
\* and what may still become a tag has no ">".
ScanInv(acc, C, k) ==
    /\ acc \in [out : Seq(C), tag : Seq(C)]
    /\ Len(acc.out) + Len(acc.tag) <= k
    /\ \A i \in 1..Len(acc.out) : acc.out[i] # "<"
    /\ \A i \in 1..Len(acc.tag) : acc.tag[i] # ">"

(* ScanInv, of the two parts.                                              *)
LEMMA ScanPair ==
    ASSUME NEW C, NEW k, NEW o \in Seq(C), NEW t \in Seq(C), Len(o) + Len(t) <= k,
           \A i \in 1..Len(o) : o[i] # "<", \A i \in 1..Len(t) : t[i] # ">"
    PROVE  ScanInv([out |-> o, tag |-> t], C, k)
<1> DEFINE acc == [out |-> o, tag |-> t]
<1>1. acc.out = o /\ acc.tag = t /\ acc \in [out : Seq(C), tag : Seq(C)]
  OBVIOUS
<1> HIDE DEF acc
<1>2. ScanInv(acc, C, k)
  BY <1>1 DEF ScanInv
<1> QED
  BY <1>2 DEF acc

(* The next byte goes where it breaks nothing.                             *)
LEMMA ScanKeeps ==
    ASSUME NEW C, NEW k \in Nat, NEW acc, ScanInv(acc, C, k), NEW ch \in C
    PROVE  ScanInv(Scanned(acc, ch), C, k + 1)
<1> DEFINE out == acc.out
           tag == acc.tag
<1>1. /\ acc = [out |-> out, tag |-> tag] /\ out \in Seq(C) /\ tag \in Seq(C)
      /\ Len(out) \in Nat /\ Len(tag) \in Nat /\ Len(out) + Len(tag) <= k
      /\ \A i \in 1..Len(out) : out[i] # "<"
      /\ \A i \in 1..Len(tag) : tag[i] # ">"
  BY DEF ScanInv
<1> HIDE DEF out, tag
<1>2. CASE tag = <<>> /\ ch # "<"
  <2> DEFINE new == Append(out, ch)
  <2>1. Scanned(acc, ch) = [out |-> new, tag |-> tag]
    BY <1>1, <1>2 DEF Scanned, out, tag
  <2>2. new \in Seq(C) /\ Len(new) = Len(out) + 1 /\ \A i \in 1..Len(new) : new[i] # "<"
    BY <1>1, <1>2
  <2> HIDE DEF new
  <2>3. Len(new) + Len(tag) <= k + 1
    BY <1>1, <2>2
  <2> QED
    BY <1>1, <2>1, <2>2, <2>3, ScanPair
<1>3. CASE tag # <<>> /\ ch = ">"
  <2>1. Scanned(acc, ch) = [out |-> out, tag |-> <<>>]
    BY <1>1, <1>3 DEF Scanned, out, tag
  <2> DEFINE none == <<>>
  <2>2. none \in Seq(C) /\ Len(none) = 0 /\ \A i \in 1..Len(none) : none[i] # ">"
    OBVIOUS
  <2>3. Len(out) + Len(none) <= k + 1
    BY <1>1, <2>2
  <2>4. Scanned(acc, ch) = [out |-> out, tag |-> none]
    BY <2>1
  <2> HIDE DEF none
  <2> QED
    BY <1>1, <2>2, <2>3, <2>4, ScanPair
<1>4. CASE ~(tag = <<>> /\ ch # "<") /\ ~(tag # <<>> /\ ch = ">")
  <2> DEFINE new == Append(tag, ch)
  <2>1. Scanned(acc, ch) = [out |-> out, tag |-> new]
    BY <1>1, <1>4 DEF Scanned, out, tag
  <2>2. ch # ">"
    BY <1>4
  <2>3. new \in Seq(C) /\ Len(new) = Len(tag) + 1 /\ \A i \in 1..Len(new) : new[i] # ">"
    BY <1>1, <2>2
  <2> HIDE DEF new
  <2>4. Len(out) + Len(new) <= k + 1
    BY <1>1, <2>3
  <2> QED
    BY <1>1, <2>1, <2>3, <2>4, ScanPair
<1> QED
  BY <1>2, <1>3, <1>4

(* So the scan of the whole text is clean.                                 *)
LEMMA ScanAll ==
    ASSUME NEW C, NEW text \in Seq(C), NEW it, FoldsOver(it, text, Len(text))
    PROVE  ScanInv(it[1..Len(text)], C, Len(text))
<1> DEFINE top == Len(text)
           S == {k \in Nat : k <= top => ScanInv(it[1..k], C, k)}
<1>1. top \in Nat /\ \A k \in 1..top : text[k] \in C
  OBVIOUS
<1>2. \A s \in SUBSET (1..top) : it[s] = IF s = {} THEN Unscanned
                                         ELSE Scanned(it[s \ {Inbound!Max(s)}], text[Inbound!Max(s)])
  BY DEF FoldsOver
<1> HIDE DEF top
<1>3. 0 \in S
  <2>1. 1..0 = {} /\ 1..0 \in SUBSET (1..top)
    OBVIOUS
  <2>2. it[1..0] = Unscanned
    BY <1>2, <2>1
  <2>3. ScanInv(Unscanned, C, 0)
    <3>1. <<>> \in Seq(C) /\ Len(<<>>) = 0
      OBVIOUS
    <3> QED
      BY <3>1 DEF ScanInv, Unscanned
  <2> QED
    BY <2>2, <2>3
<1>4. ASSUME NEW k \in S PROVE k + 1 \in S
  <2> SUFFICES ASSUME k + 1 <= top PROVE ScanInv(it[1..(k + 1)], C, k + 1)
    OBVIOUS
  <2>1. k \in Nat /\ k <= top /\ ScanInv(it[1..k], C, k)
    BY <1>1
  <2> HIDE DEF S
  <2>2. k + 1 \in 1..top /\ k + 1 \in 1..(k + 1) /\ 1..(k + 1) \in SUBSET (1..top)
    BY <1>1, <2>1
  <2>3. Inbound!Max(1..(k + 1)) = k + 1
    BY <2>1, <2>2, LastIndex
  <2>4. (1..(k + 1)) \ {k + 1} = 1..k
    BY <2>1
  <2>5. it[1..(k + 1)] = Scanned(it[1..k], text[k + 1])
    BY <1>2, <2>2, <2>3, <2>4
  <2> QED
    BY <1>1, <2>1, <2>2, <2>5, ScanKeeps
<1> HIDE DEF S
<1>5. S = Nat
  <2>1. S \in SUBSET Nat
    BY DEF S
  <2> QED
    BY <1>3, <1>4, <2>1, SetInduction
<1>6. top <= top => ScanInv(it[1..top], C, top)
  BY <1>1, <1>5 DEF S
<1> QED
  BY <1>1, <1>6 DEF top

(* sanitizeHTML on any text: no bracket that is left opens a tag, and the  *)
(* text is no longer than it was.                                          *)
THEOREM SanitizedHasNoTags ==
    ASSUME NEW C, NEW text \in Seq(C)
    PROVE  LET clean == Inbound!SanitizeHTML(text)
           IN  /\ clean \in Seq(C) /\ Len(clean) <= Len(text)
               /\ \A i, j \in 1..Len(clean) : clean[i] = "<" /\ clean[j] = ">" => j < i
<1>1. PICK it : /\ FoldsOver(it, text, Len(text))
                /\ Inbound!SanitizeHTML(text) = it[1..Len(text)].out \o it[1..Len(text)].tag
  BY SanitizeIs
<1> DEFINE end == it[1..Len(text)]
           out == end.out
           tag == end.tag
           clean == out \o tag
<1>2. ScanInv(end, C, Len(text))
  BY <1>1, ScanAll
<1> HIDE DEF end
<1>3. /\ out \in Seq(C) /\ tag \in Seq(C) /\ Len(out) + Len(tag) <= Len(text)
      /\ \A i \in 1..Len(out) : out[i] # "<"
      /\ \A i \in 1..Len(tag) : tag[i] # ">"
  BY <1>2 DEF ScanInv
<1> HIDE DEF out, tag
<1>4. /\ clean \in Seq(C) /\ Len(clean) = Len(out) + Len(tag) /\ Len(out) \in Nat /\ Len(tag) \in Nat
      /\ \A i \in 1..Len(clean) : clean[i] = IF i <= Len(out) THEN out[i] ELSE tag[i - Len(out)]
  BY <1>3
<1>5. Inbound!SanitizeHTML(text) = clean
  BY <1>1 DEF end, out, tag
<1> HIDE DEF clean
<1>6. ASSUME NEW i \in 1..Len(clean), clean[i] = "<" PROVE i > Len(out)
  BY <1>3, <1>4, <1>6
<1>7. ASSUME NEW j \in 1..Len(clean), clean[j] = ">" PROVE j <= Len(out)
  <2> SUFFICES ASSUME j > Len(out) PROVE FALSE
    BY <1>4
  <2>1. j - Len(out) \in 1..Len(tag) /\ clean[j] = tag[j - Len(out)]
    BY <1>4
  <2> QED
    BY <1>3, <1>7, <2>1
<1>8. \A i, j \in 1..Len(clean) : clean[i] = "<" /\ clean[j] = ">" => j < i
  BY <1>4, <1>6, <1>7
<1> QED
  BY <1>3, <1>4, <1>5, <1>8
\* Without a tag in text, nothing of its first k bytes is lost.
KeepInv(acc, text, C, k) ==
    /\ acc \in [out : Seq(C), tag : Seq(C)]
    /\ Len(acc.out) + Len(acc.tag) = k
    /\ \A i \in 1..Len(acc.out) : acc.out[i] = text[i]
    /\ \A i \in 1..Len(acc.tag) : acc.tag[i] = text[Len(acc.out) + i]
    /\ acc.tag # <<>> => acc.tag[1] = "<"

(* KeepInv, of the two parts.                                              *)
LEMMA KeepPair ==
    ASSUME NEW C, NEW text, NEW k, NEW o \in Seq(C), NEW t \in Seq(C), Len(o) + Len(t) = k,
           \A i \in 1..Len(o) : o[i] = text[i], \A i \in 1..Len(t) : t[i] = text[Len(o) + i],
           t # <<>> => t[1] = "<"
    PROVE  KeepInv([out |-> o, tag |-> t], text, C, k)
<1> DEFINE acc == [out |-> o, tag |-> t]
<1>1. acc.out = o /\ acc.tag = t /\ acc \in [out : Seq(C), tag : Seq(C)]
  OBVIOUS
<1> HIDE DEF acc
<1>2. KeepInv(acc, text, C, k)
  BY <1>1 DEF KeepInv
<1> QED
  BY <1>2 DEF acc

(* A byte is dropped only with the tag it closes.                          *)
LEMMA KeepStep ==
    ASSUME NEW C, NEW text \in Seq(C), NEW k \in Nat, k + 1 <= Len(text), NEW acc, KeepInv(acc, text, C, k),
           \A i, j \in 1..Len(text) : text[i] = "<" /\ text[j] = ">" => j < i
    PROVE  KeepInv(Scanned(acc, text[k + 1]), text, C, k + 1)
<1> DEFINE out == acc.out
           tag == acc.tag
           ch == text[k + 1]
<1>1. /\ acc = [out |-> out, tag |-> tag] /\ out \in Seq(C) /\ tag \in Seq(C)
      /\ Len(out) \in Nat /\ Len(tag) \in Nat /\ Len(out) + Len(tag) = k
      /\ \A i \in 1..Len(out) : out[i] = text[i]
      /\ \A i \in 1..Len(tag) : tag[i] = text[Len(out) + i]
      /\ tag # <<>> => tag[1] = "<"
  BY DEF KeepInv
<1>2. k + 1 \in 1..Len(text) /\ ch \in C
  OBVIOUS
<1> HIDE DEF out, tag
<1>3. CASE tag = <<>> /\ ch # "<"
  <2> DEFINE new == Append(out, ch)
  <2>1. Scanned(acc, ch) = [out |-> new, tag |-> tag]
    BY <1>1, <1>3 DEF Scanned, out, tag
  <2>2. Len(tag) = 0 /\ Len(out) = k
    BY <1>1, <1>3
  <2>3. new \in Seq(C) /\ Len(new) = k + 1 /\ \A i \in 1..Len(new) : new[i] = text[i]
    <3>1. new \in Seq(C) /\ Len(new) = k + 1 /\ new[k + 1] = ch /\ \A i \in 1..k : new[i] = out[i]
      BY <1>1, <1>2, <2>2
    <3>2. \A i \in 1..(k + 1) : i = k + 1 \/ i \in 1..k
      OBVIOUS
    <3> HIDE DEF new
    <3> QED
      BY <1>1, <2>2, <3>1, <3>2
  <2> HIDE DEF new, ch
  <2>4. Len(new) + Len(tag) = k + 1 /\ \A i \in 1..Len(tag) : tag[i] = text[Len(new) + i]
    BY <2>2, <2>3
  <2>5. tag # <<>> => tag[1] = "<"
    BY <1>1
  <2>6. KeepInv([out |-> new, tag |-> tag], text, C, k + 1)
    <3>1. new \in Seq(C) /\ tag \in Seq(C) /\ \A i \in 1..Len(new) : new[i] = text[i]
      BY <1>1, <2>3
    <3> QED
      BY <2>4, <2>5, <3>1, KeepPair
  <2> QED
    BY <2>1, <2>6 DEF ch
<1>4. CASE tag # <<>> /\ ch = ">"
  <2>1. 1 \in 1..Len(tag) /\ Len(out) + 1 \in 1..Len(text) /\ Len(out) + 1 <= k
    <3>1. Len(tag) > 0
      BY <1>1, <1>4
    <3> QED
      BY <1>1, <1>2, <3>1
  <2>2. text[Len(out) + 1] = "<"
    BY <1>1, <1>4, <2>1
  <2>3. k + 1 < Len(out) + 1
    BY <1>2, <1>4, <2>1, <2>2
  <2> QED
    BY <1>1, <2>1, <2>3
<1>5. CASE ~(tag = <<>> /\ ch # "<") /\ ~(tag # <<>> /\ ch = ">")
  <2> DEFINE new == Append(tag, ch)
  <2>1. Scanned(acc, ch) = [out |-> out, tag |-> new]
    BY <1>1, <1>5 DEF Scanned, out, tag
  <2>2. /\ new \in Seq(C) /\ Len(new) = Len(tag) + 1 /\ new[Len(tag) + 1] = ch
        /\ \A i \in 1..Len(tag) : new[i] = tag[i]
    BY <1>1, <1>2
  <2> HIDE DEF new
  <2>3. Len(out) + Len(new) = k + 1 /\ Len(out) + (Len(tag) + 1) = k + 1
    BY <1>1, <2>2
  <2>4. \A i \in 1..Len(new) : new[i] = text[Len(out) + i]
    <3>1. \A i \in 1..Len(new) : i = Len(tag) + 1 \/ i \in 1..Len(tag)
      BY <1>1, <2>2
    <3> QED
      BY <1>1, <2>2, <2>3, <3>1
  <2>5. new[1] = "<"
    <3>1. CASE tag = <<>>
      <4>1. Len(tag) = 0 /\ ch = "<"
        BY <1>5, <3>1
      <4>2. Len(tag) + 1 = 1
        BY <4>1
      <4> QED
        BY <2>2, <4>1, <4>2
    <3>2. CASE tag # <<>>
      <4>1. 1 \in 1..Len(tag)
        BY <1>1, <3>2
      <4> QED
        BY <1>1, <2>2, <3>2, <4>1
    <3> QED
      BY <3>1, <3>2
  <2> HIDE DEF ch
  <2>6. KeepInv([out |-> out, tag |-> new], text, C, k + 1)
    BY <1>1, <2>2, <2>3, <2>4, <2>5, KeepPair
  <2> QED
    BY <2>1, <2>6 DEF ch
<1> QED
  BY <1>3, <1>4, <1>5

(* sanitizeHTML leaves a text that has no tag as it is.                    *)
THEOREM SanitizeKeepsPlainText ==
    ASSUME NEW C, NEW text \in Seq(C),
           \A i, j \in 1..Len(text) : text[i] = "<" /\ text[j] = ">" => j < i
    PROVE  Inbound!SanitizeHTML(text) = text
<1>1. PICK it : /\ FoldsOver(it, text, Len(text))
                /\ Inbound!SanitizeHTML(text) = it[1..Len(text)].out \o it[1..Len(text)].tag
  BY SanitizeIs
<1> DEFINE top == Len(text)
           S == {k \in Nat : k <= top => KeepInv(it[1..k], text, C, k)}
<1>2. top \in Nat
  OBVIOUS
<1>3. \A s \in SUBSET (1..top) : it[s] = IF s = {} THEN Unscanned
                                         ELSE Scanned(it[s \ {Inbound!Max(s)}], text[Inbound!Max(s)])
  BY <1>1 DEF FoldsOver
<1>4. 0 \in S
  <2>1. 1..0 = {} /\ 1..0 \in SUBSET (1..top)
    OBVIOUS
  <2>2. it[1..0] = Unscanned
    BY <1>3, <2>1
  <2> DEFINE none == <<>>
  <2>3. none \in Seq(C) /\ Len(none) = 0 /\ 1..0 = {}
    OBVIOUS
  <2>4. KeepInv([out |-> none, tag |-> none], text, C, 0)
    <3> HIDE DEF none
    <3>1. Len(none) + Len(none) = 0 /\ (\A i \in 1..Len(none) : FALSE)
      BY <2>3
    <3> QED
      BY <2>3, <3>1, KeepPair DEF none
  <2> QED
    BY <2>2, <2>4 DEF Unscanned
<1>5. ASSUME NEW k \in S PROVE k + 1 \in S
  <2> SUFFICES ASSUME k + 1 <= top PROVE KeepInv(it[1..(k + 1)], text, C, k + 1)
    OBVIOUS
  <2>1. k \in Nat /\ k <= top /\ KeepInv(it[1..k], text, C, k)
    BY <1>2
  <2> HIDE DEF S
  <2>2. k + 1 \in 1..(k + 1) /\ 1..(k + 1) \in SUBSET (1..top) /\ 1..(k + 1) # {}
    BY <1>2, <2>1
  <2>3. Inbound!Max(1..(k + 1)) = k + 1
    BY <2>1, <2>2, LastIndex
  <2>4. (1..(k + 1)) \ {k + 1} = 1..k
    BY <2>1
  <2>5. it[1..(k + 1)] = Scanned(it[1..k], text[k + 1])
    BY <1>3, <2>2, <2>3, <2>4
  <2>6. KeepInv(Scanned(it[1..k], text[k + 1]), text, C, k + 1)
    BY <2>1, KeepStep
  <2> QED
    BY <2>5, <2>6
<1> HIDE DEF S
<1>6. S = Nat
  <2>1. S \in SUBSET Nat
    BY DEF S
  <2> QED
    BY <1>4, <1>5, <2>1, SetInduction
<1> DEFINE end == it[1..top]
           out == end.out
           tag == end.tag
           clean == out \o tag
<1>7. KeepInv(end, text, C, top)
  <2>1. top <= top => KeepInv(it[1..top], text, C, top)
    BY <1>2, <1>6 DEF S
  <2> QED
    BY <1>2, <2>1
<1>8. Inbound!SanitizeHTML(text) = clean
  BY <1>1
<1> HIDE DEF end
<1>9. /\ out \in Seq(C) /\ tag \in Seq(C) /\ Len(out) + Len(tag) = Len(text)
      /\ \A i \in 1..Len(out) : out[i] = text[i]
      /\ \A i \in 1..Len(tag) : tag[i] = text[Len(out) + i]
  BY <1>7 DEF KeepInv
<1> HIDE DEF out, tag
<1>10. /\ clean \in Seq(C) /\ Len(clean) = Len(text) /\ Len(out) \in Nat /\ Len(tag) \in Nat
       /\ \A i \in 1..Len(clean) : clean[i] = IF i <= Len(out) THEN out[i] ELSE tag[i - Len(out)]
  BY <1>9
<1> HIDE DEF clean
<1>11. ASSUME NEW i \in 1..Len(text) PROVE clean[i] = text[i]
  <2>1. CASE i <= Len(out)
    BY <1>9, <1>10, <2>1
  <2>2. CASE i > Len(out)
    <3>1. i - Len(out) \in 1..Len(tag) /\ Len(out) + (i - Len(out)) = i /\ clean[i] = tag[i - Len(out)]
      BY <1>9, <1>10, <2>2
    <3>2. tag[i - Len(out)] = text[Len(out) + (i - Len(out))]
      BY <1>9, <3>1
    <3> QED
      BY <3>1, <3>2
  <2> QED
    BY <1>10, <2>1, <2>2
<1>12. clean = text
  BY <1>10, <1>11
<1> QED
  BY <1>8, <1>12

\* What a caller can ask for.
Frames == UNION {Inbound!Range(s) : s \in Scripts}
Readable(c) == IF c \in Clients THEN Frames ELSE RpcRequests

\* What a handler checks before it goes on to the desktop.
Fit(r) ==
    /\ r.kind = "notification" => r.arg \in Seq(Inbound!Range(r.arg))
    /\ r.kind = "profile" => r.arg \in Offered
    /\ r.kind = "media" => Inbound!MediaCommandOk(r.arg)

\* HostInputClean, of one request.
Clean(r) ==
    LET got == Inbound!Sent(r)
    IN  CASE r.kind = "notification" ->
                /\ Len(got) <= TextLimit
                /\ \A i, j \in DOMAIN got : got[i] = "<" /\ got[j] = ">" => j < i
          [] r.kind = "profile" -> got \in Offered
          [] r.kind = "media" ->
                r.arg.command \in {"set_position", "set_volume"} /\ got # NaN =>
                    got >= 0 /\ (r.arg.command = "set_volume" => got <= 100)
          [] OTHER -> TRUE

\* Whatever is on its way to the desktop, or about to be, was checked.
HostInv ==
    /\ \A c \in Callers : inbox[c] \in Seq(Readable(c))
    /\ \A c \in Callers : ipc[c] \in {"lock", "send"} => Fit(asked[c][Len(asked[c])])
    /\ \A m \in posted \cup performed : m.n \in 1..Len(asked[m.by]) /\ Fit(asked[m.by][m.n])

(* Cut to TextLimit, a text is a shorter text.                             *)
LEMMA TruncateIs ==
    ASSUME Inbound!InboundAssumption, NEW C, NEW text \in Seq(C)
    PROVE  Inbound!Truncate(text) \in Seq(C) /\ Len(Inbound!Truncate(text)) <= TextLimit
<1> DEFINE n == IF Len(text) < TextLimit THEN Len(text) ELSE TextLimit
<1>1. TextLimit \in Nat /\ Len(text) \in Nat
  BY DEF Inbound!InboundAssumption
<1>2. n \in Nat /\ n <= Len(text) /\ n <= TextLimit
  BY <1>1
<1> HIDE DEF n
<1>3. SubSeq(text, 1, n) \in Seq(C) /\ Len(SubSeq(text, 1, n)) = n
  BY <1>2
<1> QED
  BY <1>2, <1>3 DEF Inbound!Truncate, n

(* What was checked is clean when it arrives.                              *)
LEMMA FitIsClean ==
    ASSUME Inbound!InboundAssumption, NEW r \in Inbound!Requests, Fit(r)
    PROVE  Clean(r)
<1>1. CASE r.kind = "notification"
  <2> DEFINE C == Inbound!Range(r.arg)
             text == Inbound!Truncate(r.arg)
             got == Inbound!SanitizeHTML(text)
  <2>1. r.arg \in Seq(C)
    BY <1>1 DEF Fit
  <2> HIDE DEF C
  <2>2. text \in Seq(C) /\ Len(text) <= TextLimit
    BY <2>1, TruncateIs
  <2> HIDE DEF text
  <2>3. /\ got \in Seq(C) /\ Len(got) <= Len(text)
        /\ \A i, j \in 1..Len(got) : got[i] = "<" /\ got[j] = ">" => j < i
    BY <2>2, SanitizedHasNoTags
  <2>4. Inbound!Sent(r) = got
    BY <1>1 DEF Inbound!Sent, text
  <2> HIDE DEF got
  <2>5. TextLimit \in Nat /\ Len(text) \in Nat /\ Len(got) \in Nat /\ DOMAIN got = 1..Len(got)
    BY <2>2, <2>3 DEF Inbound!InboundAssumption
  <2>6. Len(got) <= TextLimit
    BY <2>2, <2>3, <2>5
  <2>7. \A i, j \in DOMAIN got : got[i] = "<" /\ got[j] = ">" => j < i
    BY <2>3, <2>5
  <2> QED
    BY <1>1, <2>4, <2>6, <2>7 DEF Clean
<1>2. CASE r.kind = "profile"
  <2>1. Inbound!Sent(r) = r.arg
    BY <1>2 DEF Inbound!Sent
  <2> QED
    BY <1>2, <2>1 DEF Clean, Fit
<1>3. CASE r.kind = "media"
  <2> DEFINE got == Inbound!MediaValue(r.arg)
             a == r.arg
  <2>1. Inbound!Sent(r) = got
    BY <1>3 DEF Inbound!Sent
  <2>2. ASSUME a.command \in {"set_position", "set_volume"}, got # NaN
        PROVE  got >= 0 /\ (a.command = "set_volume" => got <= 100)
    <3>1. a.value \in Int \cup {NaN} /\ a.value \in Int \cup {NaN, Nil}
      BY <1>3, <2>2 DEF Inbound!InboundAssumption, Fit, Inbound!MediaCommandOk
    <3> DEFINE v == a.value
    <3>2. CASE a.command = "set_volume"
      <4>1. got = Inbound!ClampVolume(v)
        BY <3>2 DEF Inbound!MediaValue
      <4>2. v # NaN /\ v \in Int
        BY <2>2, <3>1, <4>1 DEF Inbound!ClampVolume
      <4>3. got \in Int /\ got >= 0 /\ got <= 100
        BY <4>1, <4>2 DEF Inbound!ClampVolume
      <4> QED
        BY <4>3
    <3>3. CASE a.command = "set_position"
      <4>1. got = IF v < 0 THEN 0 ELSE v
        BY <3>3 DEF Inbound!MediaValue
      <4>2. got = 0 \/ (got = v /\ v # NaN /\ ~(v < 0))
        BY <2>2, <4>1
      <4>3. got >= 0
        BY <3>1, <4>2
      <4> QED
        BY <3>3, <4>3
    <3> QED
      BY <2>2, <3>2, <3>3
  <2> HIDE DEF got
  <2> QED
    BY <1>3, <2>1, <2>2 DEF Clean
<1>4. CASE r.kind \notin {"notification", "profile", "media"}
  BY <1>4 DEF Clean
<1> QED
  BY <1>1, <1>2, <1>3, <1>4

(* Only what was checked goes on to the desktop.                           *)
LEMMA ReadsFit ==
    ASSUME Inbound!InboundAssumption, NEW c \in Callers, inbox[c] \in Seq(Readable(c)),
           ipc \in [Callers -> Busy \cup {"read", "gone"}],
           Inbound!Reads(c), ~Inbound!LoopEnds(c), ipc'[c] \in {"lock", "send"}
    PROVE  Fit(Head(inbox[c]))
<1> DEFINE r == Head(inbox[c])
<1>1. \A step, out : Inbound!Goto(c, step, out) => ipc'[c] = step
  BY DEF Inbound!Goto
<1>2. \A kind : Inbound!Takes(c, kind) => r.kind = kind /\ inbox[c] # <<>>
  BY DEF Inbound!Takes
<1>3. inbox[c] # <<>> => r \in Readable(c)
  OBVIOUS
<1> HIDE DEF r
<1>4. ASSUME r.kind \notin {"notification", "profile", "media"}
      PROVE  Fit(r)
  BY <1>4 DEF Fit
<1>5. ASSUME Inbound!SkippedFrame(c) \/ Inbound!PingFrame(c) \/ Inbound!Unimplemented(c)
      PROVE  Fit(r)
  <2>1. ipc'[c] \in {"read", "respond"}
    BY <1>1, <1>5, Zenon DEF Inbound!SkippedFrame, Inbound!PingFrame, Inbound!Unimplemented
  <2> QED
    BY <2>1
<1>6. ASSUME Inbound!ActionFrame(c) \/ Inbound!ExecuteSystemAction(c)
      PROVE  Fit(r)
  <2>1. r.kind = "action"
    BY <1>2, <1>6, Zenon DEF Inbound!ActionFrame, Inbound!ExecuteSystemAction
  <2> QED
    BY <1>4, <2>1
<1>7. ASSUME c \in Clients, Inbound!NotificationFrame(c)
      PROVE  Fit(r)
  <2>1. r.kind = "notification" /\ r \in Frames
    BY <1>2, <1>3, <1>7, Zenon DEF Inbound!NotificationFrame, Readable
  <2>2. r.arg \in Seq(Inbound!Range(r.arg))
    <3>1. PICK s \in Scripts : r \in Inbound!Range(s)
      BY <2>1, Zenon DEF Frames
    <3> QED
      BY <2>1, <3>1, Zenon DEF Inbound!InboundAssumption
  <2> QED
    BY <2>1, <2>2 DEF Fit
<1>8. ASSUME c \notin Clients, Inbound!SendNotification(c)
      PROVE  Fit(r)
  <2>1. r.kind = "notification" /\ r \in RpcRequests
    BY <1>2, <1>3, <1>8, Zenon DEF Inbound!SendNotification, Readable
  <2>2. r.arg # Nil
    <3>1. r.arg = Nil => Inbound!Goto(c, "respond", "error")
      BY <1>8, Zenon DEF Inbound!SendNotification, r
    <3>2. Inbound!Goto(c, "respond", "error") => ipc'[c] = "respond"
      BY <1>1
    <3> QED
      BY <3>1, <3>2
  <2>3. r.arg \in Seq(Inbound!Range(r.arg))
    BY <2>1, <2>2, Zenon DEF Inbound!InboundAssumption
  <2> QED
    BY <2>1, <2>3 DEF Fit
<1>9. ASSUME Inbound!MediaFrame(c) \/ Inbound!SendMediaCommand(c)
      PROVE  Fit(r)
  <2>1. r.kind = "media"
    BY <1>2, <1>9, Zenon DEF Inbound!MediaFrame, Inbound!SendMediaCommand
  <2>2. ~Inbound!MediaCommandOk(r.arg) => Inbound!Goto(c, "respond", "error")
    BY <1>9, Zenon DEF Inbound!MediaFrame, Inbound!SendMediaCommand, Inbound!HandleMediaCommand, r
  <2>3. Inbound!Goto(c, "respond", "error") => ipc'[c] = "respond"
    BY <1>1
  <2> QED
    BY <2>1, <2>2, <2>3 DEF Fit
<1>10. ASSUME Inbound!ProfileFrame(c) \/ Inbound!SetPowerProfile(c)
       PROVE  Fit(r)
  <2>1. r.kind = "profile"
    BY <1>2, <1>10, Zenon DEF Inbound!ProfileFrame, Inbound!SetPowerProfile
  <2>2. r.arg \notin Offered => Inbound!Goto(c, "respond", "error")
    BY <1>10, Zenon DEF Inbound!ProfileFrame, Inbound!SetPowerProfile, Inbound!HandlePowerProfileCommand, r
  <2>3. Inbound!Goto(c, "respond", "error") => ipc'[c] = "respond"
    BY <1>1
  <2> QED
    BY <2>1, <2>2, <2>3 DEF Fit
<1>11. Fit(r)
  BY <1>5, <1>6, <1>7, <1>8, <1>9, <1>10, Zenon DEF Inbound!Reads, Inbound!ReadFrame, Inbound!ReadCall
<1> QED
  BY <1>11 DEF r

(* Every step keeps HostInv.                                               *)
LEMMA HostInputStep ==
    ASSUME Inbound!InboundAssumption, InboundInv, HostInv, [Inbound!Next]_(Inbound!vars)
    PROVE  HostInv'
<1>1. /\ InboundType /\ \A d \in Callers : asked[d] \in Seq(Inbound!Requests) /\ Len(asked[d]) \in Nat
      /\ posted \cup performed \subseteq [by : Callers, n : Nat]
      /\ \A d \in Callers : ipc[d] \in Busy => Len(asked[d]) \in 1..Len(asked[d])
  <2>1. InboundType /\ \A d \in Callers : asked[d] \in Seq(Inbound!Requests) /\ Len(asked[d]) \in Nat
    BY DEF InboundInv, InboundType
  <2>2. \A d \in Callers : ipc[d] \in Busy => Len(asked[d]) > 0
    BY DEF InboundInv, CallerInv, SentWasAsked
  <2> QED
    BY <2>1, <2>2 DEF InboundType
<1>2. ASSUME UNCHANGED <<inbox, asked>>, posted' \cup performed' \subseteq posted \cup performed,
             \A d \in Callers : ipc'[d] \in {"lock", "send"} => ipc[d] \in {"lock", "send"}
      PROVE  HostInv'
  BY <1>2 DEF HostInv, Readable
<1>3. CASE UNCHANGED Inbound!vars \/ (\E c \in Clients : Inbound!Leave(c)) \/ (\E c \in Callers : Inbound!Expire(c))
  <2>1. UNCHANGED <<inbox, asked, ipc, posted, performed>>
    BY <1>3 DEF Inbound!vars, Inbound!callerVars, Inbound!carriedOut, Inbound!Leave, Inbound!Expire
  <2> QED
    BY <1>2, <2>1
<1>4. ASSUME NEW m \in posted, Inbound!Perform(m) \/ Inbound!BreakOff(m) \/ Inbound!Refuse(m)
      PROVE  HostInv'
  <2>1. /\ UNCHANGED <<inbox, asked, ipc>>
        /\ posted' = posted \ {m} /\ performed' \in {performed, performed \cup {m}}
    BY <1>4 DEF Inbound!Perform, Inbound!BreakOff, Inbound!Refuse, Inbound!callerVars, Inbound!carriedOut
  <2> QED
    BY <1>2, <2>1
<1>5. ASSUME NEW c \in Callers, Inbound!Lock(c) \/ Inbound!Return(c) \/ Inbound!TimeOut(c) \/ Inbound!Respond(c) \/ Inbound!LoopEnds(c)
      PROVE  HostInv'
  <2>1. /\ UNCHANGED <<inbox, asked, posted, performed>>
        /\ \/ ipc[c] = "lock" /\ ipc' = [ipc EXCEPT ![c] = "send"]
           \/ \E step \in {"respond", "read", "gone"} : ipc' = [ipc EXCEPT ![c] = step]
    BY <1>5 DEF Inbound!Lock, Inbound!Return, Inbound!TimeOut, Inbound!Respond, Inbound!LoopEnds, Inbound!Goto, Inbound!callerVars, Inbound!carriedOut
  <2>2. \A d \in Callers : ipc'[d] \in {"lock", "send"} => ipc[d] \in {"lock", "send"}
    BY <1>1, <2>1 DEF InboundType
  <2> QED
    BY <1>2, <2>1, <2>2
<1>6. ASSUME NEW c \in Callers, Inbound!Send(c)
      PROVE  HostInv'
  <2> DEFINE this == [by |-> c, n |-> Len(asked[c])]
  <2>1. /\ UNCHANGED <<inbox, asked, performed>> /\ ipc[c] = "send"
        /\ posted' \in {posted, posted \cup {this}}
        /\ \E step \in {"respond", "wait"} : ipc' = [ipc EXCEPT ![c] = step]
    BY <1>6 DEF Inbound!Send, Inbound!Goto, Inbound!callerVars, Inbound!carriedOut
  <2>2. this.by = c /\ this.n = Len(asked[c])
    OBVIOUS
  <2> HIDE DEF this
  <2>3. \A d \in Callers : ipc'[d] \in {"lock", "send"} => ipc[d] \in {"lock", "send"}
    BY <1>1, <2>1 DEF InboundType
  <2>4. Len(asked[c]) \in 1..Len(asked[c]) /\ Fit(asked[c][Len(asked[c])])
    BY <1>1, <2>1 DEF HostInv, Busy
  <2>5. \A m \in posted' \cup performed' : m.n \in 1..Len(asked[m.by]) /\ Fit(asked[m.by][m.n])
    BY <2>1, <2>2, <2>4 DEF HostInv
  <2> QED
    BY <2>1, <2>3, <2>5 DEF HostInv, Readable
<1>7. ASSUME NEW c \in Callers, Inbound!Reads(c), ~Inbound!LoopEnds(c)
      PROVE  HostInv'
  <2>1. PICK step \in {"read", "lock", "send", "respond"}, tells \in Outcomes : Begins(c, step, tells)
    BY <1>7, ReadsBegin
  <2> DEFINE r == Head(inbox[c])
             n == Len(asked[c])
  <2>2. inbox[c] \in Seq(Readable(c)) /\ inbox[c] # <<>>
    BY <2>1 DEF HostInv, Begins
  <2>3. Tail(inbox[c]) \in Seq(Readable(c)) /\ r \in Readable(c)
    BY <2>2
  <2>4. /\ inbox' = [inbox EXCEPT ![c] = Tail(inbox[c])] /\ asked' = [asked EXCEPT ![c] = Append(asked[c], r)]
        /\ ipc' = [ipc EXCEPT ![c] = step] /\ UNCHANGED <<posted, performed>>
    BY <2>1 DEF Begins
  <2>5. ipc'[c] \in {"lock", "send"} => Fit(r)
    BY <1>1, <1>7, <2>2, ReadsFit DEF InboundType
  <2> HIDE DEF r
  <2>6. \A d \in Callers : inbox'[d] \in Seq(Readable(d))
    BY <1>1, <2>3, <2>4 DEF HostInv, InboundType
  <2>7. /\ asked'[c] = Append(asked[c], r) /\ \A d \in Callers \ {c} : asked'[d] = asked[d] /\ ipc'[d] = ipc[d]
    BY <1>1, <2>4 DEF InboundType
  <2>8. \A q, x : q \in Seq(Inbound!Requests) =>
            /\ Len(Append(q, x)) = Len(q) + 1 /\ Append(q, x)[Len(q) + 1] = x
            /\ \A i \in 1..Len(q) : Append(q, x)[i] = q[i] /\ i \in 1..Len(Append(q, x))
    OBVIOUS
  <2>9. /\ Len(asked'[c]) = n + 1 /\ asked'[c][n + 1] = r
        /\ \A i \in 1..n : asked'[c][i] = asked[c][i] /\ i \in 1..Len(asked'[c])
    BY <1>1, <2>7, <2>8
  <2>10. \A d \in Callers : ipc'[d] \in {"lock", "send"} => Fit(asked'[d][Len(asked'[d])])
    BY <2>5, <2>7, <2>9 DEF HostInv
  <2>11. ASSUME NEW m \in posted \cup performed
         PROVE  m.n \in 1..Len(asked'[m.by]) /\ Fit(asked'[m.by][m.n])
    <3>1. m.by \in Callers /\ m.n \in 1..Len(asked[m.by]) /\ Fit(asked[m.by][m.n])
      BY <1>1 DEF HostInv
    <3>2. CASE m.by = c
      BY <2>9, <3>1, <3>2
    <3>3. CASE m.by # c
      BY <2>7, <3>1, <3>3
    <3> QED
      BY <3>2, <3>3
  <2>12. (\A d \in Callers : inbox[d] \in Seq(Readable(d)))'
    BY <2>6 DEF Readable
  <2> QED
    BY <2>4, <2>10, <2>11, <2>12 DEF HostInv
<1> QED
  BY <1>3, <1>4, <1>5, <1>6, <1>7 DEF Inbound!Next, Inbound!Handles, Inbound!Reads, Callers

(* What the desktop has carried out is clean.                              *)
LEMMA HostInputCleanAlone ==
    ASSUME Inbound!InboundAssumption
    PROVE  Inbound!Init /\ [][Inbound!Next]_(Inbound!vars) => []Inbound!HostInputClean
<1>1. Inbound!Init => InboundInv
  BY InboundInitially
<1>2. Inbound!Init => HostInv
  <2> SUFFICES ASSUME Inbound!Init
               PROVE  HostInv
    OBVIOUS
  <2>1. PICK first \in [Clients -> Scripts], call \in [Calls -> RpcRequests] :
            inbox = [c \in Callers |-> IF c \in Clients THEN first[c] ELSE <<call[c]>>]
    BY DEF Inbound!Init, Callers
  <2>2. ipc = [c \in Callers |-> "read"] /\ posted = {} /\ performed = {}
    BY DEF Inbound!Init, Callers
  <2>3. ASSUME NEW c \in Clients
        PROVE  inbox[c] \in Seq(Frames)
    <3> DEFINE s == first[c]
    <3>1. inbox[c] = s /\ s \in Scripts
      BY <2>1 DEF Callers, Inbound!Callers
    <3> HIDE DEF s
    <3>2. s \in Seq(Inbound!Range(s)) /\ Inbound!Range(s) \subseteq Frames
      BY <3>1 DEF Inbound!InboundAssumption, Frames
    <3> HIDE DEF Inbound!Range
    <3> QED
      BY <3>1, <3>2
  <2>4. ASSUME NEW c \in Callers \ Clients
        PROVE  inbox[c] \in Seq(RpcRequests)
    BY <2>1 DEF Callers, Inbound!Callers
  <2> QED
    BY <2>2, <2>3, <2>4 DEF HostInv, Readable
<1>3. InboundInv /\ HostInv /\ [Inbound!Next]_(Inbound!vars) => InboundInv' /\ HostInv'
  BY InboundStep, HostInputStep
<1>4. InboundInv /\ HostInv => Inbound!HostInputClean
  <2> SUFFICES ASSUME InboundInv, HostInv, NEW m \in performed
               PROVE  Clean(asked[m.by][m.n])
    BY DEF Inbound!HostInputClean, Clean
  <2>1. m.by \in Callers /\ m.n \in 1..Len(asked[m.by]) /\ Fit(asked[m.by][m.n])
    BY DEF InboundInv, InboundType, HostInv
  <2>2. asked[m.by] \in Seq(Inbound!Requests)
    BY <2>1 DEF InboundInv, InboundType
  <2>3. asked[m.by][m.n] \in Inbound!Requests
    BY <2>1, <2>2
  <2> QED
    BY <2>1, <2>3, FitIsClean
<1> QED
  BY <1>1, <1>2, <1>3, <1>4, PTL

--------------------------------------------------------------------------------
(* Configuration                                                           *)

\* The strongest of file and defaults, and of environment, file and defaults.
FromFile(s) == IF Config!Sets("file", s) THEN layer.file[s] ELSE Config!DefaultConfig[s]
FromEnv(s) == IF Config!Sets("env", s) THEN layer.env[s] ELSE FromFile(s)

Decoded == {"managers", "server", "ticker", "running", "panicked"}

\* How far the layers have been merged at each step of the start.
Merged ==
    /\ layer \in [file : FileLayers, env : EnvLayers, flag : FlagLayers]
    /\ confFile \in {"none", "unreadable", "malformed", "ok"}
    /\ start = "file" => conf = Config!DefaultConfig
    /\ start = "env" => \A s \in Config!Settings : conf[s] = FromFile(s)
    /\ start = "flags" => \A s \in Config!Settings : conf[s] = FromEnv(s)
    /\ start \in Decoded =>
          /\ \A s \in Config!Settings : conf[s] = Config!Reference(s)
          /\ conf["update_interval_ms"] # Bad

ManagersThere == start \in Decoded \ {"managers"} => \A m \in Config!Managers : manager[m] # Nil

PanicsByInterval == start = "panicked" => ~(conf["update_interval_ms"] > 0)

ConfigInv == Merged /\ ManagersThere /\ PanicsByInterval /\ Config!BindsLoopback

(* Which layers reach a setting.                                           *)
LEMMA SetsIs ==
    ASSUME NEW s
    PROVE  /\ Config!Sets("flag", s) <=> s \in Config!GivenFlags(layer.flag)
           /\ Config!Sets("env", s) <=> s \in DOMAIN layer.env \ Config!Underscored
           /\ Config!Sets("file", s) <=> confFile = "ok" /\ s \in DOMAIN layer.file
BY DEF Config!Sets

(* Reference, with the layers below the flags taken together.              *)
LEMMA ReferenceIs ==
    ASSUME NEW s \in Config!Settings
    PROVE  Config!Reference(s) = IF s = "log_level" /\ verbose THEN "debug"
                                 ELSE IF Config!Sets("flag", s) THEN layer.flag[s] ELSE FromEnv(s)
BY DEF Config!Reference, FromEnv, FromFile

(* What merging a layer, or a part of one, gives.                          *)
LEMMA MergeIs ==
    ASSUME NEW old, NEW new, NEW S, NEW s \in Config!Settings
    PROVE  /\ Config!Merge(old, new)[s] = IF s \in DOMAIN new THEN new[s] ELSE old[s]
           /\ Config!Merge(old, Config!Restrict(new, S))[s] = IF s \in S THEN new[s] ELSE old[s]
           /\ DOMAIN Config!Merge(old, new) = Config!Settings
BY DEF Config!Merge, Config!Restrict

(* The layers stay what they are, and so does what they say.               *)
LEMMA LayersFixed ==
    ASSUME [Config!Next]_(Config!vars)
    PROVE  /\ UNCHANGED <<confFile, layer, verbose>>
           /\ \A s : /\ FromFile(s)' = FromFile(s) /\ FromEnv(s)' = FromEnv(s)
                     /\ Config!Reference(s)' = Config!Reference(s)
<1>1. UNCHANGED <<confFile, layer, verbose>>
      BY DEF Config!Next, Config!LoadFile, Config!LoadEnv, Config!ApplyFlags, Config!ResolveManagers,
             Config!NewServer, Config!NewTicker, Config!vars
<1>2. \A l, s : Config!Sets(l, s)' <=> Config!Sets(l, s)
      BY <1>1 DEF Config!Sets
<1> QED
    BY <1>1, <1>2 DEF FromFile, FromEnv, Config!Reference

(* Each step of the start merges its layer, or uses the result.            *)
LEMMA ConfigStep ==
    ASSUME Config!ConfigAssumption, ConfigInv, [Config!Next]_(Config!vars)
    PROVE  ConfigInv'
<1>1. /\ UNCHANGED <<layer, confFile>>
      /\ \A s : /\ FromFile(s)' = FromFile(s) /\ FromEnv(s)' = FromEnv(s)
                /\ Config!Reference(s)' = Config!Reference(s)
      BY LayersFixed
<1>2. "update_interval_ms" \in Config!Settings /\ "log_level" \in Config!Settings
      BY DEF Config!Settings
<1> USE DEF ConfigInv, Merged, ManagersThere, PanicsByInterval, Config!BindsLoopback, Decoded
<1>3. CASE Config!LoadFile
      <2>1. /\ start = "file" /\ UNCHANGED <<manager, bound>>
            /\ \/ start' = "failed" /\ conf' = conf
               \/ /\ start' = "env" /\ confFile \notin {"unreadable", "malformed"}
                  /\ conf' = IF confFile = "none" THEN conf ELSE Config!Merge(conf, layer.file)
            BY <1>3 DEF Config!LoadFile
      <2>2. CASE start' = "failed"
            BY <1>1, <2>1, <2>2
      <2>3. CASE start' = "env"
            <3>1. ASSUME NEW s \in Config!Settings
                  PROVE  conf'[s] = FromFile(s)
                  <4>1. confFile \in {"none", "ok"}
                        BY <2>1, <2>3 DEF ConfigInv
                  <4>2. conf[s] = Config!DefaultConfig[s]
                        BY <2>1
                  <4>3. CASE confFile = "none"
                        BY <2>1, <2>3, <4>2, <4>3, SetsIs DEF FromFile
                  <4>4. CASE confFile = "ok"
                        <5>1. conf' = Config!Merge(conf, layer.file)
                              BY <2>1, <2>3, <4>4
                        <5>2. conf'[s] = IF s \in DOMAIN layer.file THEN layer.file[s] ELSE conf[s]
                              BY <5>1 DEF Config!Merge
                        <5>3. Config!Sets("file", s) <=> s \in DOMAIN layer.file
                              BY <4>4, SetsIs
                        <5> QED
                            BY <4>2, <5>2, <5>3 DEF FromFile
                  <4> QED
                      BY <4>1, <4>3, <4>4
            <3> QED
                BY <1>1, <2>1, <2>3, <3>1
      <2> QED
          BY <2>1, <2>2, <2>3
<1>4. CASE Config!LoadEnv
      <2>1. /\ start = "env" /\ start' = "flags" /\ UNCHANGED <<manager, bound>>
            /\ conf' = Config!Merge(conf, Config!Restrict(layer.env, DOMAIN layer.env \ Config!Underscored))
            BY <1>4 DEF Config!LoadEnv
      <2>2. \A s \in Config!Settings : conf'[s] = FromEnv(s)
            BY <2>1, MergeIs, SetsIs DEF FromEnv
      <2> QED
          BY <1>1, <2>1, <2>2
<1>5. CASE Config!ApplyFlags
      <2> DEFINE given == Config!GivenFlags(layer.flag)
                 merged == Config!Merge(conf, Config!Restrict(layer.flag, given))
      <2>1. /\ start = "flags" /\ UNCHANGED <<manager, bound>>
            /\ \/ start' = "failed" /\ conf' = conf
               \/ /\ start' = "managers" /\ ~\E s \in Config!Settings : merged[s] = Bad
                  /\ conf' = [merged EXCEPT !.log_level = IF verbose THEN "debug" ELSE @]
            BY <1>5 DEF Config!ApplyFlags
      <2>2. DOMAIN merged = Config!Settings /\ merged = [s \in Config!Settings |-> merged[s]]
            BY DEF Config!Merge
      <2>3. \A s \in Config!Settings : merged[s] = IF Config!Sets("flag", s) THEN layer.flag[s] ELSE FromEnv(s)
            BY <2>1, MergeIs, SetsIs
      <2> HIDE DEF merged, given
      <2>4. CASE start' = "failed"
            BY <1>1, <2>1, <2>4
      <2>5. CASE start' = "managers"
            <3>1. \A s \in Config!Settings : conf'[s] = IF s = "log_level" /\ verbose THEN "debug" ELSE merged[s]
                  BY <1>2, <2>1, <2>2, <2>5
            <3>2. \A s \in Config!Settings : conf'[s] = Config!Reference(s)
                  BY <2>3, <3>1, ReferenceIs
            <3>3. conf'["update_interval_ms"] # Bad
                  BY <1>2, <2>1, <2>5, <3>1
            <3> QED
                BY <1>1, <2>1, <2>5, <3>2, <3>3
      <2> QED
          BY <2>1, <2>4, <2>5
<1>6. CASE Config!ResolveManagers
      <2>1. start = "managers" /\ start' = "server" /\ UNCHANGED <<conf, bound>>
            BY <1>6 DEF Config!ResolveManagers
      <2>2. \A m \in Config!Managers : manager'[m] # Nil
            BY <1>6 DEF Config!ResolveManagers, Config!ConfigAssumption
      <2> QED
          BY <1>1, <2>1, <2>2
<1>7. CASE Config!NewServer
      <2>1. /\ start = "server" /\ start' = "ticker" /\ UNCHANGED <<conf, manager>>
            /\ bound' = [host |-> IF conf["host"] \in Config!Loopback THEN conf["host"] ELSE "127.0.0.1",
                         port |-> IF conf["port"] = 0 THEN 12345 ELSE conf["port"]]
            BY <1>7 DEF Config!NewServer
      <2>2. bound'.host \in Config!Loopback /\ bound'.port # 0
            BY <2>1 DEF Config!Loopback
      <2> QED
          BY <1>1, <2>1, <2>2
<1>8. CASE Config!NewTicker
      <2>1. /\ start = "ticker" /\ start' = IF conf["update_interval_ms"] > 0 THEN "running" ELSE "panicked"
            /\ UNCHANGED <<conf, manager, bound>>
            BY <1>8 DEF Config!NewTicker
      <2> QED
          BY <1>1, <2>1
<1>9. CASE UNCHANGED Config!vars
      <2>1. UNCHANGED <<start, conf, manager, bound>>
            BY <1>9 DEF Config!vars
      <2> QED
          BY <1>1, <2>1
<1> QED
    BY <1>3, <1>4, <1>5, <1>6, <1>7, <1>8, <1>9 DEF Config!Next

(* The settings decoded are those of the reference.                        *)
LEMMA StartsAsConfiguredAlone ==
    ASSUME Config!ConfigAssumption
    PROVE  Config!Init /\ [][Config!Next]_(Config!vars) => []Config!StartsAsConfigured
<1>1. Config!Init => ConfigInv
      BY DEF Config!Init, ConfigInv, Merged, ManagersThere, PanicsByInterval, Config!BindsLoopback, Decoded
<1>2. ConfigInv /\ [Config!Next]_(Config!vars) => ConfigInv'
      BY ConfigStep
<1>3. ConfigInv => Config!StartsAsConfigured
      <2> SUFFICES ASSUME ConfigInv
                   PROVE  Config!StrongestLayerWins /\ Config!PanicsOnlyByFile
          BY DEF ConfigInv, Config!StartsAsConfigured
      <2>1. Config!StrongestLayerWins
            BY DEF ConfigInv, Merged, ManagersThere, Decoded, Config!StrongestLayerWins
      <2>2. ASSUME start = "panicked"
            PROVE  confFile = "ok" /\ "update_interval_ms" \in DOMAIN layer.file /\
                   layer.file["update_interval_ms"] <= 0
            <3> DEFINE s == "update_interval_ms"
            <3>1. s \in Config!Settings /\ s # "log_level" /\ s \in Config!Underscored
                  BY DEF Config!Settings, Config!Underscored
            <3>2. /\ conf[s] = Config!Reference(s) /\ conf[s] # Bad /\ ~(conf[s] > 0)
                  /\ layer.file \in FileLayers /\ layer.flag \in FlagLayers
                  BY <2>2, <3>1 DEF ConfigInv, Merged, PanicsByInterval, Decoded
            <3>3. ~Config!Sets("flag", s)
                  <4>1. DOMAIN layer.flag \subseteq {"port", "log_level"}
                        BY <3>2 DEF Config!ConfigAssumption
                  <4>2. s \notin DOMAIN layer.flag
                        BY <4>1
                  <4>3. s \notin Config!GivenFlags(layer.flag)
                        BY <4>2 DEF Config!GivenFlags
                  <4> QED
                      BY <4>3, SetsIs
            <3>4. ~Config!Sets("env", s)
                  BY <3>1, SetsIs
            <3>5. conf[s] = FromFile(s)
                  BY <3>1, <3>2, <3>3, <3>4, ReferenceIs DEF FromEnv
            <3>6. Config!DefaultConfig[s] = 1000
                  BY DEF Config!DefaultConfig, Config!Settings
            <3>7. Config!Sets("file", s)
                  BY <3>2, <3>5, <3>6 DEF FromFile
            <3>8. confFile = "ok" /\ s \in DOMAIN layer.file /\ conf[s] = layer.file[s]
                  BY <3>5, <3>7, SetsIs DEF FromFile
            <3>9. layer.file[s] \in Int
                  BY <3>2, <3>8 DEF Config!ConfigAssumption
            <3> QED
                BY <3>2, <3>8, <3>9
      <2> QED
          BY <2>1, <2>2 DEF Config!PanicsOnlyByFile
<1> QED
    BY <1>1, <1>2, <1>3, PTL

--------------------------------------------------------------------------------
(* Sensors                                                                 *)

GpuMetrics == Sense!GpuMetrics

(* Sensors.FlagsMatchValues for the GPU alone: what one readGPU returns.   *)
GpuFlagsMatch(h, g) ==
    /\ g.flags \subseteq Sense!GpuFlags
    /\ \A m \in GpuMetrics :
          /\ Sense!FlagOf(m) \in g.flags /\ g.metrics[m] = {} => Sense!Unparsed(h, m)
          /\ Sense!FlagOf(m) \notin g.flags /\ g.metrics[m] # {} =>
                /\ m \in {"vramUsed", "vramTotal"}
                /\ g.metrics["vramUsed"] = {} \/ g.metrics["vramTotal"] = {}

(* A field of nvidia-smi's answer that can be parsed is reported.          *)
LEMMA FieldParsed ==
    ASSUME NEW h, NEW m \in GpuMetrics \ {"vramTemp"}
    PROVE  /\ m \in DOMAIN Sense!NvidiaField
           /\ h[Sense!NvidiaField[m]] = "ok" => Sense!ReadNvidiaGPU(h)[m] = {Sense!NvidiaField[m]}
<1>1. DOMAIN Sense!NvidiaField = {"gpuTemp", "gpuUsage", "vramUsed", "vramTotal", "gpuFreq", "gpuPower", "vramFreq"}
      BY DEF Sense!NvidiaField
<1>2. m \in DOMAIN Sense!NvidiaField
      BY <1>1 DEF GpuMetrics, Sense!GpuMetrics, Sense!GpuSensors
<1>3. Sense!ReadNvidiaGPU(h)[m] = Sense!Every(h, {Sense!NvidiaField[m]})
      BY DEF Sense!ReadNvidiaGPU, GpuMetrics
<1>4. h[Sense!NvidiaField[m]] = "ok" => Sense!Every(h, {Sense!NvidiaField[m]}) = {Sense!NvidiaField[m]}
      BY DEF Sense!Every
<1> QED
    BY <1>2, <1>3, <1>4

(* The flags readGPU assigns are those of the metrics it read, whichever   *)
(* of nvidia-smi, sysfs and neither answered.                              *)
LEMMA ReadGPUMatches ==
    ASSUME NEW h
    PROVE  GpuFlagsMatch(h, Sense!ReadGPU(h))
<1> DEFINE g == Sense!ReadGPU(h)
           sysfs == Sense!ReadSysfsGPU(h)
<1> SUFFICES GpuFlagsMatch(h, g)
    OBVIOUS
<1>1. CASE Sense!NvidiaAnswers(h)
      <2>1. g.metrics = Sense!ReadNvidiaGPU(h) /\ g.flags = Sense!GpuFlags \ {"vramTemp"}
            BY <1>1 DEF Sense!ReadGPU
      <2>2. g.metrics["vramTemp"] = {}
            BY <2>1 DEF Sense!ReadNvidiaGPU, Sense!GpuMetrics, Sense!GpuSensors
      <2>3. ASSUME NEW m \in GpuMetrics \ {"vramTemp"}
            PROVE  /\ g.metrics[m] = {} => Sense!Unparsed(h, m)
                   /\ Sense!FlagOf(m) \in g.flags
            <3>1. h[Sense!NvidiaField[m]] = "ok" => g.metrics[m] # {}
                  BY <2>1, FieldParsed
            <3>2. Sense!FlagOf(m) \in g.flags
                  BY <2>1 DEF GpuMetrics, Sense!GpuMetrics, Sense!FlagOf, Sense!GpuFlags, Sense!GpuSensors
            <3> QED
                BY <1>1, <3>1, <3>2, FieldParsed DEF Sense!Unparsed
      <2>4. Sense!FlagOf("vramTemp") = "vramTemp" /\ "vramTemp" \notin g.flags
            BY <2>1 DEF Sense!FlagOf
      <2>5. g.flags \subseteq Sense!GpuFlags
            BY <2>1
      <2> HIDE DEF g
      <2> QED
          BY <2>2, <2>3, <2>4, <2>5 DEF GpuFlagsMatch
<1>2. CASE ~Sense!NvidiaAnswers(h) /\ h["drm"] # "absent"
      <2>1. g.metrics = sysfs /\ g.flags = Sense!SysfsFlags(sysfs)
            BY <1>2 DEF Sense!ReadGPU
      <2>2. Sense!SysfsFlags(sysfs) = {"gpu"} \cup {m \in Sense!GpuSensors : sysfs[m] # {}}
                         \cup (IF sysfs["vramUsed"] # {} /\ sysfs["vramTotal"] # {} THEN {"vram"} ELSE {})
            BY DEF Sense!SysfsFlags
      <2> HIDE DEF g, sysfs
      <2> QED
          BY <2>1, <2>2 DEF GpuFlagsMatch, GpuMetrics, Sense!GpuMetrics, Sense!FlagOf, Sense!GpuFlags, Sense!GpuSensors
<1>3. CASE ~Sense!NvidiaAnswers(h) /\ h["drm"] = "absent"
      <2>1. g.metrics = [m \in GpuMetrics |-> {}] /\ g.flags = {}
            BY <1>3 DEF Sense!ReadGPU, GpuMetrics
      <2> HIDE DEF g
      <2> QED
          BY <2>1 DEF GpuFlagsMatch
<1> QED
    BY <1>1, <1>2, <1>3

(* One tick's values and flags: those of the host and its GPU's.           *)
LEMMA TickMatches ==
    ASSUME Sense!SensorsAssumption, NEW h \in Hosts, Sense!Tick(h)
    PROVE  Sense!FlagsMatchValues'
<1> DEFINE g == Sense!ReadGPU(h)
           read == Sense!ReadHost(h)
           H == Sense!HostMetrics
<1>1. /\ host' = h
      /\ value' = [m \in Sense!Metrics |-> IF m \in H THEN read[m] ELSE g.metrics[m]]
      /\ flags' = Sense!HostFlags(h, read) \cup g.flags
      BY DEF Sense!Tick
<1>2. Sense!HostFlags(h, read) = {m \in H : read[m] # {} \/ (m = "cpuPower" /\ h["energy"] # "absent")}
      BY DEF Sense!HostFlags
<1>3. GpuFlagsMatch(h, g)
      BY ReadGPUMatches
<1>4. Sense!Metrics = H \cup GpuMetrics /\ H \cap Sense!GpuFlags = {}
      BY DEF Sense!Metrics, Sense!HostMetrics, GpuMetrics, Sense!GpuMetrics, Sense!GpuSensors, Sense!GpuFlags
<1>5. h["energy"] = "ok" => read["cpuPower"] # {}
      <2>1. h["energy"] = "ok" => Sense!First(h, <<"energy">>) # {}
            BY DEF Sense!First
      <2>2. read["cpuPower"] = Sense!First(h, <<"energy">>)
            BY DEF Sense!ReadHost, Sense!ReadEnergy, Sense!HostMetrics
      <2> QED
          BY <2>1, <2>2
<1>6. h["energy"] \in {"absent", "garbled", "ok"}
      BY DEF Sense!SensorsAssumption, Sense!Files
<1> HIDE DEF read, g
<1>7. ASSUME NEW m \in H
      PROVE  /\ Sense!FlagOf(m) = m /\ value'[m] = read[m]
             /\ m \in flags' <=> m \in Sense!HostFlags(h, read)
      <2>1. Sense!FlagOf(m) = m
            BY DEF Sense!HostMetrics, Sense!FlagOf
      <2> QED
          BY <1>1, <1>3, <1>4, <2>1 DEF GpuFlagsMatch
<1>8. ASSUME NEW m \in H
      PROVE  /\ Sense!FlagOf(m) \in flags' /\ value'[m] = {} => Sense!Unparsed(host', m)
             /\ Sense!FlagOf(m) \notin flags' => value'[m] = {}
      <2>1. m \in Sense!HostFlags(h, read) <=> read[m] # {} \/ (m = "cpuPower" /\ h["energy"] # "absent")
            BY <1>2
      <2>2. m = "cpuPower" /\ h["energy"] = "garbled" => Sense!Unparsed(h, m)
            BY DEF Sense!Unparsed
      <2>3. /\ Sense!FlagOf(m) = m /\ value'[m] = read[m] /\ host' = h
            /\ m \in flags' <=> m \in Sense!HostFlags(h, read)
            BY <1>1, <1>7
      <2>4. read[m] = {} /\ m = "cpuPower" => h["energy"] # "ok"
            BY <1>5
      <2>5. m \in flags' /\ read[m] = {} => Sense!Unparsed(h, m)
            BY <1>6, <2>1, <2>2, <2>3, <2>4
      <2>6. m \notin flags' => read[m] = {}
            BY <2>1, <2>3
      <2> QED
          BY <2>3, <2>5, <2>6
<1>9. ASSUME NEW m \in GpuMetrics
      PROVE  /\ value'[m] = g.metrics[m]
             /\ Sense!FlagOf(m) \in flags' <=> Sense!FlagOf(m) \in g.flags
      <2>1. m \notin H /\ Sense!FlagOf(m) \notin H
            BY DEF GpuMetrics, Sense!GpuMetrics, Sense!GpuSensors, Sense!HostMetrics, Sense!FlagOf
      <2>2. Sense!HostFlags(h, read) \subseteq H
            BY <1>2
      <2> QED
          BY <1>1, <1>4, <2>1, <2>2
<1>10. "vramUsed" \in GpuMetrics /\ "vramTotal" \in GpuMetrics
       BY DEF GpuMetrics, Sense!GpuMetrics
<1>11. ASSUME NEW m \in GpuMetrics
       PROVE  /\ Sense!FlagOf(m) \in flags' /\ value'[m] = {} => Sense!Unparsed(host', m)
              /\ Sense!FlagOf(m) \notin flags' /\ value'[m] # {} =>
                    /\ m \in {"vramUsed", "vramTotal"}
                    /\ value'["vramUsed"] = {} \/ value'["vramTotal"] = {}
       BY <1>1, <1>3, <1>9, <1>10 DEF GpuFlagsMatch
<1> HIDE DEF H
<1>12. ASSUME NEW m \in Sense!Metrics
       PROVE  /\ Sense!FlagOf(m) \in flags' /\ value'[m] = {} => Sense!Unparsed(host', m)
              /\ Sense!FlagOf(m) \notin flags' /\ value'[m] # {} =>
                    /\ m \in {"vramUsed", "vramTotal"}
                    /\ value'["vramUsed"] = {} \/ value'["vramTotal"] = {}
       <2>1. CASE m \in H
             BY <2>1, <1>8
       <2>2. CASE m \in GpuMetrics
             BY <2>2, <1>11
       <2> QED
           BY <1>4, <2>1, <2>2
<1> QED
    BY <1>12 DEF Sense!FlagsMatchValues

(* Every read assigns every flag.                                          *)
LEMMA FlagsMatchValuesAlone ==
    ASSUME Sense!SensorsAssumption
    PROVE  Sense!Init /\ [][Sense!Next]_(Sense!vars) => []Sense!FlagsMatchValues
<1>1. Sense!Init => Sense!FlagsMatchValues
      BY DEF Sense!Init, Sense!FlagsMatchValues
<1>2. Sense!FlagsMatchValues /\ [Sense!Next]_(Sense!vars) => Sense!FlagsMatchValues'
      <2> SUFFICES ASSUME Sense!FlagsMatchValues, [Sense!Next]_(Sense!vars)
                   PROVE  Sense!FlagsMatchValues'
          OBVIOUS
      <2>1. CASE Sense!Next
            BY <2>1, TickMatches DEF Sense!Next
      <2>2. CASE UNCHANGED Sense!vars
            BY <2>2 DEF Sense!vars, Sense!FlagsMatchValues
      <2> QED
          BY <2>1, <2>2
<1> QED
    BY <1>1, <1>2, PTL

--------------------------------------------------------------------------------
(* CpuCounters                                                             *)

\* The types of the variables, with those TypeOK leaves out.
CounterTypes ==
    /\ workload \in Workloads /\ times \in Counters!Times /\ energy \in 0..MaxEnergy - 1
    /\ cores \in Seq(Counters!Times) /\ Len(cores) \in 1..MaxCores
    /\ lastCPUTimes = Nil \/ lastCPUTimes \in Counters!Times
    /\ lastCoresCPUTimes = Nil \/ lastCoresCPUTimes \in Seq(Counters!Times)
    /\ lastEnergy = Nil \/ lastEnergy \in 0..MaxEnergy - 1
    /\ gap \in Nat /\ spent \in Nat

CounterMetrics == usage \in Int /\ coresUsage \in Seq(Int) /\ power \in Nat

(* A remainder is no larger than what it is taken of.                      *)
LEMMA RemainderBelow == ASSUME NEW a \in Nat, NEW m \in Nat \ {0} PROVE a % m \in Nat /\ a % m <= a
BY SMT

(* A quotient times its divisor does not exceed the dividend.              *)
LEMMA QuotientBelow == ASSUME NEW a \in Nat, NEW m \in Nat \ {0} PROVE (a \div m) * m <= a
BY SMT

(* A part of a whole is a percentage of it.                                *)
LEMMA PartOfWhole ==
    ASSUME NEW b \in Nat, NEW t \in Nat \ {0}, b <= t
    PROVE  (b * 100) \div t \in 0..100
BY SMT

(* calculateCPUUsage returns a number, though not always a percentage.     *)
LEMMA UsageIsNumber ==
    ASSUME Counters!CountersAssumption, NEW last \in Counters!Times, NEW current \in Counters!Times
    PROVE  Counters!CalculateCPUUsage(last, current) \in Int
<1> DEFINE total == (current.busy + current.idle) - (last.busy + last.idle)
           busy == current.busy - last.busy
<1>1. total \in Int /\ busy \in Int
  BY DEF Counters!Times, Counters!CountersAssumption
<1>2. Counters!CalculateCPUUsage(last, current) = IF total <= 0 THEN 0 ELSE (busy * 100) \div total
  BY DEF Counters!CalculateCPUUsage
<1> HIDE DEF total, busy
<1>3. CASE total <= 0
  BY <1>2, <1>3
<1>4. CASE ~(total <= 0)
  <2>1. total \in Nat \ {0} /\ busy * 100 \in Int
    BY <1>1, <1>4
  <2>2. (busy * 100) \div total \in Int
    BY <2>1
  <2> QED
    BY <1>2, <1>4, <2>2
<1> QED
  BY <1>3, <1>4

(* A tick of the workload.                                                 *)
LEMMA TickIs ==
    ASSUME Counters!CountersAssumption, CounterTypes, NEW tick \in workload.ticks
    PROVE  /\ tick.host \in Counters!Times /\ tick.used \in Nat
           /\ \A i \in DOMAIN cores : tick.cores[i] \in Counters!Times
<1>1. tick \in Counters!Ticks
  BY DEF Counters!CountersAssumption, CounterTypes
<1>2. tick.host \in Counters!Times /\ tick.used \in Nat /\ tick.cores \in [1..MaxCores -> Counters!Times]
  BY <1>1 DEF Counters!Ticks
<1>3. \A i \in DOMAIN cores : i \in 1..MaxCores
  BY DEF CounterTypes, Counters!CountersAssumption
<1> QED
  BY <1>2, <1>3

(* A list without one of its entries, and with another one.                *)
LEMMA ListEdited ==
    ASSUME NEW S, NEW s \in Seq(S)
    PROVE  /\ \A i \in 1..Len(s) :
                Counters!RemoveAt(s, i) \in Seq(S) /\ Len(Counters!RemoveAt(s, i)) = Len(s) - 1
           /\ \A i \in 1..Len(s) + 1, e \in S :
                Counters!InsertAt(s, i, e) \in Seq(S) /\ Len(Counters!InsertAt(s, i, e)) = Len(s) + 1
<1>1. ASSUME NEW i \in 1..Len(s)
      PROVE  Counters!RemoveAt(s, i) \in Seq(S) /\ Len(Counters!RemoveAt(s, i)) = Len(s) - 1
  <2> DEFINE front == SubSeq(s, 1, i - 1)
             rest == SubSeq(s, i + 1, Len(s))
  <2>1. front \in Seq(S) /\ Len(front) = i - 1
    OBVIOUS
  <2>2. rest \in Seq(S) /\ Len(rest) = Len(s) - i
    OBVIOUS
  <2>3. Counters!RemoveAt(s, i) = front \o rest
    BY DEF Counters!RemoveAt
  <2> HIDE DEF front, rest
  <2>4. front \o rest \in Seq(S) /\ Len(front \o rest) = Len(front) + Len(rest)
    BY <2>1, <2>2, ConcatProperties
  <2> QED
    BY <2>1, <2>2, <2>3, <2>4
<1>2. ASSUME NEW i \in 1..Len(s) + 1, NEW e \in S
      PROVE  Counters!InsertAt(s, i, e) \in Seq(S) /\ Len(Counters!InsertAt(s, i, e)) = Len(s) + 1
  <2> DEFINE front == SubSeq(s, 1, i - 1)
             rest == SubSeq(s, i, Len(s))
             one == <<e>>
  <2>1. front \in Seq(S) /\ Len(front) = i - 1
    OBVIOUS
  <2>2. rest \in Seq(S) /\ Len(rest) = Len(s) - i + 1
    OBVIOUS
  <2>3. one \in Seq(S) /\ Len(one) = 1
    OBVIOUS
  <2>4. Counters!InsertAt(s, i, e) = front \o one \o rest
    BY DEF Counters!InsertAt
  <2> HIDE DEF front, rest, one
  <2>5. front \o one \in Seq(S) /\ Len(front \o one) = Len(front) + Len(one)
    BY <2>1, <2>3, ConcatProperties
  <2> DEFINE both == front \o one
  <2> HIDE DEF both
  <2>6. both \o rest \in Seq(S) /\ Len(both \o rest) = Len(both) + Len(rest)
    BY <2>2, <2>5, ConcatProperties DEF both
  <2>7. Counters!InsertAt(s, i, e) = both \o rest
    BY <2>4 DEF both
  <2>8. Len(both) = i
    BY <2>1, <2>3, <2>5 DEF both
  <2> QED
    BY <2>2, <2>6, <2>7, <2>8
<1> QED
  BY <1>1, <1>2

(* Cores that come and go leave a list of the cores there are.             *)
LEMMA HotplugTypes ==
    ASSUME Counters!CountersAssumption, CounterTypes, Counters!Hotplug
    PROVE  cores' \in Seq(Counters!Times) /\ Len(cores') \in 1..MaxCores
<1> DEFINE S == Counters!Times
<1>1. cores \in Seq(S) /\ Len(cores) \in 1..MaxCores /\ MaxCores \in Nat /\ workload.plugs \subseteq S
  BY DEF CounterTypes, Counters!CountersAssumption
<1>2. \/ Len(cores) > 1 /\ \E i \in 1..Len(cores) : cores' = Counters!RemoveAt(cores, i)
      \/ /\ Len(cores) < MaxCores
         /\ \E i \in 1..Len(cores) + 1, t \in workload.plugs : cores' = Counters!InsertAt(cores, i, t)
  BY <1>1 DEF Counters!Hotplug
<1> HIDE DEF S
<1>3. ASSUME Len(cores) > 1, NEW i \in 1..Len(cores), cores' = Counters!RemoveAt(cores, i)
      PROVE  cores' \in Seq(S) /\ Len(cores') = Len(cores) - 1
  BY <1>1, <1>3, ListEdited
<1>4. ASSUME Len(cores) < MaxCores, NEW i \in 1..Len(cores) + 1, NEW t \in workload.plugs,
             cores' = Counters!InsertAt(cores, i, t)
      PROVE  cores' \in Seq(S) /\ Len(cores') = Len(cores) + 1
  <2>1. t \in S
    BY <1>1
  <2> QED
    BY <1>1, <1>4, <2>1, ListEdited
<1>5. /\ cores' \in Seq(S)
      /\ \/ Len(cores) > 1 /\ Len(cores') = Len(cores) - 1
         \/ Len(cores) < MaxCores /\ Len(cores') = Len(cores) + 1
  BY <1>2, <1>3, <1>4
<1> QED
  BY <1>1, <1>5 DEF S

(* The host moves, and the metrics are reset.                              *)
LEMMA HostTypes ==
    ASSUME Counters!CountersAssumption, CounterTypes,
           (\E tick \in workload.ticks : Counters!Run(tick)) \/ Counters!StepBack \/ Counters!Hotplug
    PROVE  CounterTypes' /\ CounterMetrics'
<1>1. CounterMetrics'
  <2>1. Counters!Broadcast
    BY DEF Counters!Run, Counters!StepBack, Counters!Hotplug
  <2> QED
    BY <2>1 DEF Counters!Broadcast, CounterMetrics
<1>2. ASSUME NEW tick \in workload.ticks, Counters!Run(tick)
      PROVE  CounterTypes'
  <2>1. energy + tick.used \in Nat /\ spent + tick.used \in Nat
    BY TickIs DEF CounterTypes
  <2>2. (energy + tick.used) % MaxEnergy \in 0..MaxEnergy - 1
    BY <2>1 DEF Counters!CountersAssumption
  <2>3. /\ times' \in Counters!Times /\ energy' = (energy + tick.used) % MaxEnergy
        /\ gap' = gap + 1 /\ spent' = spent + tick.used
        /\ UNCHANGED <<workload, lastCPUTimes, lastCoresCPUTimes, lastEnergy>>
    BY <1>2 DEF Counters!Run, Counters!lastVars
  <2>4. cores' \in Seq(Counters!Times) /\ Len(cores') = Len(cores)
    <3>1. cores' = [i \in 1..Len(cores) |-> Counters!Later(cores[i], tick.cores[i])]
      BY <1>2 DEF Counters!Run, CounterTypes
    <3>2. \A i \in 1..Len(cores) : cores'[i] \in Counters!Times
      BY <1>2 DEF Counters!Run, CounterTypes
    <3>3. Len(cores) \in Nat
      BY DEF CounterTypes
    <3> QED
      BY <3>1, <3>2, <3>3
  <2> QED
    BY <2>1, <2>2, <2>3, <2>4 DEF CounterTypes
<1>3. CASE Counters!StepBack
  <2>1. ASSUME NEW t \in Counters!Times PROVE Counters!Earlier(t) \subseteq Counters!Times
    BY DEF Counters!Earlier, Counters!Times, Counters!CountersAssumption
  <2>2. /\ \/ times' \in Counters!Earlier(times) /\ cores' = cores
           \/ /\ \E i \in DOMAIN cores : \E t \in Counters!Earlier(cores[i]) : cores' = [cores EXCEPT ![i] = t]
              /\ times' = times
        /\ UNCHANGED <<workload, energy, lastCPUTimes, lastCoresCPUTimes, lastEnergy, gap, spent>>
    BY <1>3 DEF Counters!StepBack, Counters!lastVars
  <2>3. times' \in Counters!Times
    BY <2>1, <2>2 DEF CounterTypes
  <2>4. cores' \in Seq(Counters!Times) /\ Len(cores') = Len(cores)
    <3>1. ASSUME NEW i \in DOMAIN cores, NEW t \in Counters!Earlier(cores[i]), cores' = [cores EXCEPT ![i] = t]
          PROVE  cores' \in Seq(Counters!Times) /\ Len(cores') = Len(cores)
      <4>1. t \in Counters!Times
        BY <2>1 DEF CounterTypes
      <4> QED
        BY <3>1, <4>1 DEF CounterTypes
    <3> QED
      BY <2>2, <3>1 DEF CounterTypes
  <2>5. UNCHANGED <<workload, energy, lastCPUTimes, lastCoresCPUTimes, lastEnergy, gap, spent>>
    BY <2>2
  <2> QED
    BY <1>1, <2>3, <2>4, <2>5 DEF CounterTypes
<1>4. CASE Counters!Hotplug
  <2>1. UNCHANGED <<workload, times, energy, lastCPUTimes, lastCoresCPUTimes, lastEnergy, gap, spent>>
    BY <1>4 DEF Counters!Hotplug, Counters!lastVars
  <2>2. cores' \in Seq(Counters!Times) /\ Len(cores') \in 1..MaxCores
    BY <1>4, HotplugTypes
  <2> QED
    BY <1>1, <2>1, <2>2 DEF CounterTypes
<1> QED
  BY <1>1, <1>2, <1>3, <1>4

(* ReadCPU takes its samples and computes the metrics.                     *)
LEMMA ReadTypes ==
    ASSUME Counters!CountersAssumption, CounterTypes,
           NEW t \in BOOLEAN, NEW c \in BOOLEAN, NEW e \in BOOLEAN, Counters!ReadCPU(t, c, e)
    PROVE  CounterTypes' /\ CounterMetrics'
<1>1. /\ lastCPUTimes' = IF t THEN times ELSE lastCPUTimes
      /\ lastCoresCPUTimes' = IF c THEN cores ELSE lastCoresCPUTimes
      /\ lastEnergy' = IF e THEN energy ELSE lastEnergy
      /\ IF e THEN gap' = 0 /\ spent' = 0 ELSE gap' = gap /\ spent' = spent
      /\ UNCHANGED <<workload, times, cores, energy>>
  BY DEF Counters!ReadCPU, Counters!UsageOf, Counters!CoresUsageOf, Counters!PowerOf, Counters!hostVars
<1>2. times \in Counters!Times
  BY DEF CounterTypes
<1>4. CounterTypes'
  BY <1>1 DEF CounterTypes
<1>5. usage' \in Int
  BY <1>2, UsageIsNumber DEF Counters!ReadCPU, Counters!UsageOf, CounterTypes
<1>6. coresUsage' \in Seq(Int)
  <2> DEFINE use(i) == IF Counters!Matched
                       THEN Counters!CalculateCPUUsage(lastCoresCPUTimes[i], cores[i]) ELSE 0
  <2>1. coresUsage' = IF c THEN [i \in 1..Len(cores) |-> use(i)] ELSE <<>>
    BY DEF Counters!ReadCPU, Counters!CoresUsageOf, CounterTypes
  <2>2. ASSUME NEW i \in 1..Len(cores) PROVE use(i) \in Int
    <3>1. CASE Counters!Matched
      <4>1. lastCoresCPUTimes[i] \in Counters!Times /\ cores[i] \in Counters!Times
        BY <3>1 DEF CounterTypes, Counters!Matched
      <4> QED
        BY <3>1, <4>1, UsageIsNumber
    <3>2. CASE ~Counters!Matched
      BY <3>2
    <3> QED
      BY <3>1, <3>2
  <2>3. Len(cores) \in Nat
    BY DEF CounterTypes
  <2> HIDE DEF use
  <2> QED
    BY <2>1, <2>2, <2>3
<1>7. power' \in Nat
  <2>1. power' = IF e /\ lastEnergy # Nil /\ gap > 0 THEN Counters!EnergyDiff(energy, lastEnergy) \div gap ELSE 0
    BY DEF Counters!ReadCPU, Counters!PowerOf
  <2>2. CASE e /\ lastEnergy # Nil /\ gap > 0
    <3>1. energy \in Nat /\ lastEnergy \in Nat /\ gap \in Nat \ {0} /\ Width \in Nat \ {0}
      BY <2>2 DEF CounterTypes, Counters!CountersAssumption
    <3> DEFINE diff == Counters!EnergyDiff(energy, lastEnergy)
    <3>2. diff \in Nat
      <4>1. CASE energy >= lastEnergy
        <5>1. energy - lastEnergy \in Nat
          BY <3>1, <4>1
        <5> QED
          BY <3>1, <4>1, <5>1, RemainderBelow DEF Counters!EnergyDiff
      <4>2. CASE ~(energy >= lastEnergy)
        BY <4>2 DEF Counters!EnergyDiff
      <4> QED
        BY <4>1, <4>2
    <3> HIDE DEF diff
    <3>3. diff \div gap \in Nat
      BY <3>1, <3>2
    <3> QED
      BY <2>1, <2>2, <3>3 DEF diff
  <2>3. CASE ~(e /\ lastEnergy # Nil /\ gap > 0)
    BY <2>1, <2>3
  <2> QED
    BY <2>2, <2>3
<1> QED
  BY <1>4, <1>5, <1>6, <1>7 DEF CounterMetrics

(* Every metric of the counters is a number, after any wrap and hotplug.   *)
LEMMA CountersTypes ==
    ASSUME Counters!CountersAssumption
    PROVE  Counters!Init /\ [][Counters!Next]_(Counters!vars) => [](CounterTypes /\ CounterMetrics)
<1>1. Counters!Init => CounterTypes /\ CounterMetrics
  <2> SUFFICES ASSUME Counters!Init PROVE CounterTypes /\ CounterMetrics
    OBVIOUS
  <2>1. times \in Counters!Times /\ energy \in 0..MaxEnergy - 1 /\ workload \in Workloads
    BY DEF Counters!Init, Counters!Times, Counters!CountersAssumption
  <2>2. cores \in Seq(Counters!Times) /\ Len(cores) \in 1..MaxCores
    <3>1. PICK n \in 1..MaxCores : cores = [i \in 1..n |-> times]
      BY DEF Counters!Init
    <3>2. n \in Nat
      BY DEF Counters!CountersAssumption
    <3> QED
      BY <2>1, <3>1, <3>2
  <2>3. /\ lastCPUTimes \in {Nil, times} /\ lastCoresCPUTimes \in {Nil, cores} /\ lastEnergy = Nil
        /\ gap = 0 /\ spent = 0 /\ usage = 0 /\ coresUsage = <<>> /\ power = 0
    BY DEF Counters!Init
  <2> QED
    BY <2>1, <2>2, <2>3 DEF CounterTypes, CounterMetrics
<1>2. CounterTypes /\ CounterMetrics /\ [Counters!Next]_(Counters!vars) => CounterTypes' /\ CounterMetrics'
  <2> SUFFICES ASSUME CounterTypes, CounterMetrics, [Counters!Next]_(Counters!vars)
               PROVE  CounterTypes' /\ CounterMetrics'
    OBVIOUS
  <2>1. CASE UNCHANGED Counters!vars
    BY <2>1 DEF Counters!vars, Counters!hostVars, Counters!lastVars, Counters!metricVars, Counters!historyVars,
                CounterTypes, CounterMetrics
  <2> QED
    BY <2>1, HostTypes, ReadTypes DEF Counters!Next
<1> QED
  BY <1>1, <1>2, PTL

NotAfter(last, current) == last.busy <= current.busy /\ last.idle <= current.idle

\* A sample is not ahead of the counters unless one of them went backwards or
\* other cores are listed now, and the energy counter is no further from its
\* sample than the energy used.
SamplesBehind ==
    /\ lastCPUTimes # Nil /\ "host" \notin back => NotAfter(lastCPUTimes, times)
    /\ lastCoresCPUTimes # Nil /\ "cores" \notin back /\ "plugged" \notin back =>
          /\ Len(lastCoresCPUTimes) = Len(cores)
          /\ \A i \in DOMAIN cores : NotAfter(lastCoresCPUTimes[i], cores[i])

EnergyBounded == lastEnergy # Nil => energy <= lastEnergy + spent

CounterInv == CounterTypes /\ SamplesBehind /\ EnergyBounded

CounterReports == Counters!ReportsPercentage /\ Counters!ReportsPower

(* calculateCPUUsage of times that did not go backwards.                   *)
LEMMA UsageIsPercentage ==
    ASSUME Counters!CountersAssumption, NEW last \in Counters!Times, NEW current \in Counters!Times,
           NotAfter(last, current)
    PROVE  Counters!CalculateCPUUsage(last, current) \in 0..100
<1> DEFINE total == (current.busy + current.idle) - (last.busy + last.idle)
           busy == current.busy - last.busy
<1>1. busy \in Nat /\ total \in Nat /\ busy <= total
      BY DEF Counters!Times, Counters!CountersAssumption, NotAfter
<1>2. Counters!CalculateCPUUsage(last, current) = IF total <= 0 THEN 0 ELSE (busy * 100) \div total
      BY DEF Counters!CalculateCPUUsage
<1> HIDE DEF total, busy
<1>3. CASE total <= 0
      BY <1>2, <1>3
<1>4. CASE ~(total <= 0)
      BY <1>1, <1>2, <1>4, PartOfWhole
<1> QED
    BY <1>3, <1>4

(* Times that only grow stay ahead of their sample.                        *)
LEMMA LaterIsAfter ==
    ASSUME Counters!CountersAssumption, NEW last \in Counters!Times, NEW t \in Counters!Times,
           NEW more \in Counters!Times
    PROVE  NotAfter(t, t) /\ (NotAfter(last, t) => NotAfter(last, Counters!Later(t, more)))
BY DEF Counters!Times, Counters!CountersAssumption, Counters!Later, NotAfter

(* The metrics reset: nothing is reported.                                 *)
LEMMA ResetReports ==
    ASSUME Counters!Broadcast
    PROVE  CounterReports
BY DEF CounterReports, Counters!Broadcast, Counters!NoPower, Counters!ReportsPercentage, Counters!ReportsPower

(* What a reading of the CPU times reports.                                *)
LEMMA UsageStep ==
    ASSUME Counters!CountersAssumption, CounterInv, NEW ok \in BOOLEAN, Counters!UsageOf(ok), "host" \notin back
    PROVE  usage' \in 0..100
<1>1. CASE ok /\ lastCPUTimes # Nil
      <2>1. usage' = Counters!CalculateCPUUsage(lastCPUTimes, times)
            BY <1>1 DEF Counters!UsageOf
      <2>2. lastCPUTimes \in Counters!Times /\ times \in Counters!Times /\ NotAfter(lastCPUTimes, times)
            BY <1>1 DEF CounterInv, CounterTypes, SamplesBehind
      <2> QED
          BY <2>1, <2>2, UsageIsPercentage
<1>2. CASE ~(ok /\ lastCPUTimes # Nil)
      BY <1>2 DEF Counters!UsageOf
<1> QED
    BY <1>1, <1>2

(* What a reading of the cores reports, after any hotplug but an exchange. *)
LEMMA CoresStep ==
    ASSUME Counters!CountersAssumption, CounterInv, NEW ok \in BOOLEAN, Counters!CoresUsageOf(ok),
           ~Counters!Exchanged
    PROVE  \A i \in DOMAIN coresUsage' : coresUsage'[i] \in 0..100
<1> DEFINE use(i) == IF Counters!Matched
                     THEN Counters!CalculateCPUUsage(lastCoresCPUTimes[i], cores[i]) ELSE 0
<1>1. coresUsage' = IF ok THEN [i \in DOMAIN cores |-> use(i)] ELSE <<>>
      BY DEF Counters!CoresUsageOf
<1>2. ASSUME NEW i \in DOMAIN cores
      PROVE  use(i) \in 0..100
      <2>1. CASE Counters!Matched
            <3>1. lastCoresCPUTimes # Nil /\ Len(lastCoresCPUTimes) = Len(cores)
                  BY <2>1 DEF Counters!Matched
            <3>2. "cores" \notin back /\ "plugged" \notin back
                  BY <3>1 DEF Counters!Exchanged
            <3>3. NotAfter(lastCoresCPUTimes[i], cores[i])
                  BY <3>1, <3>2 DEF CounterInv, SamplesBehind
            <3>4. lastCoresCPUTimes[i] \in Counters!Times /\ cores[i] \in Counters!Times
                  BY <3>1 DEF CounterInv, CounterTypes
            <3> QED
                BY <2>1, <3>3, <3>4, UsageIsPercentage
      <2>2. CASE ~Counters!Matched
            BY <2>2
      <2> QED
          BY <2>1, <2>2
<1> HIDE DEF use
<1> QED
    BY <1>1, <1>2

(* What a reading of the energy counter reports, after any wraps.          *)
LEMMA EnergyStep ==
    ASSUME Counters!CountersAssumption, CounterInv, NEW ok \in BOOLEAN, Counters!PowerOf(ok)
    PROVE  Counters!ReportsPower
<1>1. CASE ok /\ lastEnergy # Nil /\ gap > 0
      <2> DEFINE diff == Counters!EnergyDiff(energy, lastEnergy)
      <2>1. power' = diff \div gap /\ owed' = [energy |-> spent, gap |-> gap]
            BY <1>1 DEF Counters!PowerOf
      <2>2. /\ energy \in Nat /\ lastEnergy \in Nat /\ spent \in Nat /\ gap \in Nat \ {0}
            /\ energy <= lastEnergy + spent
            BY <1>1 DEF CounterInv, CounterTypes, EnergyBounded
      <2>3. diff \in Nat /\ diff <= spent
            <3>1. CASE energy >= lastEnergy
                  <4>1. diff = (energy - lastEnergy) % Width
                        BY <3>1 DEF Counters!EnergyDiff
                  <4>2. energy - lastEnergy \in Nat /\ energy - lastEnergy <= spent
                        BY <2>2, <3>1
                  <4>3. /\ (energy - lastEnergy) % Width \in Nat
                        /\ (energy - lastEnergy) % Width <= energy - lastEnergy
                        BY <4>2, RemainderBelow DEF Counters!CountersAssumption
                  <4> HIDE DEF diff
                  <4> QED
                      BY <2>2, <4>1, <4>2, <4>3
            <3>2. CASE ~(energy >= lastEnergy)
                  BY <2>2, <3>2 DEF Counters!EnergyDiff
            <3> QED
                BY <3>1, <3>2
      <2> HIDE DEF diff
      <2>4. (diff \div gap) * gap <= diff
            BY <2>2, <2>3, QuotientBelow
      <2>5. diff \div gap \in Int
            BY <2>2, <2>3
      <2>6. power' * owed'.gap = (diff \div gap) * gap /\ owed'.energy = spent
            BY <2>1
      <2>7. (diff \div gap) * gap \in Int
            BY <2>2, <2>5
      <2> QED
          BY <2>2, <2>3, <2>4, <2>6, <2>7 DEF Counters!ReportsPower
<1>2. CASE ~(ok /\ lastEnergy # Nil /\ gap > 0)
      BY <1>2 DEF Counters!PowerOf, Counters!NoPower, Counters!ReportsPower
<1> QED
    BY <1>1, <1>2

(* Time passes: the counters move away from their samples, forwards.       *)
LEMMA RunStep ==
    ASSUME Counters!CountersAssumption, CounterInv, NEW tick \in workload.ticks, Counters!Run(tick)
    PROVE  SamplesBehind' /\ EnergyBounded'
<1>1. /\ times' = Counters!Later(times, tick.host)
      /\ cores' = [i \in DOMAIN cores |-> Counters!Later(cores[i], tick.cores[i])]
      /\ energy' = (energy + tick.used) % MaxEnergy /\ spent' = spent + tick.used
      /\ UNCHANGED <<lastCPUTimes, lastCoresCPUTimes, lastEnergy, back>>
      BY DEF Counters!Run, Counters!lastVars
<1>2. /\ tick.host \in Counters!Times /\ tick.used \in Nat
      /\ \A i \in DOMAIN cores : tick.cores[i] \in Counters!Times
      BY TickIs DEF CounterInv
<1>3. /\ times \in Counters!Times /\ energy \in Nat /\ spent \in Nat
      /\ cores \in Seq(Counters!Times) /\ \A i \in DOMAIN cores : cores[i] \in Counters!Times
      BY DEF CounterInv, CounterTypes
<1>4. lastCPUTimes # Nil /\ "host" \notin back => NotAfter(lastCPUTimes, Counters!Later(times, tick.host))
      BY <1>2, <1>3, LaterIsAfter DEF CounterInv, CounterTypes, SamplesBehind
<1>5. ASSUME lastCoresCPUTimes # Nil, "cores" \notin back, "plugged" \notin back
      PROVE  /\ Len(lastCoresCPUTimes) = Len(cores')
             /\ \A i \in DOMAIN cores' : NotAfter(lastCoresCPUTimes[i], cores'[i])
      <2>1. Len(lastCoresCPUTimes) = Len(cores) /\ DOMAIN cores = 1..Len(cores) /\ Len(cores) \in Nat
            BY <1>3, <1>5 DEF CounterInv, SamplesBehind
      <2>2. Len(cores') = Len(cores) /\ DOMAIN cores' = DOMAIN cores
            BY <1>1, <2>1
      <2>3. ASSUME NEW i \in DOMAIN cores
            PROVE  NotAfter(lastCoresCPUTimes[i], Counters!Later(cores[i], tick.cores[i]))
            <3>1. NotAfter(lastCoresCPUTimes[i], cores[i])
                  BY <1>5 DEF CounterInv, SamplesBehind
            <3>2. lastCoresCPUTimes[i] \in Counters!Times
                  BY <1>5, <2>1 DEF CounterInv, CounterTypes
            <3> QED
                BY <1>2, <1>3, <3>1, <3>2, LaterIsAfter
      <2> QED
          BY <1>1, <2>1, <2>2, <2>3
<1>6. SamplesBehind'
      <2>1. /\ NotAfter(lastCPUTimes, times)' <=> NotAfter(lastCPUTimes, times')
            /\ \A i : NotAfter(lastCoresCPUTimes[i], cores[i])' <=> NotAfter(lastCoresCPUTimes[i], cores'[i])
            BY <1>1 DEF NotAfter
      <2> QED
          BY <1>1, <1>4, <1>5, <2>1 DEF SamplesBehind
<1>7. EnergyBounded'
      <2> DEFINE used == tick.used
                 total == energy + used
      <2>1. used \in Nat /\ total \in Nat /\ MaxEnergy \in Nat \ {0}
            BY <1>2, <1>3 DEF Counters!CountersAssumption
      <2>2. energy' = total % MaxEnergy /\ spent' = spent + used /\ lastEnergy' = lastEnergy /\ total = energy + used
            BY <1>1
      <2>3. lastEnergy # Nil => lastEnergy \in Nat /\ energy <= lastEnergy + spent
            BY DEF CounterInv, CounterTypes, EnergyBounded
      <2> HIDE DEF used, total
      <2>4. total % MaxEnergy \in Nat /\ total % MaxEnergy <= total
            BY <2>1, RemainderBelow
      <2> DEFINE wrapped == total % MaxEnergy
      <2> HIDE DEF wrapped
      <2>5. wrapped \in Nat /\ wrapped <= total /\ energy' = wrapped
            BY <2>2, <2>4 DEF wrapped
      <2>6. lastEnergy # Nil => energy' <= lastEnergy + spent'
            BY <1>3, <2>1, <2>2, <2>3, <2>5
      <2> QED
          BY <2>2, <2>6 DEF EnergyBounded
<1> QED
    BY <1>6, <1>7

(* Whatever was read becomes the sample; what was not stays it.            *)
LEMMA ReadStep ==
    ASSUME Counters!CountersAssumption, CounterInv,
           NEW t \in BOOLEAN, NEW c \in BOOLEAN, NEW e \in BOOLEAN, Counters!ReadCPU(t, c, e)
    PROVE  SamplesBehind' /\ EnergyBounded'
<1>1. /\ lastCPUTimes' = IF t THEN times ELSE lastCPUTimes
      /\ lastCoresCPUTimes' = IF c THEN cores ELSE lastCoresCPUTimes
      /\ lastEnergy' = IF e THEN energy ELSE lastEnergy
      /\ IF e THEN spent' = 0 /\ gap' = 0 ELSE UNCHANGED <<spent, gap>>
      /\ ~t /\ "host" \in back => "host" \in back'
      /\ ~c /\ "cores" \in back => "cores" \in back'
      /\ ~c /\ "plugged" \in back => "plugged" \in back'
      /\ UNCHANGED <<times, cores, energy>>
      BY DEF Counters!ReadCPU, Counters!UsageOf, Counters!CoresUsageOf, Counters!PowerOf, Counters!hostVars
<1>2. NotAfter(times, times) /\ \A i \in DOMAIN cores : NotAfter(cores[i], cores[i])
      <2>1. times \in Counters!Times /\ \A i \in DOMAIN cores : cores[i] \in Counters!Times
            BY DEF CounterInv, CounterTypes
      <2> QED
          BY <2>1, LaterIsAfter
<1>3. lastCPUTimes' # Nil /\ "host" \notin back' => NotAfter(lastCPUTimes', times)
      BY <1>1, <1>2 DEF CounterInv, SamplesBehind
<1>4. lastCoresCPUTimes' # Nil /\ "cores" \notin back' /\ "plugged" \notin back' =>
          /\ Len(lastCoresCPUTimes') = Len(cores)
          /\ \A i \in DOMAIN cores : NotAfter(lastCoresCPUTimes'[i], cores[i])
      BY <1>1, <1>2 DEF CounterInv, SamplesBehind
<1>5. SamplesBehind'
      <2>1. /\ NotAfter(lastCPUTimes, times)' <=> NotAfter(lastCPUTimes', times)
            /\ \A i : NotAfter(lastCoresCPUTimes[i], cores[i])' <=> NotAfter(lastCoresCPUTimes'[i], cores[i])
            BY <1>1 DEF NotAfter
      <2> QED
          BY <1>1, <1>3, <1>4, <2>1 DEF SamplesBehind
<1>6. EnergyBounded'
      BY <1>1 DEF CounterInv, CounterTypes, EnergyBounded
<1> QED
    BY <1>5, <1>6

(* Counters that step back or cores that come and go.                      *)
LEMMA HostStep ==
    ASSUME CounterInv, Counters!StepBack \/ Counters!Hotplug
    PROVE  SamplesBehind' /\ EnergyBounded'
<1>1. UNCHANGED <<energy, lastCPUTimes, lastCoresCPUTimes, lastEnergy, gap, spent>>
      BY DEF Counters!StepBack, Counters!Hotplug, Counters!lastVars
<1>2. EnergyBounded'
      BY <1>1 DEF CounterInv, EnergyBounded
<1>3. \/ "host" \in back' /\ back \subseteq back' /\ UNCHANGED cores
      \/ ("cores" \in back' \/ "plugged" \in back') /\ back \subseteq back' /\ UNCHANGED times
      BY DEF Counters!StepBack, Counters!Hotplug
<1>4. /\ times' = times => (NotAfter(lastCPUTimes, times)' <=> NotAfter(lastCPUTimes, times))
      /\ cores' = cores =>
            /\ DOMAIN cores' = DOMAIN cores /\ Len(cores') = Len(cores)
            /\ \A i : NotAfter(lastCoresCPUTimes[i], cores[i])' <=> NotAfter(lastCoresCPUTimes[i], cores[i])
      BY <1>1 DEF NotAfter
<1>5. CASE "host" \in back' /\ back \subseteq back' /\ UNCHANGED cores
      BY <1>1, <1>2, <1>4, <1>5 DEF CounterInv, SamplesBehind
<1>6. CASE ("cores" \in back' \/ "plugged" \in back') /\ back \subseteq back' /\ UNCHANGED times
      BY <1>1, <1>2, <1>4, <1>6 DEF CounterInv, SamplesBehind
<1> QED
    BY <1>2, <1>3, <1>5, <1>6

(* Every report agrees with the counters and their samples.                *)
LEMMA ReportsAreSoundAlone ==
    ASSUME Counters!CountersAssumption
    PROVE  Counters!Init /\ [][Counters!Next]_(Counters!vars) => Counters!ReportsAreSound
<1>1. Counters!Init /\ CounterTypes => CounterInv
      <2> SUFFICES ASSUME Counters!Init, CounterTypes
                   PROVE  CounterInv
          OBVIOUS
      <2>1. times \in Counters!Times /\ \A i \in DOMAIN cores : cores[i] \in Counters!Times
            BY DEF CounterTypes
      <2>2. NotAfter(times, times) /\ \A i \in DOMAIN cores : NotAfter(cores[i], cores[i])
            BY <2>1, LaterIsAfter
      <2>3. /\ lastCPUTimes \in {Nil, times} /\ lastCoresCPUTimes \in {Nil, cores} /\ lastEnergy = Nil
            BY DEF Counters!Init
      <2> QED
          BY <2>2, <2>3 DEF CounterInv, SamplesBehind, EnergyBounded
<1>2. CounterInv /\ CounterTypes' /\ [Counters!Next]_(Counters!vars) => CounterInv'
      <2> SUFFICES ASSUME CounterInv, CounterTypes', [Counters!Next]_(Counters!vars)
                   PROVE  SamplesBehind' /\ EnergyBounded'
          BY DEF CounterInv
      <2>1. ASSUME NEW tick \in workload.ticks, Counters!Run(tick)
            PROVE  SamplesBehind' /\ EnergyBounded'
            BY <2>1, RunStep
      <2>2. ASSUME NEW t \in BOOLEAN, NEW c \in BOOLEAN, NEW e \in BOOLEAN, Counters!ReadCPU(t, c, e)
            PROVE  SamplesBehind' /\ EnergyBounded'
            BY <2>2, ReadStep
      <2>3. CASE UNCHANGED Counters!vars
            BY <2>3 DEF Counters!vars, Counters!hostVars, Counters!lastVars, Counters!historyVars,
                        CounterInv, SamplesBehind, EnergyBounded, NotAfter
      <2> QED
          BY <2>1, <2>2, <2>3, HostStep DEF Counters!Next
<1>3. CounterInv /\ [Counters!Next]_(Counters!vars) =>
          [CounterReports]_<<usage, coresUsage, power, owed>>
      <2> SUFFICES ASSUME CounterInv, [Counters!Next]_(Counters!vars)
                   PROVE  CounterReports \/ UNCHANGED <<usage, coresUsage, power, owed>>
          OBVIOUS
      <2>1. ASSUME NEW t \in BOOLEAN, NEW c \in BOOLEAN, NEW e \in BOOLEAN, Counters!ReadCPU(t, c, e)
            PROVE  CounterReports
            <3>1. Counters!UsageOf(t) /\ Counters!CoresUsageOf(c) /\ Counters!PowerOf(e)
                  BY <2>1 DEF Counters!ReadCPU
            <3>2. Counters!ReportsPercentage
                  BY <3>1, UsageStep, CoresStep DEF Counters!ReportsPercentage
            <3>3. Counters!ReportsPower
                  BY <3>1, EnergyStep
            <3> QED
                BY <3>2, <3>3 DEF CounterReports
      <2>2. ASSUME NEW tick, Counters!Run(tick)
            PROVE  CounterReports
            BY <2>2, ResetReports DEF Counters!Run
      <2>3. CASE Counters!StepBack \/ Counters!Hotplug
            BY <2>3, ResetReports DEF Counters!StepBack, Counters!Hotplug
      <2>4. CASE UNCHANGED Counters!vars
            BY <2>4 DEF Counters!vars, Counters!metricVars
      <2> QED
          BY <2>1, <2>2, <2>3, <2>4 DEF Counters!Next
<1>4. Counters!Init /\ [][Counters!Next]_(Counters!vars) => []CounterTypes
      BY CountersTypes, PTL
<1> QED
    BY <1>1, <1>2, <1>3, <1>4, PTL DEF Counters!ReportsAreSound, CounterReports

(* Every metric is a number, after any wrap and hotplug.                   *)
LEMMA CountersTypesAlone ==
    ASSUME Counters!CountersAssumption
    PROVE  Counters!Init /\ [][Counters!Next]_(Counters!vars) => []Counters!TypeOK
<1>1. CounterTypes /\ CounterMetrics => Counters!TypeOK
      BY DEF CounterTypes, CounterMetrics, Counters!TypeOK
<1> QED
    BY <1>1, CountersTypes, PTL

--------------------------------------------------------------------------------
(* Types                                                                   *)

(* Configuration: every step of the start keeps a value for each setting.  *)
LEMMA ConfigTypes == Config!Init /\ [][Config!Next]_(Config!vars) => []Config!TypeOK
<1>1. Config!Init => Config!TypeOK
  BY DEF Config!Init, Config!TypeOK, Config!DefaultConfig
<1>2. Config!TypeOK /\ [Config!Next]_(Config!vars) => Config!TypeOK'
  <2> SUFFICES ASSUME Config!TypeOK, [Config!Next]_(Config!vars) PROVE Config!TypeOK'
    OBVIOUS
  <2>1. CASE Config!LoadFile \/ Config!LoadEnv
    <3>1. DOMAIN conf' = Config!Settings
      BY <2>1 DEF Config!LoadFile, Config!LoadEnv, Config!TypeOK, Config!Merge
    <3> QED
      BY <2>1, <3>1 DEF Config!LoadFile, Config!LoadEnv, Config!TypeOK
  <2>2. CASE Config!ApplyFlags
    <3> DEFINE merged == Config!Merge(conf, Config!Restrict(layer.flag, Config!GivenFlags(layer.flag)))
    <3>1. DOMAIN merged = Config!Settings
      BY DEF Config!Merge
    <3>2. /\ start' \in {"failed", "managers"} /\ manager' = manager
          /\ conf' = conf \/ conf' = [merged EXCEPT !.log_level = IF verbose THEN "debug" ELSE @]
      BY <2>2 DEF Config!ApplyFlags
    <3> HIDE DEF merged
    <3>3. DOMAIN conf' = Config!Settings
      BY <3>1, <3>2 DEF Config!TypeOK
    <3> QED
      BY <3>2, <3>3 DEF Config!TypeOK
  <2>3. CASE Config!ResolveManagers \/ Config!NewServer \/ Config!NewTicker
    BY <2>3 DEF Config!ResolveManagers, Config!NewServer, Config!NewTicker, Config!TypeOK
  <2>4. CASE UNCHANGED Config!vars
    BY <2>4 DEF Config!vars, Config!TypeOK
  <2> QED
    BY <2>1, <2>2, <2>3, <2>4 DEF Config!Next
<1> QED
  BY <1>1, <1>2, PTL

(* Whichever file comes first, it is one of those tried.                   *)
LEMMA FirstTypes ==
    ASSUME NEW h, NEW S, NEW files \in Seq(S)
    PROVE  Sense!First(h, files) \subseteq S
<1> DEFINE ok == {i \in DOMAIN files : h[files[i]] = "ok"}
           i0 == CHOOSE i \in ok : \A j \in ok : i <= j
<1>1. Sense!First(h, files) = IF ok = {} THEN {} ELSE {files[i0]}
  BY DEF Sense!First
<1>2. DOMAIN files \subseteq Nat /\ \A i \in DOMAIN files : files[i] \in S
  OBVIOUS
<1>3. ASSUME ok # {} PROVE i0 \in DOMAIN files
  <2>1. ok \in SUBSET Nat /\ ok \subseteq DOMAIN files
    BY <1>2
  <2> HIDE DEF ok
  <2>2. \E i \in ok : \A j \in ok : i <= j
    BY <1>3, <2>1, Least
  <2>3. i0 \in ok
    BY <2>2, Zenon
  <2> QED
    BY <2>1, <2>3
<1> HIDE DEF ok, i0
<1> QED
  BY <1>1, <1>2, <1>3

(* One file, two or three of the files, or the second for want of a first. *)
LEMMA TriedTypes ==
    ASSUME NEW h, NEW a \in Sense!Files, NEW b \in Sense!Files, NEW c \in Sense!Files
    PROVE  /\ Sense!First(h, <<a>>) \subseteq Sense!Files
           /\ Sense!First(h, <<a, b>>) \subseteq Sense!Files
           /\ Sense!First(h, <<a, b, c>>) \subseteq Sense!Files
           /\ Sense!Else(h, a, b) \subseteq Sense!Files
<1> DEFINE F == Sense!Files
<1>1. a \in F /\ b \in F /\ c \in F
  OBVIOUS
<1> HIDE DEF F
<1>2. <<a>> \in Seq(F) /\ <<b>> \in Seq(F) /\ <<a, b>> \in Seq(F) /\ <<a, b, c>> \in Seq(F)
  BY <1>1
<1>3. /\ Sense!First(h, <<a>>) \subseteq F /\ Sense!First(h, <<b>>) \subseteq F
      /\ Sense!First(h, <<a, b>>) \subseteq F /\ Sense!First(h, <<a, b, c>>) \subseteq F
  BY <1>2, FirstTypes
<1>4. Sense!Else(h, a, b) \in {Sense!First(h, <<a>>), Sense!First(h, <<b>>)}
  BY DEF Sense!Else
<1> QED
  BY <1>3, <1>4 DEF F

(* The files a metric of the GPU is computed from.                         *)
LEMMA ReadGPUTypes ==
    ASSUME NEW h, NEW m \in GpuMetrics
    PROVE  Sense!ReadGPU(h).metrics[m] \subseteq Sense!Files
<1> DEFINE F == Sense!Files
           sysfs == Sense!ReadSysfsGPU(h)
           g == Sense!ReadGPU(h)
<1> SUFFICES g.metrics[m] \subseteq F
  OBVIOUS
<1>1. CASE Sense!NvidiaAnswers(h)
  <2>1. g.metrics = Sense!ReadNvidiaGPU(h)
    BY <1>1 DEF Sense!ReadGPU
  <2>2. Sense!ReadNvidiaGPU(h)[m] = IF m = "vramTemp" THEN {} ELSE Sense!Every(h, {Sense!NvidiaField[m]})
    BY DEF Sense!ReadNvidiaGPU, GpuMetrics
  <2>3. m # "vramTemp" => Sense!NvidiaField[m] \in F
    <3>1. \A x \in DOMAIN Sense!NvidiaField : Sense!NvidiaField[x] \in F
      BY DEF Sense!NvidiaField, Sense!Files, Sense!NvidiaFields, Sense!Required
    <3> QED
      BY <3>1, FieldParsed
  <2>4. Sense!Every(h, {Sense!NvidiaField[m]}) \subseteq {Sense!NvidiaField[m]}
    BY DEF Sense!Every
  <2> HIDE DEF g, F
  <2> QED
    BY <2>1, <2>2, <2>3, <2>4
<1>2. CASE ~Sense!NvidiaAnswers(h) /\ h["drm"] # "absent"
  <2>1. g.metrics = sysfs
    BY <1>2 DEF Sense!ReadGPU
  <2>2. sysfs[m] \subseteq F
    <3>1. /\ "busy" \in F /\ "pm" \in F /\ "used" \in F /\ "total" \in F /\ "temp1" \in F
          /\ "average" \in F /\ "input" \in F /\ "intel" \in F /\ "sclk" \in F /\ "freq1" \in F
          /\ "label" \in F /\ "temp2" \in F /\ "mclk" \in F /\ "freq2" \in F
      BY DEF Sense!Files
    <3>2. /\ Sense!Else(h, "busy", "pm") \subseteq F /\ Sense!Else(h, "average", "input") \subseteq F
          /\ Sense!First(h, <<"used">>) \subseteq F /\ Sense!First(h, <<"total">>) \subseteq F
          /\ Sense!First(h, <<"temp1">>) \subseteq F
          /\ Sense!First(h, <<"intel", "sclk", "freq1">>) \subseteq F
          /\ Sense!First(h, <<"label", "temp2">>) \subseteq F
          /\ Sense!First(h, <<"mclk", "freq2">>) \subseteq F
      BY <3>1, TriedTypes
    <3>3. /\ Sense!ReadSysfsGPUFrequency(h) \subseteq F /\ Sense!ReadSysfsVRAMTemperature(h) \subseteq F
          /\ Sense!ReadSysfsVRAMFrequency(h) \subseteq F
      BY <3>2 DEF Sense!ReadSysfsGPUFrequency, Sense!ReadSysfsVRAMTemperature, Sense!ReadSysfsVRAMFrequency
    <3>4. m \in {"gpuUsage", "vramUsed", "vramTotal", "gpuTemp", "gpuPower", "gpuFreq", "vramTemp", "vramFreq"}
      BY DEF GpuMetrics, Sense!GpuMetrics, Sense!GpuSensors
    <3>5. m \in Sense!GpuMetrics
      BY DEF GpuMetrics
    <3> HIDE DEF F
    <3>6. CASE m = "gpuUsage"
      BY <3>2, <3>5, <3>6 DEF Sense!ReadSysfsGPU
    <3>7. CASE m = "vramUsed"
      BY <3>2, <3>5, <3>7 DEF Sense!ReadSysfsGPU
    <3>8. CASE m = "vramTotal"
      BY <3>2, <3>5, <3>8 DEF Sense!ReadSysfsGPU
    <3>9. CASE m = "gpuTemp"
      BY <3>2, <3>5, <3>9 DEF Sense!ReadSysfsGPU
    <3>10. CASE m = "gpuPower"
      BY <3>2, <3>5, <3>10 DEF Sense!ReadSysfsGPU
    <3>11. CASE m = "gpuFreq"
      BY <3>3, <3>5, <3>11 DEF Sense!ReadSysfsGPU
    <3>12. CASE m = "vramTemp"
      BY <3>3, <3>5, <3>12 DEF Sense!ReadSysfsGPU
    <3>13. CASE m = "vramFreq"
      BY <3>3, <3>5, <3>13 DEF Sense!ReadSysfsGPU
    <3> QED
      BY <3>4, <3>6, <3>7, <3>8, <3>9, <3>10, <3>11, <3>12, <3>13
  <2> QED
    BY <2>1, <2>2
<1>3. CASE ~Sense!NvidiaAnswers(h) /\ h["drm"] = "absent"
  <2>1. g.metrics = [x \in GpuMetrics |-> {}]
    BY <1>3 DEF Sense!ReadGPU, GpuMetrics
  <2> HIDE DEF g
  <2> QED
    BY <2>1
<1> QED
  BY <1>1, <1>2, <1>3

(* The files a metric of the host is computed from.                        *)
LEMMA ReadHostTypes ==
    ASSUME NEW h, NEW m \in Sense!HostMetrics
    PROVE  Sense!ReadHost(h)[m] \subseteq Sense!Files
<1> DEFINE F == Sense!Files
<1> SUFFICES Sense!ReadHost(h)[m] \subseteq F
  OBVIOUS
<1>1. /\ "stat" \in F /\ "cpus" \in F /\ "energy" \in F
      /\ "thermal" \in F /\ "hwmon" \in F /\ "info" \in F /\ "meminfo" \in F /\ "swapinfo" \in F
      /\ {"scaling0", "scaling1"} \subseteq F /\ {"zram0", "zram1"} \subseteq F
  BY DEF Sense!Files
<1>2. /\ Sense!First(h, <<"stat">>) \subseteq F /\ Sense!First(h, <<"cpus">>) \subseteq F
      /\ Sense!First(h, <<"energy">>) \subseteq F
      /\ Sense!First(h, <<"thermal", "hwmon">>) \subseteq F /\ Sense!First(h, <<"info">>) \subseteq F
      /\ Sense!First(h, <<"meminfo">>) \subseteq F /\ Sense!First(h, <<"swapinfo">>) \subseteq F
  BY <1>1, TriedTypes
<1>3. \A S : S \subseteq F => Sense!Every(h, S) \subseteq F
  BY DEF Sense!Every
<1>4. /\ Sense!ReadCPUTimes(h) \subseteq F /\ Sense!ReadCoresTimes(h) \subseteq F /\ Sense!ReadEnergy(h) \subseteq F
      /\ Sense!ReadCPUTemperature(h) \subseteq F /\ Sense!ReadRAM(h) \subseteq F /\ Sense!ReadSwap(h) \subseteq F
  BY <1>2 DEF Sense!ReadCPUTimes, Sense!ReadCoresTimes, Sense!ReadEnergy,
              Sense!ReadCPUTemperature, Sense!ReadRAM, Sense!ReadSwap
<1>5. Sense!ReadCPUFrequency(h) \subseteq F /\ Sense!ReadZRAM(h) \subseteq F
  BY <1>1, <1>2, <1>3 DEF Sense!ReadCPUFrequency, Sense!ReadZRAM
<1>6. m \in {"cpuUsage", "coresUsage", "cpuPower", "cpuTemp", "cpuFreq", "ram", "swap", "zram"}
  BY DEF Sense!HostMetrics
<1> HIDE DEF F
<1>7. CASE m = "cpuUsage"
  BY <1>4, <1>7 DEF Sense!ReadHost, Sense!HostMetrics
<1>8. CASE m = "coresUsage"
  BY <1>4, <1>8 DEF Sense!ReadHost, Sense!HostMetrics
<1>9. CASE m = "cpuPower"
  BY <1>4, <1>9 DEF Sense!ReadHost, Sense!HostMetrics
<1>10. CASE m = "cpuTemp"
  BY <1>4, <1>10 DEF Sense!ReadHost, Sense!HostMetrics
<1>11. CASE m = "cpuFreq"
  BY <1>5, <1>11 DEF Sense!ReadHost, Sense!HostMetrics
<1>12. CASE m = "ram"
  BY <1>4, <1>12 DEF Sense!ReadHost, Sense!HostMetrics
<1>13. CASE m = "swap"
  BY <1>4, <1>13 DEF Sense!ReadHost, Sense!HostMetrics
<1>14. CASE m = "zram"
  BY <1>5, <1>14 DEF Sense!ReadHost, Sense!HostMetrics
<1> QED
  BY <1>6, <1>7, <1>8, <1>9, <1>10, <1>11, <1>12, <1>13, <1>14 DEF F

(* Every tick reports files of the host and flags there are.               *)
LEMMA SenseTypes ==
    ASSUME Sense!SensorsAssumption
    PROVE  Sense!Init /\ [][Sense!Next]_(Sense!vars) => []Sense!TypeOK
<1>1. Sense!Init => Sense!TypeOK
  BY DEF Sense!Init, Sense!TypeOK, Sense!SensorsAssumption
<1>2. ASSUME NEW h \in Hosts, Sense!Tick(h) PROVE Sense!TypeOK'
  <2> DEFINE g == Sense!ReadGPU(h)
             read == Sense!ReadHost(h)
             H == Sense!HostMetrics
             F == Sense!Files
  <2>1. /\ host' = h
        /\ value' = [m \in Sense!Metrics |-> IF m \in H THEN read[m] ELSE g.metrics[m]]
        /\ flags' = Sense!HostFlags(h, read) \cup g.flags
    BY <1>2 DEF Sense!Tick
  <2>2. Sense!HostFlags(h, read) \subseteq H
    BY DEF Sense!HostFlags
  <2>3. g.flags \subseteq Sense!GpuFlags
    BY ReadGPUMatches DEF GpuFlagsMatch
  <2>4. Sense!Metrics = H \cup GpuMetrics /\ Sense!Flags = H \cup Sense!GpuFlags
    BY DEF Sense!Metrics, GpuMetrics, Sense!Flags
  <2>10. ASSUME NEW m \in H PROVE read[m] \subseteq F
    BY ReadHostTypes
  <2>11. \A m \in GpuMetrics : g.metrics[m] \subseteq F
    BY ReadGPUTypes
  <2> HIDE DEF read, g, F, H
  <2>12. \A m \in Sense!Metrics : value'[m] \subseteq F
    BY <2>1, <2>4, <2>10, <2>11
  <2>13. flags' \subseteq Sense!Flags
    BY <2>1, <2>2, <2>3, <2>4
  <2>14. DOMAIN host' = F
    BY <2>1 DEF Sense!SensorsAssumption, F
  <2>15. DOMAIN value' = Sense!Metrics
    BY <2>1
  <2> QED
    BY <2>12, <2>13, <2>14, <2>15 DEF Sense!TypeOK, F
<1>3. Sense!TypeOK /\ [Sense!Next]_(Sense!vars) => Sense!TypeOK'
  BY <1>2 DEF Sense!Next, Sense!vars, Sense!TypeOK
<1> QED
  BY <1>1, <1>3, PTL

\* Who holds the mutex is calling the desktop, and is a caller.
MutexHeld ==
    /\ alive \subseteq Callers /\ expired \subseteq Callers
    /\ mu # Nil => mu \in Callers /\ ipc[mu] \in {"send", "wait"}

(* A handler lets go of the mutex with its last step before the reply.     *)
LEMMA MutexStep ==
    ASSUME Inbound!InboundAssumption, InboundInv, MutexHeld, [Inbound!Next]_(Inbound!vars)
    PROVE  MutexHeld'
<1>1. ipc \in [Callers -> Busy \cup {"read", "gone"}]
  BY DEF InboundInv, InboundType
<1>2. ASSUME UNCHANGED <<ipc, mu>>, alive' \subseteq Callers, expired' \subseteq Callers PROVE MutexHeld'
  BY <1>2 DEF MutexHeld
<1>3. CASE \/ UNCHANGED Inbound!vars \/ \E c \in Clients : Inbound!Leave(c)
           \/ \E c \in Callers : Inbound!Expire(c)
           \/ \E m \in posted : Inbound!Perform(m) \/ Inbound!BreakOff(m) \/ Inbound!Refuse(m)
  BY <1>2, <1>3 DEF Inbound!vars, Inbound!callerVars, Inbound!carriedOut, Inbound!Leave, Inbound!Expire, Inbound!Perform,
                    Inbound!BreakOff, Inbound!Refuse, MutexHeld
<1>4. ASSUME NEW c \in Callers, mu' = mu, mu # c, alive' = alive, expired' \subseteq expired,
             NEW step, ipc' = [ipc EXCEPT ![c] = step]
      PROVE  MutexHeld'
  BY <1>1, <1>4 DEF MutexHeld
<1>5. ASSUME NEW c \in Callers, Inbound!Reads(c) PROVE MutexHeld'
  <2>1. ipc[c] = "read" /\ mu' = mu /\ alive' = alive /\ expired' \subseteq expired
    BY <1>5 DEF Inbound!Reads, Inbound!LoopEnds, Inbound!callerVars, Inbound!carriedOut, Inbound!ReadFrame, Inbound!SkippedFrame,
       Inbound!PingFrame, Inbound!ActionFrame, Inbound!NotificationFrame, Inbound!MediaFrame, Inbound!ProfileFrame,
       Inbound!ReadCall, Inbound!SendNotification, Inbound!SendMediaCommand, Inbound!ExecuteSystemAction,
       Inbound!SetPowerProfile, Inbound!Unimplemented, Inbound!Takes
  <2>2. \E step : ipc' = [ipc EXCEPT ![c] = step]
    <3>1. CASE Inbound!LoopEnds(c)
      BY <3>1 DEF Inbound!LoopEnds
    <3>2. CASE ~Inbound!LoopEnds(c)
      BY <1>5, <3>2, ReadsBegin DEF Begins
    <3> QED
      BY <3>1, <3>2
  <2>3. Nil \notin Callers
    BY DEF Inbound!InboundAssumption, Callers
  <2>4. mu # c
    BY <2>1, <2>3 DEF MutexHeld
  <2> QED
    BY <1>4, <2>1, <2>2, <2>4
<1>6. ASSUME NEW c \in Callers, Inbound!Lock(c) PROVE MutexHeld'
  BY <1>1, <1>6 DEF Inbound!Lock, Inbound!callerVars, Inbound!carriedOut, MutexHeld
<1>7. ASSUME NEW c \in Callers, Inbound!Send(c) \/ Inbound!Return(c) \/ Inbound!TimeOut(c) PROVE MutexHeld'
  <2>1. /\ UNCHANGED <<alive, expired>>
        /\ \/ mu' = mu /\ ipc' = [ipc EXCEPT ![c] = "wait"]
           \/ mu' = (IF mu = c THEN Nil ELSE mu) /\ ipc' = [ipc EXCEPT ![c] = "respond"]
    BY <1>7 DEF Inbound!Send, Inbound!Return, Inbound!TimeOut, Inbound!Goto, Inbound!Release, Inbound!callerVars, Inbound!carriedOut
  <2> QED
    BY <1>1, <2>1 DEF MutexHeld
<1>8. ASSUME NEW c \in Callers, Inbound!Respond(c) PROVE MutexHeld'
  <2>1. ipc[c] = "respond" /\ UNCHANGED <<mu, alive, expired>> /\ ipc' = [ipc EXCEPT ![c] = "read"]
    BY <1>8 DEF Inbound!Respond, Inbound!Goto, Inbound!callerVars, Inbound!carriedOut
  <2>2. Nil \notin Callers
    BY DEF Inbound!InboundAssumption, Callers
  <2> QED
    BY <1>4, <2>1, <2>2 DEF MutexHeld
<1> QED
  BY <1>3, <1>5, <1>6, <1>7, <1>8 DEF Inbound!Next, Inbound!Handles, Callers

(* Every handler is at a step of its code, and the mutex is never left     *)
(* behind.                                                                 *)
LEMMA InboundTypes ==
    ASSUME Inbound!InboundAssumption
    PROVE  Inbound!Init /\ [][Inbound!Next]_(Inbound!vars) => []Inbound!TypeOK
<1>1. Inbound!Init => InboundInv /\ MutexHeld
  BY InboundInitially DEF Inbound!Init, MutexHeld, Callers
<1>2. InboundInv /\ MutexHeld /\ [Inbound!Next]_(Inbound!vars) => InboundInv' /\ MutexHeld'
  BY InboundStep, MutexStep
<1>3. InboundInv /\ MutexHeld => Inbound!TypeOK
  BY DEF InboundInv, InboundType, MutexHeld, Inbound!TypeOK, Busy, Outcomes, Callers
<1> QED
  BY <1>1, <1>2, <1>3, PTL

\* The devices' types, in groups that change together.
SessionTracking ==
    /\ activeSerials \subseteq Serials /\ phase \in {"down", "up", "stopped"}
    /\ up \in BOOLEAN /\ stale \in BOOLEAN
SessionDevices ==
    /\ plugged \in [Serials -> BOOLEAN] /\ behind \in [Serials -> BOOLEAN]
    /\ screen \in [Serials -> {"on", "off"}]
    /\ app \in [Serials -> BOOLEAN] /\ tunnel \in [Serials -> BOOLEAN]
    /\ late \in [Serials -> SUBSET Devices!Commands]
SessionDpms ==
    /\ dpms \in {"on", "off", Nil} /\ pub \in [Publishers -> {"on", "off", Nil}]
    /\ told \in [Serials -> BOOLEAN]
SessionExit ==
    /\ noAppControl \in BOOLEAN /\ ctxDone \in BOOLEAN
    /\ exit \in {"run", "closing", "exited"} /\ closing \subseteq Serials
    /\ lateLaunch \in [Serials -> BOOLEAN]
    /\ failed \in [Serials -> SUBSET {"reverse", "close"}]

\* A goroutine that has dialled has a command left to send.
SoundJobs == {j \in Devices!Jobs : j.at # "dial" => j.todo # <<>>}
SessionJobs == jobs \in [Serials -> [Devices!Slots -> SoundJobs]]

SessionPlain == SessionTracking /\ SessionDevices /\ SessionDpms /\ SessionExit
SessionType == SessionPlain /\ SessionJobs

Todos == UNION {[1..n -> Devices!Commands] : n \in 0..3}

(* A job by its fields.                                                    *)
LEMMA JobIs ==
    ASSUME NEW j
    PROVE  /\ j \in SoundJobs =>
                /\ j.todo \in Todos /\ j.at \in {"dial", "sent", "broken"} /\ j.own \in BOOLEAN
                /\ j.at # "dial" => j.todo # <<>>
                /\ j = [todo |-> j.todo, at |-> j.at, own |-> j.own]
           /\ \A todo \in Todos, at \in {"dial", "sent", "broken"}, own \in BOOLEAN :
                (at # "dial" => todo # <<>>) => [todo |-> todo, at |-> at, own |-> own] \in SoundJobs
<1>1. Devices!Jobs = [todo : Todos, at : {"dial", "sent", "broken"}, own : BOOLEAN]
  BY DEF Devices!Jobs, Todos
<1> QED
  BY <1>1 DEF SoundJobs

(* The command lists goroutines are started with.                          *)
LEMMA StartedTodos ==
    /\ <<>> \in Todos /\ <<"close">> \in Todos /\ Devices!BootCommands \in Todos
    /\ \A state : <<Devices!DpmsCommand(state)>> \in Todos
<1>1. \A n \in 0..3 : [1..n -> Devices!Commands] \subseteq Todos
  BY DEF Todos
<1>2. \A c \in Devices!Commands : <<c>> \in [1..1 -> Devices!Commands]
  OBVIOUS
<1>3. <<>> \in [1..0 -> Devices!Commands]
  OBVIOUS
<1>4. <<"wake", "launch", "reverse">> \in [1..3 -> Devices!Commands]
  BY DEF Devices!Commands
<1>5. "close" \in Devices!Commands /\ "reverse" \in Devices!Commands
      /\ \A state : Devices!DpmsCommand(state) \in Devices!Commands
  BY DEF Devices!Commands, Devices!DpmsCommand
<1>6. \A c \in Devices!Commands : <<c>> \in Todos
  <2>1. 1 \in 0..3
    OBVIOUS
  <2> QED
    BY <1>1, <1>2, <2>1
<1>7. <<>> \in Todos /\ <<"wake", "launch", "reverse">> \in Todos
  <2>1. 0 \in 0..3 /\ 3 \in 0..3
    OBVIOUS
  <2> QED
    BY <1>1, <1>3, <1>4, <2>1
<1> QED
  BY <1>5, <1>6, <1>7 DEF Devices!BootCommands

(* What is left of a list of commands after the first.                     *)
LEMMA TodoTail ==
    ASSUME NEW todo \in Todos, todo # <<>>, Len(todo) # 1
    PROVE  Tail(todo) \in Todos /\ Tail(todo) # <<>>
<1>1. PICK n \in 0..3 : todo \in [1..n -> Devices!Commands]
  BY DEF Todos
<1>2. todo \in Seq(Devices!Commands) /\ Len(todo) = n
  BY <1>1
<1>3. n # 0 /\ n # 1
  BY <1>2
<1>4. n - 1 \in 0..3 /\ n - 1 > 0
  BY <1>3
<1> DEFINE t == Tail(todo)
<1>5. t \in Seq(Devices!Commands) /\ Len(t) = n - 1 /\ todo # <<>>
  BY <1>2
<1>6. t \in [1..(n - 1) -> Devices!Commands]
  <2> HIDE DEF t
  <2>1. \A q \in Seq(Devices!Commands) : q \in [1..Len(q) -> Devices!Commands]
    OBVIOUS
  <2> QED
    BY <1>5, <2>1
<1> QED
  BY <1>4, <1>5, <1>6 DEF Todos

(* The jobs a step leaves behind.                                          *)
LEMMA JobSteps ==
    /\ Devices!NoJob \in SoundJobs
    /\ \A j \in SoundJobs : j.todo # <<>> => Devices!Advanced(j) \in SoundJobs
    /\ \A j \in SoundJobs : j.todo # <<>> => [j EXCEPT !.at = "sent"] \in SoundJobs
    /\ \A j \in SoundJobs : j.at = "sent" => [j EXCEPT !.at = "broken"] \in SoundJobs
<1>1. Devices!NoJob \in SoundJobs
  BY StartedTodos, JobIs DEF Devices!NoJob
<1>2. ASSUME NEW j \in SoundJobs, j.todo # <<>> PROVE Devices!Advanced(j) \in SoundJobs
  <2>1. j.todo \in Todos /\ j.own \in BOOLEAN /\ j = [todo |-> j.todo, at |-> j.at, own |-> j.own]
    BY JobIs
  <2>2. CASE Len(j.todo) = 1
    BY <1>1, <2>2 DEF Devices!Advanced
  <2>3. CASE Len(j.todo) # 1
    <3>1. Tail(j.todo) \in Todos
      BY <1>2, <2>1, <2>3, TodoTail
    <3>2. Devices!Advanced(j) = [todo |-> Tail(j.todo), at |-> "dial", own |-> j.own]
      <4>1. Devices!Advanced(j) = [j EXCEPT !.todo = Tail(@), !.at = "dial"]
        BY <2>3 DEF Devices!Advanced
      <4> QED
        BY <2>1, <4>1
    <3> QED
      BY <2>1, <3>1, <3>2, JobIs
  <2> QED
    BY <2>2, <2>3
<1>3. ASSUME NEW j \in SoundJobs, j.todo # <<>>, NEW at \in {"sent", "broken"}
      PROVE  [j EXCEPT !.at = at] \in SoundJobs
  <2>1. j.todo \in Todos /\ j.own \in BOOLEAN /\ j = [todo |-> j.todo, at |-> j.at, own |-> j.own]
    BY JobIs
  <2>2. [j EXCEPT !.at = at] = [todo |-> j.todo, at |-> at, own |-> j.own]
    BY <2>1
  <2> QED
    BY <1>3, <2>1, <2>2, JobIs
<1>4. \A j \in SoundJobs : j.at = "sent" => j.todo # <<>>
  BY DEF SoundJobs
<1> QED
  BY <1>1, <1>2, <1>3, <1>4

(* One slot of one device is written.                                      *)
LEMMA SlotWritten ==
    ASSUME SessionJobs, NEW s \in Serials, NEW i \in Devices!Slots, NEW v \in SoundJobs
    PROVE  [jobs EXCEPT ![s][i] = v] \in [Serials -> [Devices!Slots -> SoundJobs]]
<1> DEFINE g == [jobs[s] EXCEPT ![i] = v]
<1>1. jobs \in [Serials -> [Devices!Slots -> SoundJobs]]
  BY DEF SessionJobs
<1>2. g \in [Devices!Slots -> SoundJobs]
  BY <1>1
<1>3. [jobs EXCEPT ![s][i] = v] = [jobs EXCEPT ![s] = g]
  BY <1>1
<1> HIDE DEF g
<1> QED
  BY <1>1, <1>2, <1>3

(* A goroutine that is started.                                            *)
LEMMA SpawnTypes ==
    ASSUME SessionJobs, NEW s \in Serials, NEW todo \in Todos, NEW own \in BOOLEAN
    PROVE  Devices!Spawned(s, todo, own) \in [Devices!Slots -> SoundJobs]
<1> DEFINE new == [todo |-> todo, at |-> "dial", own |-> own]
           k == CHOOSE i \in Devices!Free(s) : \A j \in Devices!Free(s) : i <= j
<1>1. new \in SoundJobs
  BY JobIs
<1>2. jobs[s] \in [Devices!Slots -> SoundJobs]
  BY DEF SessionJobs
<1>3. Devices!Spawned(s, todo, own) = [jobs[s] EXCEPT ![k] = new]
  BY DEF Devices!Spawned
<1> HIDE DEF new, k
<1> QED
  BY <1>1, <1>2, <1>3

(* Connections that break.                                                 *)
LEMMA BrokenTypes ==
    ASSUME NEW js \in [Devices!Slots -> SoundJobs]
    PROVE  Devices!Broken(js) \in [Devices!Slots -> SoundJobs]
BY JobSteps DEF Devices!Broken

(* Every step leaves sound jobs in the slots.                              *)
LEMMA SessionJobsStep ==
    ASSUME MaxJobs \in Nat \ {0}, SessionType, [Devices!Next]_(Devices!vars)
    PROVE  SessionJobs'
<1> DEFINE Rows == [Devices!Slots -> SoundJobs]
<1>1. /\ SessionJobs /\ jobs \in [Serials -> Rows] /\ activeSerials \subseteq Serials
      /\ \A s \in Serials, i \in Devices!Slots : jobs[s][i] \in SoundJobs
  BY DEF SessionType, SessionJobs, SessionPlain, SessionTracking
<1>2. ASSUME jobs' \in [Serials -> Rows] PROVE SessionJobs'
  BY <1>2 DEF SessionJobs
<1> HIDE DEF Rows
<1>3. CASE UNCHANGED jobs
  BY <1>1, <1>2, <1>3
<1>4. ASSUME NEW s \in Serials, Devices!Unplug(s) PROVE SessionJobs'
  <2>1. jobs' = [jobs EXCEPT ![s] = Devices!Broken(jobs[s])]
    BY <1>4 DEF Devices!Unplug
  <2>2. Devices!Broken(jobs[s]) \in Rows
    BY <1>1, BrokenTypes DEF Rows
  <2> QED
    BY <1>1, <1>2, <2>1, <2>2
<1>5. CASE Devices!ServerStop
  <2>1. jobs' = [s \in Serials |-> Devices!Broken(jobs[s])]
    BY <1>5 DEF Devices!ServerStop
  <2>2. \A s \in Serials : Devices!Broken(jobs[s]) \in Rows
    BY <1>1, BrokenTypes DEF Rows
  <2> QED
    BY <1>2, <2>1, <2>2
<1>6. ASSUME NEW s \in Serials, Devices!HandleOnline(s) PROVE SessionJobs'
  <2>1. jobs' = [jobs EXCEPT ![s] = Devices!Spawned(s, Devices!BootCommands, FALSE)]
    BY <1>6 DEF Devices!HandleOnline
  <2>2. Devices!Spawned(s, Devices!BootCommands, FALSE) \in Rows
    BY <1>1, StartedTodos, SpawnTypes DEF Rows
  <2> QED
    BY <1>1, <1>2, <2>1, <2>2
<1>7. ASSUME NEW p \in Publishers, Devices!DpmsSpawn(p) PROVE SessionJobs'
  <2>1. \/ jobs' = jobs
        \/ jobs' = [s \in Serials |->
                        IF s \in activeSerials
                        THEN Devices!Spawned(s, <<Devices!DpmsCommand(pub[p])>>, TRUE) ELSE jobs[s]]
    BY <1>7 DEF Devices!DpmsSpawn
  <2>2. \A s \in Serials : Devices!Spawned(s, <<Devices!DpmsCommand(pub[p])>>, TRUE) \in Rows
    BY <1>1, StartedTodos, SpawnTypes DEF Rows
  <2> QED
    BY <1>1, <1>2, <2>1, <2>2
<1>8. ASSUME NEW s \in Serials, NEW i \in Devices!Slots, Devices!Work(s, i) PROVE SessionJobs'
  <2> DEFINE j == jobs[s][i]
  <2>1. j \in SoundJobs
    BY <1>1
  <2>2. CASE Devices!Dial(s, i)
    <3>1. j.todo # <<>> /\ jobs' = [jobs EXCEPT ![s][i] = [j EXCEPT !.at = "sent"]]
      BY <2>2 DEF Devices!Dial
    <3>2. [j EXCEPT !.at = "sent"] \in SoundJobs
      BY <2>1, <3>1, JobSteps
    <3> QED
      BY <1>1, <1>2, <3>1, <3>2, SlotWritten DEF Rows
  <2>3. CASE Devices!Effect(s, i) \/ Devices!CommandFails(s, i)
    <3>1. (j.at = "sent" \/ j.todo # <<>>) /\ jobs' = [jobs EXCEPT ![s][i] = Devices!Advanced(j)]
      BY <2>3 DEF Devices!Effect, Devices!CommandFails
    <3>2. j.todo # <<>>
      BY <2>1, <3>1 DEF SoundJobs
    <3>3. Devices!Advanced(j) \in SoundJobs
      BY <2>1, <3>2, JobSteps
    <3> QED
      BY <1>1, <1>2, <3>1, <3>3, SlotWritten DEF Rows
  <2> QED
    BY <1>8, <2>2, <2>3 DEF Devices!Work
<1>9. CASE Devices!CleanupDevices
  <2> DEFINE new == [todo |-> <<"close">>, at |-> "dial", own |-> TRUE]
             row(s) == [jobs[s] EXCEPT ![0] = new]
  <2>1. jobs' = [s \in Serials |-> IF s \in closing' THEN row(s) ELSE jobs[s]]
    BY <1>9 DEF Devices!CleanupDevices
  <2>2. new \in SoundJobs
    BY StartedTodos, JobIs
  <2> HIDE DEF new
  <2>3. \A s \in Serials : row(s) \in Rows
    BY <1>1, <2>2 DEF Rows
  <2> HIDE DEF row
  <2> QED
    BY <1>1, <1>2, <2>1, <2>3
<1>10. CASE Devices!Exit
  <2>1. jobs' = [s \in Serials |-> [i \in Devices!Slots |-> Devices!NoJob]]
    BY <1>10 DEF Devices!Exit
  <2>2. [i \in Devices!Slots |-> Devices!NoJob] \in Rows
    BY JobSteps DEF Rows
  <2> QED
    BY <1>2, <2>1, <2>2
<1>11. CASE Devices!World
  BY <1>3, <1>4, <1>5, <1>11 DEF Devices!World, Devices!ServerStart, Devices!Cancel, Devices!Plug
<1>12. CASE Devices!Tracking
  BY <1>3, <1>6, <1>12 DEF Devices!Tracking, Devices!StreamEstablished, Devices!StreamLost,
                            Devices!TrackerStops, Devices!HandleOffline
<1>13. CASE Devices!Publish
  BY <1>3, <1>7, <1>13 DEF Devices!Publish, Devices!DpmsStore
<1>14. CASE UNCHANGED Devices!vars
  BY <1>3, <1>14 DEF Devices!vars
<1>15. ASSUME NEW s \in Serials, Devices!Afterwards(s) PROVE SessionJobs'
  BY <1>3, <1>15 DEF Devices!Afterwards, Devices!LateEffect
<1> QED
  BY <1>8, <1>9, <1>10, <1>11, <1>12, <1>13, <1>14, <1>15 DEF Devices!Next

(* Every step keeps the other types.                                       *)
LEMMA SessionPlainStep ==
    ASSUME SessionType, [Devices!Next]_(Devices!vars)
    PROVE  SessionPlain'
<1>1. SessionTracking /\ SessionDevices /\ SessionDpms /\ SessionExit
  BY DEF SessionType, SessionPlain
<1> USE DEF SessionPlain, Devices!registryVars, Devices!deviceVars, Devices!exitVars, Devices!dpmsVars,
            Devices!historyVars
<1>2. CASE Devices!ServerStop \/ Devices!ServerStart \/ Devices!Cancel
  <2> USE <1>1, <1>2 DEF Devices!ServerStop, Devices!ServerStart, Devices!Cancel
  <2>1. (phase # "down") \in BOOLEAN
    OBVIOUS
  <2>2. SessionTracking'
    BY <2>1 DEF SessionTracking
  <2>5. tunnel' \in [Serials -> BOOLEAN] /\ late' \in [Serials -> SUBSET Devices!Commands]
    <3>1. tunnel' = tunnel \/ tunnel' = [s \in Serials |-> FALSE]
      OBVIOUS
    <3>2. late' = late \/ late' = [s \in Serials |-> {}]
      OBVIOUS
    <3> QED
      BY ONLY <1>1, <3>1, <3>2 DEF SessionDevices
  <2>6. UNCHANGED <<plugged, behind, screen, app>>
    OBVIOUS
  <2>7. SessionDevices'
    BY ONLY <1>1, <2>5, <2>6 DEF SessionDevices
  <2>3. SessionDevices' /\ SessionDpms'
    BY <2>7 DEF SessionDpms
  <2>4. SessionExit'
    BY DEF SessionExit
  <2> QED
    BY <2>2, <2>3, <2>4
<1>3. ASSUME NEW s \in Serials, Devices!Plug(s) \/ Devices!Unplug(s) PROVE SessionPlain'
  <2> USE <1>1, <1>3 DEF Devices!Plug, Devices!Unplug
  <2>1. SessionTracking' /\ SessionExit' /\ SessionDpms'
    BY DEF SessionTracking, SessionExit, SessionDpms
  <2>2. (s \in activeSerials) \in BOOLEAN
    OBVIOUS
  <2>4. UNCHANGED <<screen, app>>
    OBVIOUS
  <2>5. /\ plugged' = [plugged EXCEPT ![s] = TRUE] \/ plugged' = [plugged EXCEPT ![s] = FALSE]
        /\ behind' = behind \/ behind' = [behind EXCEPT ![s] = s \in activeSerials]
        /\ tunnel' = tunnel \/ tunnel' = [tunnel EXCEPT ![s] = FALSE]
        /\ late' = late \/ late' = [late EXCEPT ![s] = {}]
    OBVIOUS
  <2>6. /\ plugged' \in [Serials -> BOOLEAN] /\ behind' \in [Serials -> BOOLEAN]
        /\ tunnel' \in [Serials -> BOOLEAN]
    BY ONLY <1>1, <2>2, <2>5 DEF SessionDevices
  <2>7. late' \in [Serials -> SUBSET Devices!Commands]
    BY ONLY <1>1, <2>5 DEF SessionDevices
  <2>3. SessionDevices'
    BY ONLY <1>1, <2>4, <2>6, <2>7 DEF SessionDevices
  <2> QED
    BY <2>1, <2>3
<1>4. CASE Devices!Tracking
  <2> USE <1>1, <1>4 DEF Devices!Tracking, Devices!StreamEstablished, Devices!StreamLost, Devices!TrackerStops,
              Devices!HandleOnline, Devices!HandleOffline, Devices!Registry!Establish, Devices!Registry!Lose,
              Devices!Registry!Stop, Devices!Registry!Attach, Devices!Registry!Detach
  <2>1. SessionTracking'
    BY DEF SessionTracking
  <2>2. SessionDevices'
    <3>1. UNCHANGED <<plugged, screen, app, tunnel, late>>
      OBVIOUS
    <3>2. behind' \in [Serials -> BOOLEAN]
      <4>1. behind \in [Serials -> BOOLEAN] /\ plugged \in [Serials -> BOOLEAN]
        BY ONLY <1>1 DEF SessionDevices
      <4>2. \/ behind' = behind \/ behind' = [s \in Serials |-> FALSE]
            \/ \E s \in Serials : behind' = [behind EXCEPT ![s] = ~plugged[s]]
            \/ \E s \in Serials : behind' = [behind EXCEPT ![s] = FALSE]
        OBVIOUS
      <4>3. \A s \in Serials : (~plugged[s]) \in BOOLEAN
        OBVIOUS
      <4> QED
        BY ONLY <4>1, <4>2, <4>3
    <3> QED
      BY ONLY <1>1, <3>1, <3>2 DEF SessionDevices
  <2>3. SessionDpms'
    BY DEF SessionDpms
  <2>4. SessionExit'
    <3>1. UNCHANGED <<noAppControl, ctxDone, exit, closing, lateLaunch>>
      OBVIOUS
    <3>2. failed' = failed \/ \E s \in Serials : failed' = [failed EXCEPT ![s] = @ \cap {"close"}]
      OBVIOUS
    <3>3. failed' \in [Serials -> SUBSET {"reverse", "close"}]
      BY ONLY <1>1, <3>2 DEF SessionExit
    <3> QED
      BY ONLY <1>1, <3>1, <3>3 DEF SessionExit
  <2> QED
    BY <2>1, <2>2, <2>3, <2>4
<1>5. ASSUME NEW p \in Publishers, Devices!DpmsSpawn(p) PROVE SessionPlain'
  <2> USE <1>1, <1>5 DEF Devices!DpmsSpawn
  <2>1. SessionTracking' /\ SessionDevices' /\ SessionExit'
    BY DEF SessionTracking, SessionDevices, SessionExit
  <2>2. told' \in [Serials -> BOOLEAN]
    BY DEF SessionDpms
  <2>3. SessionDpms'
    BY <2>2 DEF SessionDpms
  <2> QED
    BY <2>1, <2>3
<1>6. ASSUME NEW p \in Publishers, NEW state \in {"on", "off"}, Devices!DpmsStore(p, state) PROVE SessionPlain'
  BY <1>1, <1>6 DEF Devices!DpmsStore, SessionTracking, SessionDevices, SessionDpms, SessionExit
<1>7. ASSUME NEW s \in Serials, NEW i \in Devices!Slots, Devices!Dial(s, i) PROVE SessionPlain'
  BY <1>1, <1>7 DEF Devices!Dial, SessionTracking, SessionDevices, SessionDpms, SessionExit
<1>8. ASSUME NEW s \in Serials, NEW i \in Devices!Slots, Devices!Effect(s, i) PROVE SessionPlain'
  <2> USE <1>1, <1>8 DEF Devices!Effect, Devices!TakesEffect
  <2>1. SessionTracking' /\ SessionDpms'
    BY DEF SessionTracking, SessionDpms
  <2>2. SessionDevices'
    BY DEF SessionDevices
  <2>3. SessionExit'
    BY DEF SessionExit
  <2> QED
    BY <2>1, <2>2, <2>3
<1>9. ASSUME NEW s \in Serials, NEW i \in Devices!Slots, Devices!CommandFails(s, i) PROVE SessionPlain'
  <2> DEFINE cmd == Head(jobs[s][i].todo)
  <2>1. cmd \in Devices!Commands
    <3>1. jobs[s][i] \in SoundJobs
      BY DEF SessionType, SessionJobs
    <3>2. jobs[s][i].todo \in Todos /\ jobs[s][i].todo # <<>>
      BY <1>9, <3>1, JobIs DEF Devices!CommandFails
    <3> QED
      BY <3>2 DEF Todos
  <2>2. /\ failed' = [failed EXCEPT ![s] = @ \cup ({cmd} \cap {"reverse", "close"})]
        /\ late' = late \/ late' = [late EXCEPT ![s] = @ \cup ({cmd} \cap Lingering)]
        /\ told' = [told EXCEPT ![s] = FALSE]
        /\ UNCHANGED <<activeSerials, phase, up, stale, plugged, behind, screen, app, tunnel, dpms, pub,
                       noAppControl, ctxDone, exit, closing, lateLaunch>>
    BY <1>9 DEF Devices!CommandFails
  <2> HIDE DEF cmd
  <2>3. SessionTracking' /\ SessionDpms'
    BY <1>1, <2>2 DEF SessionTracking, SessionDpms
  <2>4. late' \in [Serials -> SUBSET Devices!Commands]
    BY <1>1, <2>1, <2>2 DEF SessionDevices
  <2>5. SessionDevices'
    BY <1>1, <2>2, <2>4 DEF SessionDevices
  <2>6. SessionExit'
    BY <1>1, <2>2 DEF SessionExit
  <2> QED
    BY <2>3, <2>5, <2>6
<1>13. ASSUME NEW s \in Serials, Devices!Afterwards(s) PROVE SessionPlain'
  <2>1. PICK cmd \in late[s] : Devices!LateEffect(s, cmd)
    BY <1>13 DEF Devices!Afterwards
  <2> USE <1>1, <2>1 DEF Devices!LateEffect, Devices!TakesEffect
  <2>2. SessionTracking' /\ SessionDpms'
    BY DEF SessionTracking, SessionDpms
  <2>3. SessionDevices'
    BY DEF SessionDevices
  <2>4. SessionExit'
    BY DEF SessionExit
  <2> QED
    BY <2>2, <2>3, <2>4
<1>10. CASE Devices!CleanupDevices
  BY <1>1, <1>10 DEF Devices!CleanupDevices, SessionTracking, SessionDevices, SessionDpms, SessionExit
<1>11. CASE Devices!Exit
  <2>1. stale' \in BOOLEAN
    BY <1>11, Zenon DEF Devices!Exit
  <2> QED
    BY <1>1, <1>11, <2>1 DEF Devices!Exit, SessionTracking, SessionDevices, SessionDpms, SessionExit
<1>12. CASE UNCHANGED Devices!vars
  BY <1>1, <1>12 DEF Devices!vars, SessionTracking, SessionDevices, SessionDpms, SessionExit
<1> QED
  BY <1>2, <1>3, <1>4, <1>5, <1>6, <1>7, <1>8, <1>9, <1>10, <1>11, <1>12, <1>13
     DEF Devices!Next, Devices!World, Devices!Publish, Devices!Work

(* Goroutines are given ADB commands only, and none sends without one.     *)
LEMMA DevicesTypes ==
    ASSUME MaxJobs \in Nat \ {0}
    PROVE  Devices!Init /\ [][Devices!Next]_(Devices!vars) => []Devices!TypeOK
<1>1. Devices!Init => SessionType
  <2> SUFFICES ASSUME Devices!Init PROVE SessionType
    OBVIOUS
  <2>1. up \in BOOLEAN /\ stale \in BOOLEAN /\ noAppControl \in BOOLEAN /\ ctxDone \in BOOLEAN
    BY Zenon DEF Devices!Init
  <2>2. activeSerials = {} /\ phase = "down"
    BY DEF Devices!Init, Devices!Registry!Init
  <2>3. SessionPlain
    BY <2>1, <2>2 DEF Devices!Init, SessionPlain, SessionTracking, SessionDevices, SessionDpms, SessionExit
  <2>4. jobs = [s \in Serials |-> [i \in Devices!Slots |-> Devices!NoJob]]
    BY DEF Devices!Init
  <2>5. SessionJobs
    BY <2>4, JobSteps DEF SessionJobs
  <2> QED
    BY <2>3, <2>5 DEF SessionType
<1>2. SessionType /\ [Devices!Next]_(Devices!vars) => SessionType'
  BY SessionPlainStep, SessionJobsStep DEF SessionType
<1>3. SessionType => Devices!TypeOK
  <2> SUFFICES ASSUME SessionType PROVE Devices!TypeOK
    OBVIOUS
  <2>1. \A s \in Serials : jobs[s] \in [Devices!Slots -> Devices!Jobs]
    BY DEF SessionType, SessionJobs, SoundJobs
  <2> QED
    BY <2>1 DEF SessionType, SessionPlain, SessionTracking, SessionDevices, SessionDpms, SessionExit, Devices!TypeOK
<1> QED
  BY <1>1, <1>2, <1>3, PTL

--------------------------------------------------------------------------------
(* DaemonEdges                                                             *)

(* The behaviours of the socket part are CommandSocket's own.              *)
LEMMA SocketPart ==
    /\ Init /\ part = "socket" => Socket!Init
    /\ part = "socket" /\ [Next]_vars => [Socket!Next]_(Socket!vars)
    /\ [Next]_vars => (part = "socket" <=> (part = "socket")')
BY DEF Init, InitSocket, InitDevices, InitCounters, InitSense, InitConfig, InitInbound,
       Next, NextSocket, NextDevices, NextCounters, NextSense, NextConfig, NextInbound,
       vars, socketVars, Socket!vars, Socket!daemonVars, Socket!handlerVars, Socket!clientVars

(* The behaviours of the counters part are CpuCounters' own.               *)
LEMMA CountersPart ==
    /\ Init /\ part = "counters" => Counters!Init
    /\ part = "counters" /\ [Next]_vars => [Counters!Next]_(Counters!vars)
    /\ [Next]_vars => (part = "counters" <=> (part = "counters")')
BY DEF Init, InitSocket, InitDevices, InitCounters, InitSense, InitConfig, InitInbound,
       Next, NextSocket, NextDevices, NextCounters, NextSense, NextConfig, NextInbound,
       vars, counterVars, Counters!vars, Counters!hostVars, Counters!lastVars,
       Counters!metricVars, Counters!historyVars

(* The behaviours of the sensors part are Sensors' own.                    *)
LEMMA SensePart ==
    /\ Init /\ part = "sensors" => Sense!Init
    /\ part = "sensors" /\ [Next]_vars => [Sense!Next]_(Sense!vars)
    /\ [Next]_vars => (part = "sensors" <=> (part = "sensors")')
BY DEF Init, InitSocket, InitDevices, InitCounters, InitSense, InitConfig, InitInbound,
       Next, NextSocket, NextDevices, NextCounters, NextSense, NextConfig, NextInbound,
       vars, senseVars, Sense!vars

(* The behaviours of the config part are Configuration's own.              *)
LEMMA ConfigPart ==
    /\ Init /\ part = "config" => Config!Init
    /\ part = "config" /\ [Next]_vars => [Config!Next]_(Config!vars)
    /\ [Next]_vars => (part = "config" <=> (part = "config")')
BY DEF Init, InitSocket, InitDevices, InitCounters, InitSense, InitConfig, InitInbound,
       Next, NextSocket, NextDevices, NextCounters, NextSense, NextConfig, NextInbound,
       vars, configVars, Config!vars

(* The behaviours of the inbound part are InboundCommands' own.            *)
LEMMA InboundPart ==
    /\ Init /\ part = "inbound" => Inbound!Init
    /\ part = "inbound" /\ [Next]_vars => [Inbound!Next]_(Inbound!vars)
    /\ [Next]_vars => (part = "inbound" <=> (part = "inbound")')
BY DEF Init, InitSocket, InitDevices, InitCounters, InitSense, InitConfig, InitInbound,
       Next, NextSocket, NextDevices, NextCounters, NextSense, NextConfig, NextInbound,
       vars, inboundVars, Inbound!vars, Inbound!callerVars, Inbound!carriedOut

(* The behaviours of the devices part are DeviceSession's own.             *)
LEMMA DevicesPart ==
    /\ Init /\ part = "devices" => Devices!Init
    /\ part = "devices" /\ [Next]_vars => [Devices!Next]_(Devices!vars)
    /\ [Next]_vars => (part = "devices" <=> (part = "devices")')
BY DEF Init, InitSocket, InitDevices, InitCounters, InitSense, InitConfig, InitInbound,
       Next, NextSocket, NextDevices, NextCounters, NextSense, NextConfig, NextInbound,
       vars, deviceVars, Devices!vars, Devices!registryVars, Devices!deviceVars, Devices!exitVars,
       Devices!dpmsVars, Devices!historyVars

(* Type correctness of every edge, for any number of daemons, devices,     *)
(* cores, hosts and callers: goroutines hold ADB commands only, metrics    *)
(* are numbers of sensors there are, every setting has a value, and the    *)
(* notification manager's mutex is held by a caller at the desktop.        *)
THEOREM EdgesTypesAlways == Spec => []EdgesTypeOK
<1> USE EdgesAssumption DEF EdgesAssumption
<1>1. Spec => [](part = "socket" => Socket!TypeOK)
  <2>1. Socket!Init /\ [][Socket!Next]_(Socket!vars) => []Socket!TypeOK
    BY SocketTypes
  <2> QED
    BY <2>1, SocketPart, PTL DEF Spec
<1>2. Spec => [](part = "devices" => Devices!TypeOK)
  <2>1. Devices!Init /\ [][Devices!Next]_(Devices!vars) => []Devices!TypeOK
    BY DevicesTypes
  <2> QED
    BY <2>1, DevicesPart, PTL DEF Spec
<1>3. Spec => [](part = "counters" => Counters!TypeOK)
  <2>1. Counters!Init /\ [][Counters!Next]_(Counters!vars) => []Counters!TypeOK
    BY CountersTypesAlone
  <2> QED
    BY <2>1, CountersPart, PTL DEF Spec
<1>4. Spec => [](part = "sensors" => Sense!TypeOK)
  <2>1. Sense!Init /\ [][Sense!Next]_(Sense!vars) => []Sense!TypeOK
    BY SenseTypes
  <2> QED
    BY <2>1, SensePart, PTL DEF Spec
<1>5. Spec => [](part = "config" => Config!TypeOK)
  BY ConfigTypes, ConfigPart, PTL DEF Spec
<1>6. Spec => [](part = "inbound" => Inbound!TypeOK)
  <2>1. Inbound!Init /\ [][Inbound!Next]_(Inbound!vars) => []Inbound!TypeOK
    BY InboundTypes
  <2> QED
    BY <2>1, InboundPart, PTL DEF Spec
<1> QED
  BY <1>1, <1>2, <1>3, <1>4, <1>5, <1>6, PTL DEF EdgesTypeOK

(* Whatever the number of daemons: unless two are starting or stopping at  *)
(* the same time, the one that serves owns the path, and only a daemon     *)
(* that answers makes another give up.                                     *)
THEOREM SocketIsOwnedAlways == Spec => []SocketIsOwned
<1>1. Socket!Init /\ [][Socket!Next]_(Socket!vars) => []Socket!SocketIsOwned
      BY EdgesAssumption, SocketIsOwnedAlone DEF EdgesAssumption
<1> QED
    BY <1>1, SocketPart, PTL DEF Spec, SocketIsOwned

(* What the trigger command reports is true whatever daemons, deadlines    *)
(* and other clients do: of a success every store and broadcast was run,   *)
(* of a rejection none.                                                    *)
THEOREM AnswersAreTrueAlways == Spec => []AnswersAreTrue
<1>1. Socket!Init /\ [][Socket!Next]_(Socket!vars) => []Socket!AnswersAreTrue
      BY EdgesAssumption, AnswersAreTrueAlone DEF EdgesAssumption
<1> QED
    BY <1>1, SocketPart, PTL DEF Spec, AnswersAreTrue

(* RequestsAnswered for any number of clients, RPCs and frames: one reply  *)
(* each, in order, and it agrees with what the desktop did and answered,   *)
(* whatever hangs, expires or leaves.                                      *)
THEOREM RequestsAnsweredAlways == Spec => []RequestsAnswered
<1>1. Inbound!Init /\ [][Inbound!Next]_(Inbound!vars) => []Inbound!RequestsAnswered
      BY EdgesAssumption, RequestsAnsweredAlone DEF EdgesAssumption
<1> QED
    BY <1>1, InboundPart, PTL DEF Spec, RequestsAnswered

(* HostInputClean for any frames and calls: whatever companions send, the  *)
(* desktop gets short texts without tags, offered profiles, and positions  *)
(* and volumes within their range.                                         *)
THEOREM HostInputCleanAlways == Spec => []HostInputClean
<1>1. Inbound!Init /\ [][Inbound!Next]_(Inbound!vars) => []Inbound!HostInputClean
      BY EdgesAssumption, HostInputCleanAlone DEF EdgesAssumption
<1> QED
    BY <1>1, InboundPart, PTL DEF Spec, HostInputClean

(* StartsAsConfigured for any layers: the strongest one that reaches a     *)
(* setting decides, the address is loopback whatever is asked for, and     *)
(* only the file's interval can make the start panic.                      *)
THEOREM StartsAsConfiguredAlways == Spec => []StartsAsConfigured
<1>1. Config!Init /\ [][Config!Next]_(Config!vars) => []Config!StartsAsConfigured
      BY EdgesAssumption, StartsAsConfiguredAlone DEF EdgesAssumption
<1> QED
    BY <1>1, ConfigPart, PTL DEF Spec, StartsAsConfigured

(* FlagsMatchValues whatever the host's files are and become: every read   *)
(* assigns every flag, so no sensor's flag outlives it, and a flag stands  *)
(* over a zero only for what is there and is no number.                    *)
THEOREM FlagsMatchValuesAlways == Spec => []FlagsMatchValues
<1>1. Sense!Init /\ [][Sense!Next]_(Sense!vars) => []Sense!FlagsMatchValues
      BY EdgesAssumption, FlagsMatchValuesAlone DEF EdgesAssumption
<1> QED
    BY <1>1, SensePart, PTL DEF Spec, FlagsMatchValues

(* ReportsAreSound for any workload of any number of cores, any counters'  *)
(* widths and any pattern of failed reads: usage is a percentage unless a  *)
(* counter went backwards or as many cores were exchanged, and power is    *)
(* never more than was used.                                               *)
THEOREM ReportsAreSoundAlways == Spec => ReportsAreSound
<1>1. Counters!Init /\ [][Counters!Next]_(Counters!vars) => Counters!ReportsAreSound
      BY EdgesAssumption, ReportsAreSoundAlone DEF EdgesAssumption
<1>2. [Counters!ReportsPercentage /\ Counters!ReportsPower]_<<usage, coresUsage, power, owed>>
      =>
      [part = "counters" => Counters!ReportsPercentage /\ Counters!ReportsPower]_<<usage, coresUsage, power, owed>>
      OBVIOUS
<1>3. ~(part = "counters") =>
      [part = "counters" => Counters!ReportsPercentage /\ Counters!ReportsPower]_<<usage, coresUsage, power, owed>>
      OBVIOUS
<1> QED
    BY <1>1, <1>2, <1>3, CountersPart, PTL DEF Spec, ReportsAreSound, Counters!ReportsAreSound

================================================================================
