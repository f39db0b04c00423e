------------------------------- MODULE StateSync --------------------------------
(***************************************************************************)
(* Distribution of cached system states (session lock, power profile,      *)
(* DPMS) to WebSocket clients and StreamSystemState RPCs.                  *)
(*                                                                         *)
(* Every kind of state has a monitor goroutine; requests on the command    *)
(* socket publish the same kinds from goroutines of their own.  Publishing *)
(* is: store the cache under its mutex; copy the client set under the      *)
(* pool's mutex; write to each client of the copy; then offer the value to *)
(* every RPC subscriber without blocking, under the subscribers' read lock.*)
(* A new WebSocket client joins the pool first and is then sent the caches *)
(* one by one; a new RPC stream subscribes first, reads the caches, sends  *)
(* them, and only then turns to its channel.                               *)
(***************************************************************************)
EXTENDS Integers, Sequences

CONSTANTS
    KindSeq,      \* the kinds of state, in the order their caches are read
    Values,       \* values of a state
    Nil,          \* no value cached or shown yet
    Unread,       \* the connecting client has not read the cache yet
    UdsHandlers,  \* handleCommandConnection goroutines
    WsClients,    \* WebSocket connections
    RpcStreams,   \* StreamSystemState calls
    SubCap        \* capacity of a subscriber's channel, 10 in StreamSystemState

Kinds == {KindSeq[i] : i \in DOMAIN KindSeq}

\* The monitor of a kind is named by the kind.
Writers == Kinds \cup UdsHandlers

ASSUME SyncAssumption ==
    /\ KindSeq \in Seq(Kinds) /\ KindSeq # <<>>
    /\ \A i, j \in DOMAIN KindSeq : KindSeq[i] = KindSeq[j] => i = j
    /\ Nil \notin Kinds \cup Values /\ Unread \notin Values /\ Nil # Unread
    /\ SubCap \in Nat \ {0}

VARIABLES
    cache,      \* e.lastLockState, e.lastPowerState, e.lastDpmsState
    wpc,        \* where each publisher is
    wkind,      \* the kind it publishes, Nil when idle
    wval,       \* the value it publishes, Nil when idle
    wtodo,      \* clients of its copy of the pool it has still to write to
    rtodo,      \* subscribers it has still to offer the value to
    pool,       \* p.connections
    cpc,        \* where HandleClient of a connection is
    cpos,       \* the kind handleClientConnect is at
    cread,      \* the value it read and has not written yet
    alive,      \* the connection is usable
    shown,      \* what the client was sent last, per kind
    rpc,        \* where a stream is
    rpos,       \* the kind it is at, reading or sending the initial states
    initv,      \* the initial states it read and has not sent yet
    ch,         \* its subscriber channel
    streamed,   \* what the stream was sent last, per kind
    panicked,   \* somebody sent on a closed channel
    crossed,    \* history, per kind: the last store overlapped another publication
    raced,      \* history, per client and kind: the last store hit between read and write
    dropped     \* history, per stream and kind: the last offer found the channel full

cacheVars == <<cache, crossed>>
writerVars == <<wpc, wkind, wval, wtodo, rtodo>>
clientVars == <<pool, cpc, cpos, cread, alive, shown, raced>>
streamVars == <<rpc, rpos, initv, ch, streamed, panicked, dropped>>
vars == <<cacheVars, writerVars, clientVars, streamVars>>

Cached == Values \cup {Nil}
Messages == [kind : Kinds, val : Values]
NoStates == [k \in Kinds |-> Nil]
Quiet(k) == \A w \in Writers : wkind[w] # k

Init ==
    /\ cache = NoStates
    /\ wpc = [w \in Writers |-> "idle"]
    /\ wkind = [w \in Writers |-> Nil]
    /\ wval = [w \in Writers |-> Nil]
    /\ wtodo = [w \in Writers |-> {}]
    /\ rtodo = [w \in Writers |-> {}]
    /\ pool = {}
    /\ cpc = [c \in WsClients |-> "out"]
    /\ cpos = [c \in WsClients |-> 1]
    /\ cread = [c \in WsClients |-> Unread]
    /\ alive = [c \in WsClients |-> FALSE]
    /\ shown = [c \in WsClients |-> NoStates]
    /\ rpc = [r \in RpcStreams |-> "out"]
    /\ rpos = [r \in RpcStreams |-> 1]
    /\ initv = [r \in RpcStreams |-> NoStates]
    /\ ch = [r \in RpcStreams |-> <<>>]
    /\ streamed = [r \in RpcStreams |-> NoStates]
    /\ panicked = FALSE
    /\ crossed = [k \in Kinds |-> FALSE]
    /\ raced = [c \in WsClients |-> [k \in Kinds |-> FALSE]]
    /\ dropped = [r \in RpcStreams |-> [k \in Kinds |-> FALSE]]

--------------------------------------------------------------------------------
(* Publishing: the monitors and the command socket's handlers              *)

\* A monitor receives an event of its kind, a handler has decoded a request.
Publishes(w, k) == w = k \/ w \in UdsHandlers

Racing(c, k) ==
    alive[c] /\ cpc[c] = "sync" /\ KindSeq[cpos[c]] = k /\ cread[c] # Unread

Store(w, k, v) ==
    /\ wpc[w] = "idle"
    /\ Publishes(w, k)
    /\ wpc' = [wpc EXCEPT ![w] = "pool"]
    /\ wkind' = [wkind EXCEPT ![w] = k]
    /\ wval' = [wval EXCEPT ![w] = v]
    /\ cache' = [cache EXCEPT ![k] = v]
    /\ crossed' = [crossed EXCEPT ![k] = ~Quiet(k)]
    /\ raced' = [c \in WsClients |-> [raced[c] EXCEPT ![k] = Racing(c, k)]]
    /\ UNCHANGED <<wtodo, rtodo, pool, cpc, cpos, cread, alive, shown, streamVars>>

\* pool.Broadcast copies the connections under the read lock.
CopyPoolReadyOnly(w) ==
    /\ wpc[w] = "pool"
    /\ wpc' = [wpc EXCEPT ![w] = "write"]
    /\ wtodo' = [wtodo EXCEPT ![w] = {c \in pool : cpc[c] = "live"}]
    /\ UNCHANGED <<cacheVars, wkind, wval, rtodo, clientVars, streamVars>>

CopyPool(w) ==
    /\ wpc[w] = "pool"
    /\ wpc' = [wpc EXCEPT ![w] = "write"]
    /\ wtodo' = [wtodo EXCEPT ![w] = pool]
    /\ UNCHANGED <<cacheVars, wkind, wval, rtodo, clientVars, streamVars>>

\* One write of the loop; a connection that fails is removed and closed.
WriteClient(w, c) ==
    /\ wpc[w] = "write"
    /\ c \in wtodo[w]
    /\ wtodo' = [wtodo EXCEPT ![w] = @ \ {c}]
    /\ \/ /\ alive[c]
          /\ shown' = [shown EXCEPT ![c][wkind[w]] = wval[w]]
          /\ UNCHANGED pool
       \/ /\ ~alive[c]
          /\ pool' = pool \ {c}
          /\ UNCHANGED shown
    /\ UNCHANGED <<cacheVars, wpc, wkind, wval, rtodo, cpc, cpos, cread, alive, raced, streamVars>>

\* Take the subscribers' read lock.
BeginOffers(w) ==
    /\ wpc[w] = "write"
    /\ wtodo[w] = {}
    /\ wpc' = [wpc EXCEPT ![w] = "offer"]
    /\ rtodo' = [rtodo EXCEPT ![w] = {r \in RpcStreams : rpc[r] \in {"read", "send", "live"}}]
    /\ UNCHANGED <<cacheVars, wkind, wval, wtodo, clientVars, streamVars>>

\* One non-blocking send; a full channel loses the value.
Offer(w, r) ==
    /\ wpc[w] = "offer"
    /\ r \in rtodo[w]
    /\ rtodo' = [rtodo EXCEPT ![w] = @ \ {r}]
    /\ panicked' = (panicked \/ rpc[r] = "gone")
    /\ ch' = IF Len(ch[r]) < SubCap
             THEN [ch EXCEPT ![r] = Append(@, [kind |-> wkind[w], val |-> wval[w]])]
             ELSE ch
    /\ dropped' = [dropped EXCEPT ![r][wkind[w]] = Len(ch[r]) >= SubCap]
    /\ UNCHANGED <<cacheVars, wpc, wkind, wval, wtodo, clientVars, rpc, rpos, initv, streamed>>

EndOffers(w) ==
    /\ wpc[w] = "offer"
    /\ rtodo[w] = {}
    /\ wpc' = [wpc EXCEPT ![w] = "idle"]
    /\ wkind' = [wkind EXCEPT ![w] = Nil]
    /\ wval' = [wval EXCEPT ![w] = Nil]
    /\ UNCHANGED <<cacheVars, wtodo, rtodo, clientVars, streamVars>>

--------------------------------------------------------------------------------
(* A WebSocket connection: HandleClient, Add and handleClientConnect       *)

\* Add: the connection joins the pool before anything is sent to it.
Connect(c) ==
    /\ cpc[c] = "out"
    /\ cpc' = [cpc EXCEPT ![c] = "sync"]
    /\ alive' = [alive EXCEPT ![c] = TRUE]
    /\ pool' = pool \cup {c}
    /\ UNCHANGED <<cacheVars, writerVars, cpos, cread, shown, raced, streamVars>>

\* On to the next cache, or to the read loop after the last.
NextKind(c) ==
    IF cpos[c] = Len(KindSeq)
    THEN cpc' = [cpc EXCEPT ![c] = "live"] /\ UNCHANGED cpos
    ELSE cpos' = [cpos EXCEPT ![c] = @ + 1] /\ UNCHANGED cpc

\* Read one cache under its mutex; an empty one is skipped.
ReadCache(c) ==
    /\ cpc[c] = "sync"
    /\ cread[c] = Unread
    /\ LET v == cache[KindSeq[cpos[c]]] IN
       \/ v # Nil /\ cread' = [cread EXCEPT ![c] = v] /\ UNCHANGED <<cpc, cpos>>
       \/ v = Nil /\ NextKind(c) /\ UNCHANGED cread
    /\ UNCHANGED <<cacheVars, writerVars, pool, alive, shown, raced, streamVars>>

\* Write what was read; an error is only logged.
PushCache(c) ==
    /\ cpc[c] = "sync"
    /\ cread[c] # Unread
    /\ shown' = IF alive[c] THEN [shown EXCEPT ![c][KindSeq[cpos[c]]] = cread[c]] ELSE shown
    /\ cread' = [cread EXCEPT ![c] = Unread]
    /\ NextKind(c)
    /\ UNCHANGED <<cacheVars, writerVars, pool, alive, raced, streamVars>>

\* The peer is gone, and with it what it showed.
PeerLeaves(c) ==
    /\ alive[c]
    /\ alive' = [alive EXCEPT ![c] = FALSE]
    /\ shown' = [shown EXCEPT ![c] = NoStates]
    /\ raced' = [raced EXCEPT ![c] = [k \in Kinds |-> FALSE]]
    /\ UNCHANGED <<cacheVars, writerVars, pool, cpc, cpos, cread, streamVars>>

ReadLoopEndsKeeps(c) ==
    /\ cpc[c] = "live"
    /\ ~alive[c]
    /\ cpc' = [cpc EXCEPT ![c] = "gone"]
    /\ UNCHANGED <<cacheVars, writerVars, pool, cpos, cread, alive, shown, raced, streamVars>>

\* The read loop ends and its deferred Remove runs.
ReadLoopEnds(c) ==
    /\ cpc[c] = "live"
    /\ ~alive[c]
    /\ cpc' = [cpc EXCEPT ![c] = "gone"]
    /\ pool' = pool \ {c}
    /\ UNCHANGED <<cacheVars, writerVars, cpos, cread, alive, shown, raced, streamVars>>

--------------------------------------------------------------------------------
(* A StreamSystemState call                                                *)

SubscribersLocked == \E w \in Writers : wpc[w] = "offer"

\* Register the channel under the write lock.
Subscribe(r) ==
    /\ rpc[r] = "out"
    /\ ~SubscribersLocked
    /\ rpc' = [rpc EXCEPT ![r] = "read"]
    /\ UNCHANGED <<cacheVars, writerVars, clientVars, rpos, initv, ch, streamed, panicked, dropped>>

NextPhase(r, phase) ==
    IF rpos[r] = Len(KindSeq)
    THEN rpc' = [rpc EXCEPT ![r] = phase] /\ rpos' = [rpos EXCEPT ![r] = 1]
    ELSE rpos' = [rpos EXCEPT ![r] = @ + 1] /\ UNCHANGED rpc

\* getInitialSystemStates reads one cache after the other.
ReadInitial(r) ==
    /\ rpc[r] = "read"
    /\ initv' = [initv EXCEPT ![r][KindSeq[rpos[r]]] = cache[KindSeq[rpos[r]]]]
    /\ NextPhase(r, "send")
    /\ UNCHANGED <<cacheVars, writerVars, clientVars, ch, streamed, panicked, dropped>>

SendInitial(r) ==
    /\ rpc[r] = "send"
    /\ LET k == KindSeq[rpos[r]] IN
       streamed' = IF initv[r][k] # Nil
                   THEN [streamed EXCEPT ![r][k] = initv[r][k]] ELSE streamed
    /\ initv' = [initv EXCEPT ![r][KindSeq[rpos[r]]] = Nil]
    /\ NextPhase(r, "live")
    /\ UNCHANGED <<cacheVars, writerVars, clientVars, ch, panicked, dropped>>

DeliverAtOnce(r) ==
    /\ rpc[r] \in {"send", "live"}
    /\ ch[r] # <<>>
    /\ streamed' = [streamed EXCEPT ![r][Head(ch[r]).kind] = Head(ch[r]).val]
    /\ ch' = [ch EXCEPT ![r] = Tail(@)]
    /\ UNCHANGED <<cacheVars, writerVars, clientVars, rpc, rpos, initv, panicked, dropped>>

Deliver(r) ==
    /\ rpc[r] = "live"
    /\ ch[r] # <<>>
    /\ streamed' = [streamed EXCEPT ![r][Head(ch[r]).kind] = Head(ch[r]).val]
    /\ ch' = [ch EXCEPT ![r] = Tail(@)]
    /\ UNCHANGED <<cacheVars, writerVars, clientVars, rpc, rpos, initv, panicked, dropped>>

\* The peer left or a send failed: remove and close the channel.
UnsubscribeUnlocked(r) ==
    /\ rpc[r] \in {"send", "live"}
    /\ rpc' = [rpc EXCEPT ![r] = "gone"]
    /\ ch' = [ch EXCEPT ![r] = <<>>]
    /\ UNCHANGED <<cacheVars, writerVars, clientVars, rpos, initv, streamed, panicked, dropped>>

Unsubscribe(r) ==
    /\ rpc[r] \in {"send", "live"}
    /\ ~SubscribersLocked
    /\ rpc' = [rpc EXCEPT ![r] = "gone"]
    /\ ch' = [ch EXCEPT ![r] = <<>>]
    /\ UNCHANGED <<cacheVars, writerVars, clientVars, rpos, initv, streamed, panicked, dropped>>

--------------------------------------------------------------------------------
Publisher(w) ==
    \/ \E k \in Kinds, v \in Values : Store(w, k, v)
    \/ CopyPool(w) \/ BeginOffers(w) \/ EndOffers(w)
    \/ \E c \in WsClients : WriteClient(w, c)
    \/ \E r \in RpcStreams : Offer(w, r)

Client(c) ==
    Connect(c) \/ ReadCache(c) \/ PushCache(c) \/ PeerLeaves(c) \/ ReadLoopEnds(c)

Stream(r) ==
    Subscribe(r) \/ ReadInitial(r) \/ SendInitial(r) \/ Deliver(r) \/ Unsubscribe(r)

Next ==
    \/ \E w \in Writers : Publisher(w)
    \/ \E c \in WsClients : Client(c)
    \/ \E r \in RpcStreams : Stream(r)

Spec == Init /\ [][Next]_vars

\* HandleClient's goroutine runs; nothing is assumed of desktop and peers.
FairSpec ==
    /\ Spec
    /\ \A c \in WsClients : WF_vars(ReadCache(c) \/ PushCache(c) \/ ReadLoopEnds(c))

--------------------------------------------------------------------------------
(* Properties                                                              *)

(* The variables' types; no subscriber channel exceeds its capacity.       *)
TypeOK ==
    /\ cache \in [Kinds -> Cached]
    /\ wpc \in [Writers -> {"idle", "pool", "write", "offer"}]
    /\ wkind \in [Writers -> Kinds \cup {Nil}]
    /\ wval \in [Writers -> Cached]
    /\ wtodo \in [Writers -> SUBSET WsClients]
    /\ rtodo \in [Writers -> SUBSET RpcStreams]
    /\ pool \subseteq WsClients
    /\ cpc \in [WsClients -> {"out", "sync", "live", "gone"}]
    /\ cpos \in [WsClients -> DOMAIN KindSeq]
    /\ cread \in [WsClients -> Values \cup {Unread}]
    /\ alive \in [WsClients -> BOOLEAN]
    /\ shown \in [WsClients -> [Kinds -> Cached]]
    /\ rpc \in [RpcStreams -> {"out", "read", "send", "live", "gone"}]
    /\ rpos \in [RpcStreams -> DOMAIN KindSeq]
    /\ initv \in [RpcStreams -> [Kinds -> Cached]]
    /\ ch \in [RpcStreams -> Seq(Messages)]
    /\ \A r \in RpcStreams : Len(ch[r]) <= SubCap
    /\ streamed \in [RpcStreams -> [Kinds -> Cached]]
    /\ panicked \in BOOLEAN
    /\ crossed \in [Kinds -> BOOLEAN]
    /\ raced \in [WsClients -> [Kinds -> BOOLEAN]]
    /\ dropped \in [RpcStreams -> [Kinds -> BOOLEAN]]

(* Once nobody is publishing a kind, every connected client whose initial  *)
(* states were sent shows the cached value, except after one of two races: *)
(* two overlapping publications of that kind, or a store that fell between *)
(* handleClientConnect's read of the cache and its write.                  *)
ClientsCurrent ==
    \A c \in WsClients, k \in Kinds :
        cpc[c] = "live" /\ alive[c] /\ Quiet(k) /\ ~crossed[k] /\ ~raced[c][k]
            => shown[c][k] = cache[k]

\* What a stream will have been sent of a kind once its channel is empty.
StreamView(r, k) ==
    LET later == {i \in DOMAIN ch[r] : ch[r][i].kind = k}
    IN  IF later # {}
        THEN ch[r][CHOOSE i \in later : \A j \in later : j <= i].val
        ELSE IF initv[r][k] # Nil THEN initv[r][k] ELSE streamed[r][k]

(* Once nobody is publishing a kind, every RPC stream has been or will be  *)
(* sent the cached value last, although it subscribes, reads the caches    *)
(* and sends them in separate steps; the exceptions are overlapping        *)
(* publications and a value lost to a full channel.                        *)
StreamsCurrent ==
    \A r \in RpcStreams, k \in Kinds :
        rpc[r] \in {"send", "live"} /\ Quiet(k) /\ ~crossed[k] /\ ~dropped[r][k]
            => StreamView(r, k) = cache[k]

(* No broadcast sends on a subscriber channel after StreamSystemState's    *)
(* deferred close, which would end the daemon: the write lock keeps the    *)
(* close out of a broadcast's loop over the subscribers.                   *)
NoSendOnClosed == ~panicked

(* With every variable in its type, subscriber channels stay within their  *)
(* capacity and are never sent to once closed.                             *)
SubscribersSafe == TypeOK /\ NoSendOnClosed

(* A connection that breaks leaves the pool, whether a broadcast notices   *)
(* it or only the read loop does, and even if it breaks while              *)
(* handleClientConnect is still sending the caches.                        *)
BrokenConnectionsLeave ==
    \A c \in WsClients : (cpc[c] # "out" /\ ~alive[c]) ~> c \notin pool
================================================================================
