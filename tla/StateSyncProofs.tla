---------------------------- MODULE StateSyncProofs ----------------------------
(* Proofs about StateSync for any kinds of state, any number of handlers,  *)
(* clients and streams, and any capacity of a subscriber's channel.        *)
EXTENDS StateSync, TLAPS

(* A publisher under way has a kind and a value; its lists of clients and  *)
(* of subscribers exist only during its loops over them, and the           *)
(* subscribers on the list are subscribed.                                 *)
PublisherInv ==
    \A w \in Writers :
        /\ wpc[w] = "idle" => wkind[w] = Nil
        /\ wpc[w] # "idle" => wkind[w] \in Kinds /\ wval[w] \in Values
        /\ wpc[w] # "write" => wtodo[w] = {}
        /\ wpc[w] # "offer" => rtodo[w] = {}
        /\ \A r \in rtodo[w] : rpc[r] \in {"read", "send", "live"}

(* After a store that overlapped no other publication, only the publisher  *)
(* that stored can be under way with this kind, and it carries the cached  *)
(* value; a kind somebody publishes is cached.                             *)
SoleInv ==
    \A k \in Kinds :
        /\ \A w \in Writers : wkind[w] = k => cache[k] # Nil
        /\ ~crossed[k] => \A w \in Writers : wkind[w] = k => wval[w] = cache[k]

--------------------------------------------------------------------------------
(* The clients                                                             *)

(* The connection of a client that is alive is in the pool.                *)
PoolInv ==
    \A c \in WsClients :
        /\ alive[c] => c \in pool /\ cpc[c] \in {"sync", "live"}
        /\ cpc[c] = "out" => cpos[c] = 1 /\ cread[c] = Unread

(* The kinds handleClientConnect has not finished with.                    *)
Unsynced(c, k) == cpc[c] = "sync" /\ \E i \in DOMAIN KindSeq : KindSeq[i] = k /\ cpos[c] <= i

(* A publisher of this kind will still write to the client.                *)
WillWrite(c, k) ==
    \E w \in Writers : wkind[w] = k /\ (wpc[w] = "pool" \/ (wpc[w] = "write" /\ c \in wtodo[w]))

(* Without a race, the value read and not yet written is the cached one.   *)
ReadIsCached ==
    \A c \in WsClients :
        cpc[c] = "sync" /\ cread[c] # Unread =>
            /\ cache[KindSeq[cpos[c]]] # Nil
            /\ alive[c] /\ ~raced[c][KindSeq[cpos[c]]] => cread[c] = cache[KindSeq[cpos[c]]]

(* What was never cached is shown nowhere.                                 *)
NothingShownUncached ==
    \A c \in WsClients, k \in Kinds : cache[k] = Nil => shown[c][k] = Nil

(* A client that does not show the cached value is still to be sent it, by *)
(* handleClientConnect or by a publisher under way.                        *)
ShownOrComing ==
    \A c \in WsClients, k \in Kinds :
        alive[c] /\ ~crossed[k] /\ ~raced[c][k] =>
            Unsynced(c, k) \/ WillWrite(c, k) \/ shown[c][k] = cache[k]

ClientInv == PoolInv /\ ReadIsCached /\ NothingShownUncached /\ ShownOrComing

--------------------------------------------------------------------------------
(* The streams                                                             *)

Subscribed(r) == rpc[r] \in {"read", "send", "live"}

(* The kinds getInitialSystemStates has not read yet.                      *)
Unfetched(r, k) == rpc[r] = "read" /\ \E i \in DOMAIN KindSeq : KindSeq[i] = k /\ rpos[r] <= i

(* A publisher of this kind will still offer its value to the stream.      *)
WillOffer(r, k) ==
    \E w \in Writers : wkind[w] = k /\ (wpc[w] \in {"pool", "write"} \/ (wpc[w] = "offer" /\ r \in rtodo[w]))

(* A channel q has values of the kind, the last of them at position i.     *)
Has(q, k) == \E i \in DOMAIN q : q[i].kind = k
LastAt(q, k, i) ==
    /\ i \in DOMAIN q /\ q[i].kind = k
    /\ \A j \in DOMAIN q : q[j].kind = k => j <= i

(* A channel with values of a kind has a last one.                         *)
LastExists ==
    \A r \in RpcStreams, k \in Kinds :
        Has(ch[r], k) => \E i \in DOMAIN ch[r] : LastAt(ch[r], k, i)

(* The last value of a kind in a channel is the cached one, or a newer one *)
(* follows.                                                                *)
QueuedOrComing ==
    \A r \in RpcStreams, k \in Kinds :
        ~crossed[k] /\ ~dropped[r][k] => \A i \in DOMAIN ch[r] :
            LastAt(ch[r], k, i) => ch[r][i].val = cache[k] \/ WillOffer(r, k)

(* What a stream without values of the kind in its channel was or will be  *)
(* sent first.                                                             *)
Base(r, k) == IF initv[r][k] # Nil THEN initv[r][k] ELSE streamed[r][k]

BaseOrComing ==
    \A r \in RpcStreams, k \in Kinds :
        Subscribed(r) /\ ~crossed[k] /\ ~dropped[r][k] /\ ~Has(ch[r], k) =>
            Unfetched(r, k) \/ WillOffer(r, k) \/ Base(r, k) = cache[k]

(* What was never cached is sent nowhere; initial states are kept from     *)
(* their reading to their sending, and a stream starts at the first kind   *)
(* with an empty channel.                                                  *)
InitialStates ==
    \A r \in RpcStreams :
        /\ \A k \in Kinds : cache[k] = Nil => initv[r][k] = Nil /\ streamed[r][k] = Nil /\ ~Has(ch[r], k)
        /\ rpc[r] = "out" => rpos[r] = 1
        /\ rpc[r] \in {"out", "gone"} => ch[r] = <<>>
        /\ rpc[r] = "send" => \A i \in DOMAIN KindSeq : i < rpos[r] => initv[r][KindSeq[i]] = Nil
        /\ rpc[r] = "live" => \A k \in Kinds : initv[r][k] = Nil

StreamInv == LastExists /\ QueuedOrComing /\ BaseOrComing /\ InitialStates

--------------------------------------------------------------------------------
(* Every kind has a position, and the positions are 1 to the length.       *)
LEMMA KindPositions ==
    /\ Len(KindSeq) \in Nat /\ DOMAIN KindSeq = 1..Len(KindSeq)
    /\ 1 \in DOMAIN KindSeq
    /\ \A i \in DOMAIN KindSeq : KindSeq[i] \in Kinds
    /\ \A i \in DOMAIN KindSeq : i # Len(KindSeq) => i + 1 \in DOMAIN KindSeq
<1>1. KindSeq \in Seq(Kinds) /\ KindSeq # <<>>
  BY SyncAssumption
<1>2. Len(KindSeq) \in Nat /\ DOMAIN KindSeq = 1..Len(KindSeq) /\ Len(KindSeq) # 0
  BY <1>1
<1>3. \A i \in DOMAIN KindSeq : KindSeq[i] \in Kinds
  BY DEF Kinds
<1> QED
  BY <1>2, <1>3

(* What a channel keeps when a value is appended to it.                    *)
LEMMA ChannelAppend ==
    ASSUME NEW S, NEW q \in Seq(S), NEW e \in S
    PROVE  /\ Append(q, e) \in Seq(S)
           /\ Len(q) \in Nat /\ Len(Append(q, e)) = Len(q) + 1
           /\ DOMAIN q = 1..Len(q) /\ DOMAIN Append(q, e) = 1..(Len(q) + 1)
           /\ Append(q, e)[Len(q) + 1] = e
           /\ \A i \in DOMAIN q : Append(q, e)[i] = q[i]
  OBVIOUS

(* What a channel keeps when its head is taken.                            *)
LEMMA ChannelTail ==
    ASSUME NEW S, NEW q \in Seq(S), q # <<>>
    PROVE  /\ Tail(q) \in Seq(S)
           /\ Len(q) \in Nat \ {0} /\ Len(Tail(q)) = Len(q) - 1
           /\ Head(q) = q[1] /\ Head(q) \in S
           /\ DOMAIN q = 1..Len(q) /\ DOMAIN Tail(q) = 1..(Len(q) - 1)
           /\ \A i \in DOMAIN Tail(q) : Tail(q)[i] = q[i + 1]
  OBVIOUS

(* What one entry of a table of tables can change.                         *)
LEMMA EntryUpdate ==
    ASSUME NEW A, NEW B, NEW C, NEW f \in [A -> [B -> C]], NEW a \in A, NEW b \in B, NEW v \in C
    PROVE  /\ [f EXCEPT ![a][b] = v] \in [A -> [B -> C]]
           /\ \A x \in A, y \in B : [f EXCEPT ![a][b] = v][x][y] = IF x = a /\ y = b THEN v ELSE f[x][y]
<1> DEFINE g == [f[a] EXCEPT ![b] = v]
           h == [f EXCEPT ![a] = g]
<1>1. g \in [B -> C] /\ \A y \in B : g[y] = IF y = b THEN v ELSE f[a][y]
  OBVIOUS
<1>2. [f EXCEPT ![a][b] = v] = h
  OBVIOUS
<1> HIDE DEF g
<1>3. h \in [A -> [B -> C]] /\ \A x \in A : h[x] = IF x = a THEN g ELSE f[x]
  BY <1>1
<1> HIDE DEF h
<1> QED
  BY <1>1, <1>2, <1>3

--------------------------------------------------------------------------------
(* The types hold, and with them the publishers' part of the invariant.    *)
LEMMA TypeInit == Init => TypeOK /\ PublisherInv
<1> SUFFICES ASSUME Init PROVE TypeOK /\ PublisherInv
  OBVIOUS
<1>1. /\ \A S : <<>> \in Seq(S)
      /\ Len(<<>>) = 0 /\ 0 <= SubCap
  BY SyncAssumption
<1>2. ch \in [RpcStreams -> Seq(Messages)]
  BY <1>1, Zenon DEF Init
<1>3. \A r \in RpcStreams : Len(ch[r]) <= SubCap
  BY <1>1 DEF Init
<1>4. cpos \in [WsClients -> DOMAIN KindSeq] /\ rpos \in [RpcStreams -> DOMAIN KindSeq]
  BY KindPositions DEF Init
<1>5. PublisherInv
  BY DEF Init, PublisherInv
<1> QED
  BY <1>2, <1>3, <1>4, <1>5 DEF Init, TypeOK, NoStates, Cached

(* Publishers keep the types, and their lists in order.                    *)
LEMMA PublisherTypes ==
    ASSUME TypeOK, PublisherInv, NEW w \in Writers, Publisher(w)
    PROVE  TypeOK' /\ PublisherInv'
<1>1. ASSUME NEW k \in Kinds, NEW v \in Values, Store(w, k, v) PROVE TypeOK' /\ PublisherInv'
  <2>a. (~Quiet(k)) \in BOOLEAN /\ \A c \in WsClients : Racing(c, k) \in BOOLEAN
    BY Zenon DEF Quiet, Racing
  <2>b. crossed' \in [Kinds -> BOOLEAN] /\ raced' \in [WsClients -> [Kinds -> BOOLEAN]]
    BY <1>1, <2>a DEF Store, TypeOK
  <2>1. TypeOK'
    BY <1>1, <2>b DEF TypeOK, Store, streamVars, Cached
  <2>2. PublisherInv'
    BY <1>1 DEF TypeOK, PublisherInv, Store, streamVars
  <2> QED
    BY <2>1, <2>2
<1>2. CASE CopyPool(w)
  BY <1>2 DEF TypeOK, PublisherInv, CopyPool, cacheVars, clientVars, streamVars
<1>3. CASE BeginOffers(w)
  <2>1. rtodo' \in [Writers -> SUBSET RpcStreams]
    BY <1>3 DEF TypeOK, BeginOffers
  <2>2. TypeOK'
    BY <1>3, <2>1 DEF TypeOK, BeginOffers, cacheVars, clientVars, streamVars
  <2>3. PublisherInv'
    BY <1>3 DEF TypeOK, PublisherInv, BeginOffers, streamVars
  <2> QED
    BY <2>2, <2>3
<1>4. CASE EndOffers(w)
  <2>1. TypeOK'
    BY <1>4 DEF TypeOK, EndOffers, cacheVars, clientVars, streamVars, Cached
  <2>2. PublisherInv'
    BY <1>4 DEF TypeOK, PublisherInv, EndOffers, streamVars
  <2> QED
    BY <2>1, <2>2
<1>5. ASSUME NEW c \in WsClients, WriteClient(w, c) PROVE TypeOK' /\ PublisherInv'
  <2>1. wkind[w] \in Kinds /\ wval[w] \in Cached
    BY <1>5 DEF WriteClient, PublisherInv, Cached
  <2>a. shown \in [WsClients -> [Kinds -> Cached]]
    BY DEF TypeOK
  <2>b. [shown EXCEPT ![c][wkind[w]] = wval[w]] \in [WsClients -> [Kinds -> Cached]]
    BY <2>1, <2>a, EntryUpdate, Zenon
  <2>2. shown' \in [WsClients -> [Kinds -> Cached]] /\ pool' \subseteq WsClients
    BY <1>5, <2>a, <2>b DEF WriteClient, TypeOK
  <2>3. TypeOK'
    BY <1>5, <2>2 DEF TypeOK, WriteClient, cacheVars, streamVars
  <2>4. PublisherInv'
    BY <1>5 DEF TypeOK, PublisherInv, WriteClient, streamVars
  <2> QED
    BY <2>3, <2>4
<1>6. ASSUME NEW r \in RpcStreams, Offer(w, r) PROVE TypeOK' /\ PublisherInv'
  <2>1. wkind[w] \in Kinds /\ wval[w] \in Values
    BY <1>6 DEF Offer, PublisherInv
  <2>2. [kind |-> wkind[w], val |-> wval[w]] \in Messages
    BY <2>1 DEF Messages
  <2>3. /\ Append(ch[r], [kind |-> wkind[w], val |-> wval[w]]) \in Seq(Messages)
        /\ Len(ch[r]) \in Nat
        /\ Len(Append(ch[r], [kind |-> wkind[w], val |-> wval[w]])) = Len(ch[r]) + 1
    BY <2>2, ChannelAppend DEF TypeOK
  <2>4. /\ ch' \in [RpcStreams -> Seq(Messages)]
        /\ \A x \in RpcStreams : Len(ch'[x]) <= SubCap
    BY <1>6, <2>3, SyncAssumption DEF Offer, TypeOK
  <2>a. dropped \in [RpcStreams -> [Kinds -> BOOLEAN]]
    BY DEF TypeOK
  <2>b. (Len(ch[r]) >= SubCap) \in BOOLEAN
    OBVIOUS
  <2>5. dropped' \in [RpcStreams -> [Kinds -> BOOLEAN]]
    BY <1>6, <2>1, <2>a, <2>b, EntryUpdate, Zenon DEF Offer
  <2>6. panicked' \in BOOLEAN
    BY <1>6, Zenon DEF Offer
  <2>7. TypeOK'
    BY <1>6, <2>4, <2>5, <2>6 DEF Offer, TypeOK, cacheVars, clientVars
  <2>8. PublisherInv'
    BY <1>6 DEF Offer, TypeOK, PublisherInv
  <2> QED
    BY <2>7, <2>8
<1> QED
  BY <1>1, <1>2, <1>3, <1>4, <1>5, <1>6 DEF Publisher

(* Clients keep the types, and leave the publishers alone.                 *)
LEMMA ClientTypes ==
    ASSUME TypeOK, PublisherInv, NEW c \in WsClients, Client(c)
    PROVE  TypeOK' /\ PublisherInv'
<1>1. ASSUME UNCHANGED <<cacheVars, writerVars, streamVars>>,
             pool' \subseteq WsClients,
             cpc' \in [WsClients -> {"out", "sync", "live", "gone"}],
             cpos' \in [WsClients -> DOMAIN KindSeq],
             cread' \in [WsClients -> Values \cup {Unread}],
             alive' \in [WsClients -> BOOLEAN],
             shown' \in [WsClients -> [Kinds -> Cached]],
             raced' \in [WsClients -> [Kinds -> BOOLEAN]]
      PROVE  TypeOK' /\ PublisherInv'
  <2>1. TypeOK'
    BY <1>1 DEF TypeOK, cacheVars, writerVars, streamVars
  <2>2. PublisherInv'
    BY <1>1 DEF PublisherInv, writerVars, streamVars
  <2> QED
    BY <2>1, <2>2
<1>2. ASSUME NextKind(c)
      PROVE  /\ cpc' \in [WsClients -> {"out", "sync", "live", "gone"}]
             /\ cpos' \in [WsClients -> DOMAIN KindSeq]
  <2>1. CASE cpos[c] = Len(KindSeq)
    BY <1>2, <2>1 DEF NextKind, TypeOK
  <2>2. CASE cpos[c] # Len(KindSeq)
    <3>1. cpos[c] + 1 \in DOMAIN KindSeq
      BY <2>2, KindPositions DEF TypeOK
    <3> QED
      BY <1>2, <2>2, <3>1 DEF NextKind, TypeOK
  <2> QED
    BY <2>1, <2>2
<1>3. CASE Connect(c)
  BY <1>1, <1>3 DEF Connect, TypeOK
<1>4. CASE ReadCache(c)
  <2>1. KindSeq[cpos[c]] \in Kinds
    BY KindPositions DEF TypeOK
  <2>2. cache[KindSeq[cpos[c]]] # Nil => cache[KindSeq[cpos[c]]] \in Values
    BY <2>1 DEF TypeOK, Cached
  <2>3. cread' \in [WsClients -> Values \cup {Unread}]
    BY <1>4, <2>2 DEF ReadCache, TypeOK
  <2>4. /\ cpc' \in [WsClients -> {"out", "sync", "live", "gone"}]
        /\ cpos' \in [WsClients -> DOMAIN KindSeq]
    BY <1>2, <1>4 DEF ReadCache, TypeOK
  <2> QED
    BY <1>1, <1>4, <2>3, <2>4 DEF ReadCache, TypeOK
<1>5. CASE PushCache(c)
  <2>1. KindSeq[cpos[c]] \in Kinds /\ cread[c] \in Cached
    BY <1>5, KindPositions DEF PushCache, TypeOK, Cached
  <2>2. shown \in [WsClients -> [Kinds -> Cached]]
    BY DEF TypeOK
  <2>3. [shown EXCEPT ![c][KindSeq[cpos[c]]] = cread[c]] \in [WsClients -> [Kinds -> Cached]]
    BY <2>1, <2>2, EntryUpdate, Zenon
  <2>4. shown' \in [WsClients -> [Kinds -> Cached]]
    BY <1>5, <2>2, <2>3, Zenon DEF PushCache
  <2>5. cread' \in [WsClients -> Values \cup {Unread}]
    BY <1>5 DEF PushCache, TypeOK
  <2> QED
    BY <1>1, <1>2, <1>5, <2>4, <2>5 DEF PushCache, TypeOK
<1>6. CASE PeerLeaves(c)
  BY <1>1, <1>6 DEF PeerLeaves, TypeOK, NoStates, Cached
<1>7. CASE ReadLoopEnds(c)
  BY <1>1, <1>7 DEF ReadLoopEnds, TypeOK
<1> QED
  BY <1>3, <1>4, <1>5, <1>6, <1>7 DEF Client

(* Streams keep the types, and the publishers' lists.                      *)
LEMMA StreamTypes ==
    ASSUME TypeOK, PublisherInv, NEW r \in RpcStreams, Stream(r)
    PROVE  TypeOK' /\ PublisherInv'
<1>1. ASSUME UNCHANGED <<cacheVars, writerVars, clientVars, panicked, dropped>>,
             rpc' \in [RpcStreams -> {"out", "read", "send", "live", "gone"}],
             \A w \in Writers, x \in RpcStreams : x \in rtodo[w] => rpc'[x] \in {"read", "send", "live"},
             rpos' \in [RpcStreams -> DOMAIN KindSeq],
             initv' \in [RpcStreams -> [Kinds -> Cached]],
             ch' \in [RpcStreams -> Seq(Messages)],
             \A x \in RpcStreams : Len(ch'[x]) <= SubCap,
             streamed' \in [RpcStreams -> [Kinds -> Cached]]
      PROVE  TypeOK' /\ PublisherInv'
  <2>1. TypeOK'
    BY <1>1 DEF TypeOK, cacheVars, writerVars, clientVars
  <2>2. PublisherInv'
    BY <1>1 DEF TypeOK, PublisherInv, writerVars
  <2> QED
    BY <2>1, <2>2
<1>2. ASSUME NEW phase \in {"send", "live"}, NextPhase(r, phase)
      PROVE  /\ rpc' \in [RpcStreams -> {"out", "read", "send", "live", "gone"}]
             /\ rpos' \in [RpcStreams -> DOMAIN KindSeq]
             /\ \A w \in Writers, x \in RpcStreams : x \in rtodo[w] => rpc'[x] \in {"read", "send", "live"}
  <2>1. CASE rpos[r] = Len(KindSeq)
    <3>1. rpc' = [rpc EXCEPT ![r] = phase] /\ rpos' = [rpos EXCEPT ![r] = 1]
      BY <1>2, <2>1 DEF NextPhase
    <3>2. rpos' \in [RpcStreams -> DOMAIN KindSeq]
      BY <3>1, KindPositions DEF TypeOK
    <3>3. /\ rpc' \in [RpcStreams -> {"out", "read", "send", "live", "gone"}]
          /\ \A w \in Writers, x \in RpcStreams : x \in rtodo[w] => rpc'[x] \in {"read", "send", "live"}
      BY <3>1 DEF TypeOK, PublisherInv
    <3> QED
      BY <3>2, <3>3
  <2>2. CASE rpos[r] # Len(KindSeq)
    <3>1. rpos[r] + 1 \in DOMAIN KindSeq
      BY <2>2, KindPositions DEF TypeOK
    <3> QED
      BY <1>2, <2>2, <3>1 DEF NextPhase, TypeOK, PublisherInv
  <2> QED
    BY <2>1, <2>2
<1> DEFINE k == KindSeq[rpos[r]]
<1>3. k \in Kinds /\ cache[k] \in Cached /\ initv[r][k] \in Cached /\ Nil \in Cached
  BY KindPositions DEF TypeOK, Cached
<1>4. initv \in [RpcStreams -> [Kinds -> Cached]] /\ streamed \in [RpcStreams -> [Kinds -> Cached]]
  BY DEF TypeOK
<1> HIDE DEF k
<1>5. CASE Subscribe(r)
  BY <1>1, <1>5 DEF Subscribe, TypeOK, PublisherInv
<1>6. CASE ReadInitial(r)
  <2>1. initv' \in [RpcStreams -> [Kinds -> Cached]]
    BY <1>3, <1>4, <1>6, EntryUpdate, Zenon DEF ReadInitial, k
  <2> QED
    BY <1>1, <1>2, <1>6, <2>1 DEF ReadInitial, TypeOK
<1>7. CASE SendInitial(r)
  <2>1. initv' \in [RpcStreams -> [Kinds -> Cached]]
    BY <1>3, <1>4, <1>7, EntryUpdate, Zenon DEF SendInitial, k
  <2>2. [streamed EXCEPT ![r][k] = initv[r][k]] \in [RpcStreams -> [Kinds -> Cached]]
    BY <1>3, <1>4, EntryUpdate, Zenon
  <2>3. streamed' \in [RpcStreams -> [Kinds -> Cached]]
    BY <1>4, <1>7, <2>2, Zenon DEF SendInitial, k
  <2> QED
    BY <1>1, <1>2, <1>7, <2>1, <2>3 DEF SendInitial, TypeOK
<1>8. CASE Deliver(r)
  <2>1. ch[r] \in Seq(Messages) /\ ch[r] # <<>>
    BY <1>8 DEF Deliver, TypeOK
  <2>2. /\ Head(ch[r]) \in Messages /\ Tail(ch[r]) \in Seq(Messages)
        /\ Len(ch[r]) \in Nat /\ Len(Tail(ch[r])) = Len(ch[r]) - 1
    BY <2>1, ChannelTail
  <2>3. Head(ch[r]).kind \in Kinds /\ Head(ch[r]).val \in Cached
    BY <2>2 DEF Messages, Cached
  <2>4. streamed' \in [RpcStreams -> [Kinds -> Cached]]
    BY <1>4, <1>8, <2>3, EntryUpdate, Zenon DEF Deliver
  <2>5. ch' \in [RpcStreams -> Seq(Messages)] /\ \A x \in RpcStreams : Len(ch'[x]) <= SubCap
    BY <1>8, <2>2, SyncAssumption DEF Deliver, TypeOK
  <2> QED
    BY <1>1, <1>8, <2>4, <2>5 DEF Deliver, TypeOK, PublisherInv
<1>9. CASE Unsubscribe(r)
  <2>1. \A w \in Writers : rtodo[w] = {}
    BY <1>9 DEF Unsubscribe, SubscribersLocked, PublisherInv
  <2>2. <<>> \in Seq(Messages) /\ Len(<<>>) <= SubCap
    BY SyncAssumption
  <2>3. ch' \in [RpcStreams -> Seq(Messages)] /\ \A x \in RpcStreams : Len(ch'[x]) <= SubCap
    BY <1>9, <2>2 DEF Unsubscribe, TypeOK
  <2> QED
    BY <1>1, <1>9, <2>1, <2>3 DEF Unsubscribe, TypeOK
<1> QED
  BY <1>5, <1>6, <1>7, <1>8, <1>9 DEF Stream

(* Types and publishers, over all behaviours.                              *)
LEMMA TypeInvariance == Spec => [](TypeOK /\ PublisherInv)
<1>1. TypeOK /\ PublisherInv /\ [Next]_vars => TypeOK' /\ PublisherInv'
  <2> SUFFICES ASSUME TypeOK, PublisherInv, [Next]_vars PROVE TypeOK' /\ PublisherInv'
    OBVIOUS
  <2>1. CASE UNCHANGED vars
    BY <2>1 DEF TypeOK, PublisherInv, vars, cacheVars, writerVars, clientVars, streamVars
  <2> QED
    BY <2>1, PublisherTypes, ClientTypes, StreamTypes DEF Next
<1> QED
  BY <1>1, TypeInit, PTL DEF Spec

(* The write lock keeps Unsubscribe out of every loop over the             *)
(* subscribers, so that with the types, channels stay within SubCap and    *)
(* nobody sends on a closed one.                                           *)
THEOREM SubscribersSafeAlways == Spec => []SubscribersSafe
<1>1. Init => NoSendOnClosed
  BY DEF Init, NoSendOnClosed
<1>2. TypeOK /\ PublisherInv /\ NoSendOnClosed /\ [Next]_vars => NoSendOnClosed'
  <2> SUFFICES ASSUME TypeOK, PublisherInv, NoSendOnClosed, [Next]_vars PROVE NoSendOnClosed'
    OBVIOUS
  <2>1. ASSUME NEW w \in Writers, NEW r \in RpcStreams, Offer(w, r) PROVE NoSendOnClosed'
    BY <2>1 DEF Offer, PublisherInv, NoSendOnClosed
  <2>2. CASE UNCHANGED panicked
    BY <2>2 DEF NoSendOnClosed
  <2>3. ASSUME NEW w \in Writers, Publisher(w) PROVE NoSendOnClosed'
    BY <2>1, <2>2, <2>3 DEF Publisher, Store, CopyPool, WriteClient, BeginOffers, EndOffers, streamVars
  <2>4. ASSUME NEW c \in WsClients, Client(c) PROVE NoSendOnClosed'
    BY <2>2, <2>4 DEF Client, Connect, ReadCache, PushCache, PeerLeaves, ReadLoopEnds, streamVars
  <2>5. ASSUME NEW r \in RpcStreams, Stream(r) PROVE NoSendOnClosed'
    BY <2>2, <2>5 DEF Stream, Subscribe, ReadInitial, SendInitial, Deliver, Unsubscribe
  <2> QED
    BY <2>2, <2>3, <2>4, <2>5 DEF Next, vars, streamVars
<1> QED
  BY <1>1, <1>2, TypeInvariance, PTL DEF Spec, SubscribersSafe
--------------------------------------------------------------------------------
(* Only a store changes a cache, and one without overlap leaves no other   *)
(* publisher with its kind.                                                *)
LEMMA SoleKept ==
    ASSUME TypeOK, PublisherInv, SoleInv, [Next]_vars
    PROVE  SoleInv'
<1>1. ASSUME NEW w \in Writers, NEW k \in Kinds, NEW v \in Values, Store(w, k, v) PROVE SoleInv'
  <2>1. v # Nil /\ wkind[w] = Nil
    BY <1>1, SyncAssumption DEF Store, PublisherInv
  <2>2. /\ cache' = [cache EXCEPT ![k] = v]
        /\ wkind' = [wkind EXCEPT ![w] = k]
        /\ wval' = [wval EXCEPT ![w] = v]
        /\ crossed' = [crossed EXCEPT ![k] = ~Quiet(k)]
    BY <1>1 DEF Store
  <2> SUFFICES ASSUME NEW x \in Kinds, NEW y \in Writers, wkind'[y] = x
               PROVE  cache'[x] # Nil /\ (~crossed'[x] => wval'[y] = cache'[x])
    BY DEF SoleInv
  <2>3. CASE x = k
    <3>1. crossed'[k] = ~Quiet(k)
      BY <2>2 DEF TypeOK
    <3>2. cache'[k] = v /\ wval'[w] = v /\ (y # w => wkind[y] = k)
      BY <2>2, <2>3 DEF TypeOK
    <3>3. Quiet(k) => y = w
      BY <3>2 DEF Quiet
    <3> QED
      BY <2>1, <2>3, <3>1, <3>2, <3>3
  <2>4. CASE x # k
    BY <2>2, <2>4 DEF TypeOK, SoleInv
  <2> QED
    BY <2>3, <2>4
<1>2. ASSUME NEW w \in Writers, EndOffers(w) PROVE SoleInv'
  BY <1>2, SyncAssumption DEF EndOffers, TypeOK, SoleInv, cacheVars
<1>3. CASE UNCHANGED <<cache, crossed, wkind, wval>>
  BY <1>3 DEF SoleInv
<1>4. ASSUME NEW w \in Writers, Publisher(w) PROVE SoleInv'
  BY <1>1, <1>2, <1>3, <1>4 DEF Publisher, CopyPool, WriteClient, BeginOffers, Offer, cacheVars
<1>5. ASSUME NEW c \in WsClients, Client(c) PROVE SoleInv'
  BY <1>3, <1>5 DEF Client, Connect, ReadCache, PushCache, PeerLeaves, ReadLoopEnds, cacheVars, writerVars
<1>6. ASSUME NEW r \in RpcStreams, Stream(r) PROVE SoleInv'
  BY <1>3, <1>6 DEF Stream, Subscribe, ReadInitial, SendInitial, Deliver, Unsubscribe, cacheVars, writerVars
<1> QED
  BY <1>3, <1>4, <1>5, <1>6 DEF Next, vars, cacheVars, writerVars

--------------------------------------------------------------------------------
(* The clients' part of the invariant, step by step.                       *)
LEMMA StoreKeepsClients ==
    ASSUME TypeOK, PublisherInv, ClientInv,
           NEW w \in Writers, NEW k \in Kinds, NEW v \in Values, Store(w, k, v)
    PROVE  ClientInv'
<1>1. v # Nil /\ wkind[w] = Nil /\ wpc[w] = "idle"
  BY SyncAssumption DEF Store, PublisherInv
<1>2. /\ UNCHANGED <<wtodo, pool, cpc, cpos, cread, alive, shown>>
      /\ wpc' = [wpc EXCEPT ![w] = "pool"]
      /\ wkind' = [wkind EXCEPT ![w] = k]
      /\ cache' = [cache EXCEPT ![k] = v]
      /\ crossed' = [crossed EXCEPT ![k] = ~Quiet(k)]
      /\ raced' = [c \in WsClients |-> [raced[c] EXCEPT ![k] = Racing(c, k)]]
  BY DEF Store
<1>3. PoolInv'
  BY <1>2 DEF ClientInv, PoolInv
<1>4. /\ \A c \in WsClients : raced'[c][k] = Racing(c, k)
      /\ \A c \in WsClients, x \in Kinds : x # k => raced'[c][x] = raced[c][x]
      /\ cache'[k] = v
      /\ \A x \in Kinds : x # k => cache'[x] = cache[x] /\ crossed'[x] = crossed[x]
  BY <1>2 DEF TypeOK
<1>5. ReadIsCached'
  <2> SUFFICES ASSUME NEW c \in WsClients, cpc[c] = "sync", cread[c] # Unread
               PROVE  /\ cache'[KindSeq[cpos[c]]] # Nil
                      /\ alive[c] /\ ~raced'[c][KindSeq[cpos[c]]] => cread[c] = cache'[KindSeq[cpos[c]]]
    BY <1>2 DEF ReadIsCached
  <2>1. KindSeq[cpos[c]] \in Kinds
    BY KindPositions DEF TypeOK
  <2>2. CASE KindSeq[cpos[c]] = k
    BY <1>1, <1>4, <2>2 DEF Racing
  <2>3. CASE KindSeq[cpos[c]] # k
    BY <1>4, <2>1, <2>3 DEF ClientInv, ReadIsCached
  <2> QED
    BY <2>2, <2>3
<1>6. NothingShownUncached'
  BY <1>1, <1>2, <1>4 DEF ClientInv, NothingShownUncached
<1>7. ShownOrComing'
  <2> SUFFICES ASSUME NEW c \in WsClients, NEW x \in Kinds,
                      alive'[c], ~crossed'[x], ~raced'[c][x]
               PROVE  Unsynced(c, x)' \/ WillWrite(c, x)' \/ shown'[c][x] = cache'[x]
    BY DEF ShownOrComing
  <2>1. CASE x = k
    BY <1>2, <2>1 DEF WillWrite, TypeOK
  <2>2. CASE x # k
    <3>1. Unsynced(c, x) \/ WillWrite(c, x) \/ shown[c][x] = cache[x]
      BY <1>2, <1>4, <2>2 DEF ClientInv, ShownOrComing
    <3>2. Unsynced(c, x)' <=> Unsynced(c, x)
      BY <1>2 DEF Unsynced
    <3>3. WillWrite(c, x) => WillWrite(c, x)'
      BY <1>1, <1>2, SyncAssumption DEF WillWrite, TypeOK
    <3> QED
      BY <1>2, <1>4, <2>2, <3>1, <3>2, <3>3
  <2> QED
    BY <2>1, <2>2
<1> QED
  BY <1>3, <1>5, <1>6, <1>7 DEF ClientInv

(* A publisher's write shows the client the cached value.                  *)
LEMMA WriteKeepsClients ==
    ASSUME TypeOK, PublisherInv, SoleInv, ClientInv,
           NEW w \in Writers, NEW c \in WsClients, WriteClient(w, c)
    PROVE  ClientInv'
<1>1. /\ UNCHANGED <<cache, crossed, wpc, wkind, cpc, cpos, cread, alive, raced>>
      /\ wtodo' = [wtodo EXCEPT ![w] = @ \ {c}]
      /\ wpc[w] = "write"
  BY DEF WriteClient, cacheVars
<1>2. wkind[w] \in Kinds /\ wval[w] \in Cached
  BY <1>1 DEF PublisherInv, Cached
<1>3. shown \in [WsClients -> [Kinds -> Cached]]
  BY DEF TypeOK
<1>4. \A x \in WsClients, k \in Kinds :
        shown'[x][k] = IF alive[c] /\ x = c /\ k = wkind[w] THEN wval[w] ELSE shown[x][k]
  <2> DEFINE k0 == wkind[w]
             v0 == wval[w]
  <2>a. k0 \in Kinds /\ v0 \in Cached
    BY <1>2
  <2>1. CASE alive[c]
    <3>1. shown' = [shown EXCEPT ![c][k0] = v0]
      BY <2>1 DEF WriteClient
    <3> HIDE DEF k0, v0
    <3>a. \A x \in WsClients, k \in Kinds :
            [shown EXCEPT ![c][k0] = v0][x][k] = IF x = c /\ k = k0 THEN v0 ELSE shown[x][k]
      BY <1>3, <2>a, EntryUpdate
    <3>2. \A x \in WsClients, k \in Kinds :
            shown'[x][k] = IF x = c /\ k = k0 THEN v0 ELSE shown[x][k]
      BY <3>1, <3>a, Zenon
    <3> QED
      BY <2>1, <3>2 DEF k0, v0
  <2>2. CASE ~alive[c]
    BY <2>2 DEF WriteClient
  <2> QED
    BY <2>1, <2>2
<1>5. PoolInv'
  <2>1. \A x \in WsClients : alive[x] /\ x \in pool => x \in pool'
    BY DEF WriteClient
  <2> QED
    BY <1>1, <2>1 DEF ClientInv, PoolInv
<1>6. ReadIsCached'
  BY <1>1 DEF ClientInv, ReadIsCached
<1>7. NothingShownUncached'
  <2> SUFFICES ASSUME NEW x \in WsClients, NEW k \in Kinds, cache[k] = Nil PROVE shown'[x][k] = Nil
    BY <1>1 DEF NothingShownUncached
  <2>1. k # wkind[w] /\ shown[x][k] = Nil
    BY DEF SoleInv, ClientInv, NothingShownUncached
  <2> QED
    BY <1>4, <2>1
<1>8. ShownOrComing'
  <2> SUFFICES ASSUME NEW x \in WsClients, NEW k \in Kinds, alive[x], ~crossed[k], ~raced[x][k]
               PROVE  Unsynced(x, k)' \/ WillWrite(x, k)' \/ shown'[x][k] = cache[k]
    BY <1>1 DEF ShownOrComing
  <2>1. Unsynced(x, k) \/ WillWrite(x, k) \/ shown[x][k] = cache[k]
    BY DEF ClientInv, ShownOrComing
  <2>2. Unsynced(x, k)' <=> Unsynced(x, k)
    BY <1>1 DEF Unsynced
  <2>3. CASE x = c /\ k = wkind[w]
    BY <1>4, <2>3 DEF SoleInv
  <2>4. CASE ~(x = c /\ k = wkind[w])
    <3>1. WillWrite(x, k) => WillWrite(x, k)'
      BY <1>1, <2>4 DEF WillWrite, TypeOK
    <3>2. shown'[x][k] = shown[x][k]
      BY <1>4, <2>4
    <3> QED
      BY <2>1, <2>2, <3>1, <3>2
  <2> QED
    BY <2>3, <2>4
<1> QED
  BY <1>5, <1>6, <1>7, <1>8 DEF ClientInv
(* The publisher's other steps leave clients and caches alone, and a copy  *)
(* of the pool has every client that is alive.                             *)
LEMMA PublishKeepsClients ==
    ASSUME TypeOK, PublisherInv, ClientInv, NEW w \in Writers,
           \/ CopyPool(w) \/ BeginOffers(w) \/ EndOffers(w)
           \/ \E r \in RpcStreams : Offer(w, r)
    PROVE  ClientInv'
<1>1. UNCHANGED <<cache, crossed, pool, cpc, cpos, cread, alive, shown, raced>>
  BY DEF CopyPool, BeginOffers, EndOffers, Offer, cacheVars, clientVars
<1>2. PoolInv' /\ ReadIsCached' /\ NothingShownUncached'
  BY <1>1 DEF ClientInv, PoolInv, ReadIsCached, NothingShownUncached
<1>3. ASSUME NEW c \in WsClients, NEW k \in Kinds, alive[c], WillWrite(c, k) PROVE WillWrite(c, k)'
  <2>1. PICK y \in Writers : wkind[y] = k /\ (wpc[y] = "pool" \/ (wpc[y] = "write" /\ c \in wtodo[y]))
    BY <1>3 DEF WillWrite
  <2>2. c \in pool
    BY <1>3 DEF ClientInv, PoolInv
  <2>3. wkind'[y] = k /\ (wpc'[y] = "pool" \/ (wpc'[y] = "write" /\ c \in wtodo'[y]))
    <3>1. CASE CopyPool(w)
      BY <2>1, <2>2, <3>1 DEF CopyPool, TypeOK
    <3>2. CASE BeginOffers(w)
      BY <2>1, <3>2 DEF BeginOffers, TypeOK
    <3>3. CASE EndOffers(w)
      BY <2>1, <3>3 DEF EndOffers, TypeOK
    <3>4. ASSUME NEW r \in RpcStreams, Offer(w, r)
          PROVE  wkind'[y] = k /\ (wpc'[y] = "pool" \/ (wpc'[y] = "write" /\ c \in wtodo'[y]))
      BY <2>1, <3>4 DEF Offer
    <3> QED
      BY <3>1, <3>2, <3>3, <3>4
  <2> QED
    BY <2>3 DEF WillWrite
<1>4. ShownOrComing'
  BY <1>1, <1>3 DEF ClientInv, ShownOrComing, Unsynced
<1> QED
  BY <1>2, <1>4 DEF ClientInv

(* When handleClientConnect is done with a kind, the client shows what is  *)
(* cached or is raced.                                                     *)
LEMMA NextKindKeepsUnsynced ==
    ASSUME TypeOK, NEW c \in WsClients, NEW k \in Kinds, NextKind(c), Unsynced(c, k), k # KindSeq[cpos[c]]
    PROVE  Unsynced(c, k)'
<1>1. PICK i \in DOMAIN KindSeq : KindSeq[i] = k /\ cpos[c] <= i
  BY DEF Unsynced
<1>2. i # cpos[c] /\ cpos[c] \in DOMAIN KindSeq
  BY <1>1 DEF TypeOK
<1>3. cpos[c] # Len(KindSeq) /\ cpos[c] + 1 <= i
  BY <1>1, <1>2, KindPositions
<1>4. cpos'[c] = cpos[c] + 1 /\ cpc'[c] = cpc[c]
  BY <1>3 DEF NextKind, TypeOK
<1> QED
  BY <1>1, <1>3, <1>4 DEF Unsynced

(* NextKind touches no other client, and is over with the first position   *)
(* only by leaving it.                                                     *)
LEMMA NextKindOthers ==
    ASSUME TypeOK, NEW c \in WsClients, NextKind(c), cpc[c] = "sync"
    PROVE  /\ \A x \in WsClients \ {c} : cpc'[x] = cpc[x] /\ cpos'[x] = cpos[x]
           /\ cpc'[c] \in {"sync", "live"}
  BY DEF NextKind, TypeOK

(* handleClientConnect reads a cache.                                      *)
LEMMA ReadKeepsClients ==
    ASSUME TypeOK, PublisherInv, ClientInv, NEW c \in WsClients, ReadCache(c)
    PROVE  ClientInv'
<1>1. /\ UNCHANGED <<cache, crossed, wpc, wkind, wtodo, pool, alive, shown, raced>>
      /\ cpc[c] = "sync" /\ cread[c] = Unread
  BY DEF ReadCache, cacheVars, writerVars
<1>2. NothingShownUncached'
  BY <1>1 DEF ClientInv, NothingShownUncached
<1>3. \A x \in WsClients, k \in Kinds : WillWrite(x, k)' <=> WillWrite(x, k)
  BY <1>1 DEF WillWrite
<1> DEFINE k0 == KindSeq[cpos[c]]
<1>4. k0 \in Kinds
  BY KindPositions DEF TypeOK
<1>5. CASE cache[k0] # Nil
  <2>1. cread' = [cread EXCEPT ![c] = cache[k0]] /\ UNCHANGED <<cpc, cpos>>
    BY <1>5 DEF ReadCache
  <2>2. PoolInv'
    BY <1>1, <2>1 DEF ClientInv, PoolInv, TypeOK
  <2>3. ReadIsCached'
    BY <1>1, <1>5, <2>1 DEF ClientInv, ReadIsCached, TypeOK
  <2>4. ShownOrComing'
    BY <1>1, <1>3, <2>1 DEF ClientInv, ShownOrComing, Unsynced
  <2> QED
    BY <1>2, <2>2, <2>3, <2>4 DEF ClientInv
<1>6. CASE cache[k0] = Nil
  <2>1. NextKind(c) /\ cread' = cread
    BY <1>6 DEF ReadCache
  <2>2. PoolInv'
    BY <1>1, <2>1, NextKindOthers DEF ClientInv, PoolInv
  <2>3. ReadIsCached'
    BY <1>1, <2>1, NextKindOthers DEF ClientInv, ReadIsCached
  <2>4. ShownOrComing'
    <3> SUFFICES ASSUME NEW x \in WsClients, NEW k \in Kinds, alive[x], ~crossed[k], ~raced[x][k]
                 PROVE  Unsynced(x, k)' \/ WillWrite(x, k) \/ shown[x][k] = cache[k]
      BY <1>1, <1>3 DEF ShownOrComing
    <3>1. Unsynced(x, k) \/ WillWrite(x, k) \/ shown[x][k] = cache[k]
      BY DEF ClientInv, ShownOrComing
    <3>2. CASE x # c
      BY <1>1, <2>1, <3>1, <3>2, NextKindOthers DEF Unsynced
    <3>3. CASE x = c /\ k = k0
      BY <1>6, <3>3 DEF ClientInv, NothingShownUncached
    <3>4. CASE x = c /\ k # k0
      BY <2>1, <3>1, <3>4, NextKindKeepsUnsynced
    <3> QED
      BY <3>2, <3>3, <3>4
  <2> QED
    BY <1>2, <2>2, <2>3, <2>4 DEF ClientInv
<1> QED
  BY <1>5, <1>6

(* handleClientConnect writes what it read.                                *)
LEMMA PushKeepsClients ==
    ASSUME TypeOK, PublisherInv, ClientInv, NEW c \in WsClients, PushCache(c)
    PROVE  ClientInv'
<1> DEFINE k0 == KindSeq[cpos[c]]
<1>1. /\ UNCHANGED <<cache, crossed, wpc, wkind, wtodo, pool, alive, raced>>
      /\ cpc[c] = "sync" /\ cread[c] # Unread
      /\ cread' = [cread EXCEPT ![c] = Unread]
      /\ NextKind(c)
      /\ shown' = IF alive[c] THEN [shown EXCEPT ![c][k0] = cread[c]] ELSE shown
  BY DEF PushCache, cacheVars, writerVars
<1>2. \A x \in WsClients, k \in Kinds : WillWrite(x, k)' <=> WillWrite(x, k)
  BY <1>1 DEF WillWrite
<1>3. k0 \in Kinds /\ cread[c] \in Cached
  BY <1>1, KindPositions DEF TypeOK, Cached
<1>4. shown \in [WsClients -> [Kinds -> Cached]]
  BY DEF TypeOK
<1> HIDE DEF k0
<1>5. \A x \in WsClients, k \in Kinds :
        shown'[x][k] = IF alive[c] /\ x = c /\ k = k0 THEN cread[c] ELSE shown[x][k]
  <2>1. CASE alive[c]
    <3>1. shown' = [shown EXCEPT ![c][k0] = cread[c]]
      BY <1>1, <2>1
    <3>a. \A x \in WsClients, k \in Kinds :
            [shown EXCEPT ![c][k0] = cread[c]][x][k] = IF x = c /\ k = k0 THEN cread[c] ELSE shown[x][k]
      BY <1>3, <1>4, EntryUpdate
    <3>2. \A x \in WsClients, k \in Kinds :
            shown'[x][k] = IF x = c /\ k = k0 THEN cread[c] ELSE shown[x][k]
      BY <3>1, <3>a, Zenon
    <3> QED
      BY <2>1, <3>2
  <2>2. CASE ~alive[c]
    BY <1>1, <2>2
  <2> QED
    BY <2>1, <2>2
<1>6. cache[k0] # Nil /\ (alive[c] /\ ~raced[c][k0] => cread[c] = cache[k0])
  BY <1>1 DEF ClientInv, ReadIsCached, k0
<1>7. cread'[c] = Unread /\ \A x \in WsClients \ {c} : cread'[x] = cread[x]
  BY <1>1 DEF TypeOK
<1>8. PoolInv'
  BY <1>1, <1>7, NextKindOthers DEF ClientInv, PoolInv
<1>9. ReadIsCached'
  BY <1>1, <1>7, NextKindOthers DEF ClientInv, ReadIsCached
<1>10. NothingShownUncached'
  BY <1>1, <1>5, <1>6 DEF ClientInv, NothingShownUncached
<1>11. ShownOrComing'
  <2> SUFFICES ASSUME NEW x \in WsClients, NEW k \in Kinds, alive[x], ~crossed[k], ~raced[x][k]
               PROVE  Unsynced(x, k)' \/ WillWrite(x, k) \/ shown'[x][k] = cache[k]
    BY <1>1, <1>2 DEF ShownOrComing
  <2>1. Unsynced(x, k) \/ WillWrite(x, k) \/ shown[x][k] = cache[k]
    BY DEF ClientInv, ShownOrComing
  <2>2. CASE x # c
    BY <1>1, <1>5, <2>1, <2>2, NextKindOthers DEF Unsynced
  <2>3. CASE x = c /\ k = k0
    BY <1>5, <1>6, <2>3
  <2>4. CASE x = c /\ k # k0
    <3>1. Unsynced(c, k) => Unsynced(c, k)'
      BY <1>1, <2>4, NextKindKeepsUnsynced DEF k0
    <3> QED
      BY <1>5, <2>1, <2>4, <3>1
  <2> QED
    BY <2>2, <2>3, <2>4
<1> QED
  BY <1>8, <1>9, <1>10, <1>11 DEF ClientInv

(* A client connects at the first kind, with everything unsynced; one that *)
(* left is owed nothing.                                                   *)
LEMMA ConnectionKeepsClients ==
    ASSUME TypeOK, PublisherInv, ClientInv, NEW c \in WsClients,
           Connect(c) \/ PeerLeaves(c) \/ ReadLoopEnds(c)
    PROVE  ClientInv'
<1>1. UNCHANGED <<cache, crossed, wpc, wkind, wtodo, cpos, cread>>
  BY DEF Connect, PeerLeaves, ReadLoopEnds, cacheVars, writerVars
<1>2. \A x \in WsClients, k \in Kinds : WillWrite(x, k)' <=> WillWrite(x, k)
  BY <1>1 DEF WillWrite
<1>3. CASE Connect(c)
  <2>1. /\ UNCHANGED <<shown, raced>>
        /\ cpc[c] = "out" /\ cpos[c] = 1 /\ cread[c] = Unread
        /\ cpc' = [cpc EXCEPT ![c] = "sync"]
        /\ alive' = [alive EXCEPT ![c] = TRUE]
        /\ pool' = pool \cup {c}
    BY <1>3 DEF Connect, ClientInv, PoolInv
  <2>2. PoolInv'
    BY <1>1, <2>1 DEF ClientInv, PoolInv, TypeOK
  <2>3. ReadIsCached' /\ NothingShownUncached'
    BY <1>1, <2>1 DEF ClientInv, ReadIsCached, NothingShownUncached, TypeOK
  <2>4. \A k \in Kinds : Unsynced(c, k)'
    <3>1. \A k \in Kinds : \E i \in DOMAIN KindSeq : KindSeq[i] = k
      BY DEF Kinds
    <3>2. \A i \in DOMAIN KindSeq : cpos'[c] <= i
      BY <1>1, <2>1, KindPositions
    <3> QED
      BY <2>1, <3>1, <3>2 DEF Unsynced, TypeOK
  <2>5. ShownOrComing'
    BY <1>1, <1>2, <2>1, <2>4 DEF ClientInv, ShownOrComing, Unsynced, TypeOK
  <2> QED
    BY <2>2, <2>3, <2>5 DEF ClientInv
<1>4. CASE PeerLeaves(c)
  <2>1. /\ UNCHANGED <<pool, cpc>>
        /\ alive' = [alive EXCEPT ![c] = FALSE]
        /\ shown' = [shown EXCEPT ![c] = NoStates]
        /\ raced' = [raced EXCEPT ![c] = [k \in Kinds |-> FALSE]]
    BY <1>4 DEF PeerLeaves
  <2>2. /\ ~alive'[c] /\ \A k \in Kinds : shown'[c][k] = Nil
        /\ \A x \in WsClients \ {c} : alive'[x] = alive[x] /\ shown'[x] = shown[x] /\ raced'[x] = raced[x]
    BY <2>1 DEF TypeOK, NoStates
  <2>3. PoolInv'
    BY <1>1, <2>1, <2>2 DEF ClientInv, PoolInv
  <2>4. ReadIsCached' /\ NothingShownUncached'
    BY <1>1, <2>1, <2>2 DEF ClientInv, ReadIsCached, NothingShownUncached
  <2>5. ShownOrComing'
    BY <1>1, <1>2, <2>1, <2>2 DEF ClientInv, ShownOrComing, Unsynced
  <2> QED
    BY <2>3, <2>4, <2>5 DEF ClientInv
<1>5. CASE ReadLoopEnds(c)
  <2>1. /\ UNCHANGED <<alive, shown, raced>>
        /\ cpc[c] = "live" /\ ~alive[c]
        /\ cpc' = [cpc EXCEPT ![c] = "gone"]
        /\ pool' = pool \ {c}
    BY <1>5 DEF ReadLoopEnds
  <2>2. cpc'[c] = "gone" /\ \A x \in WsClients \ {c} : cpc'[x] = cpc[x]
    BY <2>1 DEF TypeOK
  <2>3. PoolInv'
    BY <1>1, <2>1, <2>2 DEF ClientInv, PoolInv
  <2>4. ReadIsCached' /\ NothingShownUncached'
    BY <1>1, <2>1, <2>2 DEF ClientInv, ReadIsCached, NothingShownUncached
  <2>5. ShownOrComing'
    BY <1>1, <1>2, <2>1, <2>2 DEF ClientInv, ShownOrComing, Unsynced
  <2> QED
    BY <2>3, <2>4, <2>5 DEF ClientInv
<1> QED
  BY <1>3, <1>4, <1>5

(* The clients' invariant, over all behaviours.                            *)
LEMMA ClientInvariance == Spec => [](TypeOK /\ PublisherInv /\ SoleInv /\ ClientInv)
<1>1. Init => SoleInv /\ ClientInv
  <2> SUFFICES ASSUME Init PROVE SoleInv /\ ClientInv
    OBVIOUS
  <2>1. SoleInv
    BY SyncAssumption DEF Init, SoleInv
  <2>2. PoolInv /\ ReadIsCached /\ NothingShownUncached /\ ShownOrComing
    BY DEF Init, PoolInv, ReadIsCached, NothingShownUncached, ShownOrComing, NoStates
  <2> QED
    BY <2>1, <2>2 DEF ClientInv
<1>2. TypeOK /\ PublisherInv /\ SoleInv /\ ClientInv /\ [Next]_vars => SoleInv' /\ ClientInv'
  <2> SUFFICES ASSUME TypeOK, PublisherInv, SoleInv, ClientInv, [Next]_vars PROVE ClientInv'
    BY SoleKept
  <2>1. CASE UNCHANGED <<cacheVars, writerVars, clientVars>>
    BY <2>1 DEF ClientInv, PoolInv, ReadIsCached, NothingShownUncached, ShownOrComing, Unsynced, WillWrite,
                cacheVars, writerVars, clientVars
  <2>2. ASSUME NEW w \in Writers, Publisher(w) PROVE ClientInv'
    BY <2>2, StoreKeepsClients, WriteKeepsClients, PublishKeepsClients DEF Publisher
  <2>3. ASSUME NEW c \in WsClients, Client(c) PROVE ClientInv'
    BY <2>3, ReadKeepsClients, PushKeepsClients, ConnectionKeepsClients DEF Client
  <2>4. ASSUME NEW r \in RpcStreams, Stream(r) PROVE ClientInv'
    BY <2>1, <2>4 DEF Stream, Subscribe, ReadInitial, SendInitial, Deliver, Unsubscribe
  <2> QED
    BY <2>1, <2>2, <2>3, <2>4 DEF Next, vars
<1> QED
  BY <1>1, <1>2, TypeInvariance, PTL DEF Spec

(* A client that is connected and quiet shows the cached state of every    *)
(* kind, except after one of the two named races: for any number of kinds, *)
(* handlers and clients.                                                   *)
THEOREM ClientsCurrentAlways == Spec => []ClientsCurrent
<1>1. ClientInv => ClientsCurrent
  BY DEF ClientInv, ShownOrComing, ClientsCurrent, Unsynced, WillWrite, Quiet
<1> QED
  BY <1>1, ClientInvariance, PTL
--------------------------------------------------------------------------------
(* An appended value is the last of its kind and changes no other kind's.  *)
LEMMA LastAppend ==
    ASSUME NEW q \in Seq(Messages), NEW m \in Messages, NEW k
    PROVE  /\ m.kind = k => /\ LastAt(Append(q, m), k, Len(q) + 1)
                            /\ \A i \in DOMAIN Append(q, m) : LastAt(Append(q, m), k, i) => i = Len(q) + 1
           /\ m.kind # k => /\ Has(Append(q, m), k) <=> Has(q, k)
                            /\ \A i \in DOMAIN q : LastAt(Append(q, m), k, i) <=> LastAt(q, k, i)
                            /\ \A i \in DOMAIN Append(q, m) : LastAt(Append(q, m), k, i) => i \in DOMAIN q
<1> DEFINE p == Append(q, m)
           n == Len(q)
<1>1. /\ n \in Nat
      /\ DOMAIN q = 1..n /\ DOMAIN p = 1..(n + 1)
      /\ p[n + 1] = m
      /\ \A i \in DOMAIN q : p[i] = q[i]
  BY ChannelAppend
<1> HIDE DEF p, n
<1>2. CASE m.kind = k
  <2>1. LastAt(p, k, n + 1)
    BY <1>1, <1>2 DEF LastAt
  <2>2. \A i \in DOMAIN p : LastAt(p, k, i) => i = n + 1
    BY <1>1, <1>2 DEF LastAt
  <2> QED
    BY <1>2, <2>1, <2>2 DEF p, n
<1>3. CASE m.kind # k
  <2>1. \A i \in DOMAIN p : p[i].kind = k => i \in DOMAIN q /\ q[i].kind = k
    BY <1>1, <1>3
  <2>2. \A i \in DOMAIN q : i \in DOMAIN p /\ p[i].kind = q[i].kind
    BY <1>1
  <2>3. Has(p, k) <=> Has(q, k)
    BY <2>1, <2>2 DEF Has
  <2>4. \A i \in DOMAIN q : LastAt(p, k, i) <=> LastAt(q, k, i)
    BY <2>1, <2>2 DEF LastAt
  <2>5. \A i \in DOMAIN p : LastAt(p, k, i) => i \in DOMAIN q
    BY <2>1 DEF LastAt
  <2> QED
    BY <1>3, <2>3, <2>4, <2>5 DEF p
<1> QED
  BY <1>2, <1>3

(* Taking the head shifts the last value of a kind, or takes it.           *)
LEMMA LastTail ==
    ASSUME NEW q \in Seq(Messages), q # <<>>, NEW k
    PROVE  /\ \A i \in DOMAIN Tail(q) : LastAt(Tail(q), k, i) => LastAt(q, k, i + 1)
           /\ \A i \in DOMAIN q : LastAt(q, k, i) /\ Has(Tail(q), k) =>
                  i - 1 \in DOMAIN Tail(q) /\ LastAt(Tail(q), k, i - 1)
           /\ Has(Tail(q), k) => Has(q, k)
           /\ ~Has(Tail(q), k) /\ Has(q, k) => Head(q).kind = k /\ LastAt(q, k, 1)
<1> DEFINE p == Tail(q)
           n == Len(q)
<1>1. /\ n \in Nat \ {0}
      /\ DOMAIN q = 1..n /\ DOMAIN p = 1..(n - 1)
      /\ Head(q) = q[1]
      /\ \A i \in DOMAIN p : p[i] = q[i + 1]
  BY ChannelTail
<1> HIDE DEF p, n
<1>2. \A i \in DOMAIN p : i + 1 \in DOMAIN q /\ p[i].kind = q[i + 1].kind
  BY <1>1
<1>3. \A j \in DOMAIN q : j # 1 => j - 1 \in DOMAIN p /\ p[j - 1].kind = q[j].kind
  BY <1>1
<1>4. Has(p, k) => Has(q, k)
  BY <1>2 DEF Has
<1>5. ASSUME NEW i \in DOMAIN p, LastAt(p, k, i) PROVE LastAt(q, k, i + 1)
  <2>1. i + 1 \in DOMAIN q /\ q[i + 1].kind = k
    BY <1>2, <1>5 DEF LastAt
  <2>2. ASSUME NEW j \in DOMAIN q, q[j].kind = k PROVE j <= i + 1
    <3>1. CASE j = 1
      BY <1>1, <3>1
    <3>2. CASE j # 1
      <4>1. j - 1 <= i
        BY <1>3, <1>5, <2>2, <3>2 DEF LastAt
      <4> QED
        BY <1>1, <4>1
    <3> QED
      BY <3>1, <3>2
  <2> QED
    BY <2>1, <2>2 DEF LastAt
<1>6. ASSUME NEW i \in DOMAIN q, LastAt(q, k, i), Has(p, k)
      PROVE  i - 1 \in DOMAIN p /\ LastAt(p, k, i - 1)
  <2>1. PICK j \in DOMAIN p : p[j].kind = k
    BY <1>6 DEF Has
  <2>2. j + 1 <= i
    BY <1>2, <1>6, <2>1 DEF LastAt
  <2>3. i # 1
    BY <1>1, <2>2
  <2>4. i - 1 \in DOMAIN p /\ p[i - 1].kind = k
    BY <1>3, <1>6, <2>3 DEF LastAt
  <2>5. ASSUME NEW x \in DOMAIN p, p[x].kind = k PROVE x <= i - 1
    <3>1. x + 1 <= i
      BY <1>2, <1>6, <2>5 DEF LastAt
    <3> QED
      BY <1>1, <3>1
  <2> QED
    BY <2>4, <2>5 DEF LastAt
<1>7. ASSUME ~Has(p, k), Has(q, k) PROVE Head(q).kind = k /\ LastAt(q, k, 1)
  <2>1. \A j \in DOMAIN q : q[j].kind = k => j = 1
    BY <1>3, <1>7 DEF Has
  <2>2. 1 \in DOMAIN q /\ q[1].kind = k
    BY <1>7, <2>1 DEF Has
  <2> QED
    BY <1>1, <2>1, <2>2 DEF LastAt
<1> QED
  BY <1>4, <1>5, <1>6, <1>7 DEF p

--------------------------------------------------------------------------------
(* The streams' part of the invariant, step by step.                       *)

(* Steps that leave the streams and the caches alone keep it as long as    *)
(* every offer to come stays to come.                                      *)
LEMMA StreamFrame ==
    ASSUME TypeOK, StreamInv, UNCHANGED <<cacheVars, streamVars>>,
           \A r \in RpcStreams, k \in Kinds : Subscribed(r) /\ WillOffer(r, k) => WillOffer(r, k)'
    PROVE  StreamInv'
<1>1. UNCHANGED <<cache, crossed, rpc, rpos, initv, ch, streamed, dropped>>
  BY DEF cacheVars, streamVars
<1>2. LastExists' /\ InitialStates'
  BY <1>1 DEF StreamInv, LastExists, InitialStates
<1>3. BaseOrComing'
  BY <1>1 DEF StreamInv, BaseOrComing, Subscribed, Unfetched, Base
<1>4. \A r \in RpcStreams, k \in Kinds : \A i \in DOMAIN ch[r] : LastAt(ch[r], k, i) => Subscribed(r)
  <2> SUFFICES ASSUME NEW r \in RpcStreams, NEW i \in DOMAIN ch[r], ~Subscribed(r) PROVE FALSE
    OBVIOUS
  <2>1. ch[r] = <<>>
    BY DEF Subscribed, TypeOK, StreamInv, InitialStates
  <2> QED
    BY <2>1
<1>5. QueuedOrComing'
  BY <1>1, <1>4 DEF StreamInv, QueuedOrComing
<1> QED
  BY <1>2, <1>3, <1>5 DEF StreamInv

(* A store: its publisher is still to offer the value to every stream.     *)
LEMMA StoreKeepsStreams ==
    ASSUME TypeOK, PublisherInv, StreamInv,
           NEW w \in Writers, NEW k \in Kinds, NEW v \in Values, Store(w, k, v)
    PROVE  StreamInv'
<1>1. v # Nil /\ wkind[w] = Nil /\ wpc[w] = "idle"
  BY SyncAssumption DEF Store, PublisherInv
<1>2. /\ UNCHANGED <<rtodo, rpc, rpos, initv, ch, streamed, dropped>>
      /\ wpc' = [wpc EXCEPT ![w] = "pool"]
      /\ wkind' = [wkind EXCEPT ![w] = k]
      /\ cache' = [cache EXCEPT ![k] = v]
      /\ crossed' = [crossed EXCEPT ![k] = ~Quiet(k)]
  BY DEF Store, streamVars
<1>3. /\ cache'[k] = v
      /\ \A x \in Kinds : x # k => cache'[x] = cache[x] /\ crossed'[x] = crossed[x]
  BY <1>2 DEF TypeOK
<1>4. \A r \in RpcStreams : WillOffer(r, k)'
  BY <1>2 DEF WillOffer, TypeOK
<1>5. \A r \in RpcStreams, x \in Kinds : WillOffer(r, x) => WillOffer(r, x)'
  BY <1>1, <1>2, <1>4, SyncAssumption DEF WillOffer, TypeOK
<1>6. LastExists' /\ InitialStates'
  BY <1>1, <1>2, <1>3 DEF StreamInv, LastExists, InitialStates
<1>7. QueuedOrComing'
  BY <1>2, <1>3, <1>4, <1>5 DEF StreamInv, QueuedOrComing
<1>8. BaseOrComing'
  BY <1>2, <1>3, <1>4, <1>5 DEF StreamInv, BaseOrComing, Subscribed, Unfetched, Base
<1> QED
  BY <1>6, <1>7, <1>8 DEF StreamInv

(* A publisher that turns to the subscribers has all of them on its list.  *)
LEMMA PublishKeepsStreams ==
    ASSUME TypeOK, PublisherInv, StreamInv, NEW w \in Writers,
           \/ CopyPool(w) \/ BeginOffers(w) \/ EndOffers(w)
           \/ \E c \in WsClients : WriteClient(w, c)
    PROVE  StreamInv'
<1>1. UNCHANGED <<cacheVars, streamVars>>
  BY DEF CopyPool, BeginOffers, EndOffers, WriteClient
<1>2. ASSUME NEW r \in RpcStreams, NEW k \in Kinds, Subscribed(r), WillOffer(r, k)
      PROVE  WillOffer(r, k)'
  <2>1. PICK y \in Writers :
          wkind[y] = k /\ (wpc[y] \in {"pool", "write"} \/ (wpc[y] = "offer" /\ r \in rtodo[y]))
    BY <1>2 DEF WillOffer
  <2>2. wkind'[y] = k /\ (wpc'[y] \in {"pool", "write"} \/ (wpc'[y] = "offer" /\ r \in rtodo'[y]))
    <3>1. CASE CopyPool(w)
      BY <2>1, <3>1 DEF CopyPool, TypeOK
    <3>2. CASE BeginOffers(w)
      BY <1>2, <2>1, <3>2 DEF BeginOffers, TypeOK, Subscribed
    <3>3. CASE EndOffers(w)
      BY <2>1, <3>3 DEF EndOffers, TypeOK
    <3>4. ASSUME NEW c \in WsClients, WriteClient(w, c)
          PROVE  wkind'[y] = k /\ (wpc'[y] \in {"pool", "write"} \/ (wpc'[y] = "offer" /\ r \in rtodo'[y]))
      BY <2>1, <3>4 DEF WriteClient
    <3> QED
      BY <3>1, <3>2, <3>3, <3>4
  <2> QED
    BY <2>2 DEF WillOffer
<1> QED
  BY <1>1, <1>2, StreamFrame
(* An offer puts the cached value last in the channel, or is recorded as   *)
(* dropped.                                                                *)
LEMMA OfferKeepsStreams ==
    ASSUME TypeOK, PublisherInv, SoleInv, StreamInv,
           NEW w \in Writers, NEW r \in RpcStreams, Offer(w, r)
    PROVE  StreamInv'
<1> DEFINE k0 == wkind[w]
           m == [kind |-> wkind[w], val |-> wval[w]]
<1>1. /\ UNCHANGED <<cache, crossed, wpc, wkind, rpc, rpos, initv, streamed>>
      /\ wpc[w] = "offer" /\ r \in rtodo[w]
      /\ rtodo' = [rtodo EXCEPT ![w] = @ \ {r}]
      /\ ch' = IF Len(ch[r]) < SubCap THEN [ch EXCEPT ![r] = Append(@, m)] ELSE ch
      /\ dropped' = [dropped EXCEPT ![r][k0] = Len(ch[r]) >= SubCap]
  BY DEF Offer, cacheVars
<1>2. k0 \in Kinds /\ wval[w] \in Values /\ rpc[r] \in {"read", "send", "live"}
  BY <1>1 DEF PublisherInv
<1>3. m \in Messages /\ m.kind = k0 /\ m.val = wval[w]
  BY <1>2 DEF Messages
<1>4. wkind[w] = k0
  OBVIOUS
<1> HIDE DEF k0, m
<1>5. ch[r] \in Seq(Messages) /\ Len(ch[r]) \in Nat /\ SubCap \in Nat
  BY SyncAssumption DEF TypeOK
<1>6. /\ dropped'[r][k0] = (Len(ch[r]) >= SubCap)
      /\ \A x \in RpcStreams, k \in Kinds : ~(x = r /\ k = k0) => dropped'[x][k] = dropped[x][k]
  <2>1. dropped \in [RpcStreams -> [Kinds -> BOOLEAN]] /\ (Len(ch[r]) >= SubCap) \in BOOLEAN
    BY <1>5 DEF TypeOK
  <2> DEFINE full == Len(ch[r]) >= SubCap
  <2> HIDE DEF full
  <2>2. full \in BOOLEAN /\ dropped' = [dropped EXCEPT ![r][k0] = full]
    BY <1>1, <2>1 DEF full
  <2>3. \A x \in RpcStreams, k \in Kinds :
          [dropped EXCEPT ![r][k0] = full][x][k] = IF x = r /\ k = k0 THEN full ELSE dropped[x][k]
    BY <1>2, <2>1, <2>2, EntryUpdate
  <2>4. \A x \in RpcStreams, k \in Kinds :
          dropped'[x][k] = IF x = r /\ k = k0 THEN full ELSE dropped[x][k]
    BY <2>2, <2>3, Zenon
  <2> QED
    BY <1>2, <2>4, Zenon DEF full
<1>7. \A x \in RpcStreams \ {r} : ch'[x] = ch[x]
  BY <1>1 DEF TypeOK
<1>8. \A x \in RpcStreams, k \in Kinds : ~(x = r /\ k = k0) /\ WillOffer(x, k) => WillOffer(x, k)'
  BY <1>1, <1>4 DEF WillOffer, TypeOK
<1>9. CASE Len(ch[r]) < SubCap
  <2>1. ch'[r] = Append(ch[r], m)
    BY <1>1, <1>9 DEF TypeOK
  <2>2. \A i \in DOMAIN ch[r] : ch'[r][i] = ch[r][i]
    BY <1>3, <1>5, <2>1, ChannelAppend
  <2>3. ch'[r][Len(ch[r]) + 1] = m /\ Len(ch[r]) + 1 \in DOMAIN ch'[r]
        /\ \A i \in DOMAIN ch[r] : i \in DOMAIN ch'[r]
    BY <1>3, <1>5, <2>1, ChannelAppend
  <2>a. /\ LastAt(Append(ch[r], m), k0, Len(ch[r]) + 1)
        /\ \A i \in DOMAIN Append(ch[r], m) : LastAt(Append(ch[r], m), k0, i) => i = Len(ch[r]) + 1
    BY <1>3, <1>5, LastAppend, Zenon
  <2>4. /\ LastAt(ch'[r], k0, Len(ch[r]) + 1)
        /\ \A i \in DOMAIN ch'[r] : LastAt(ch'[r], k0, i) => i = Len(ch[r]) + 1
    BY <2>1, <2>a, Zenon
  <2>5. \A k \in Kinds : k # k0 =>
          /\ Has(ch'[r], k) <=> Has(ch[r], k)
          /\ \A i \in DOMAIN ch[r] : LastAt(ch'[r], k, i) <=> LastAt(ch[r], k, i)
          /\ \A i \in DOMAIN ch'[r] : LastAt(ch'[r], k, i) => i \in DOMAIN ch[r]
    BY <1>3, <1>5, <2>1, LastAppend
  <2>6. LastExists'
    BY <1>7, <2>3, <2>4, <2>5 DEF StreamInv, LastExists
  <2>7. QueuedOrComing'
    <3> SUFFICES ASSUME NEW x \in RpcStreams, NEW k \in Kinds, ~crossed[k], ~dropped'[x][k],
                        NEW i \in DOMAIN ch'[x], LastAt(ch'[x], k, i)
                 PROVE  ch'[x][i].val = cache[k] \/ WillOffer(x, k)'
      BY <1>1 DEF QueuedOrComing
    <3>1. CASE x = r /\ k = k0
      BY <1>3, <1>4, <2>3, <2>4, <3>1 DEF SoleInv
    <3>2. CASE x = r /\ k # k0
      BY <1>6, <1>8, <2>2, <2>5, <3>2 DEF StreamInv, QueuedOrComing
    <3>3. CASE x # r
      BY <1>6, <1>7, <1>8, <3>3 DEF StreamInv, QueuedOrComing
    <3> QED
      BY <3>1, <3>2, <3>3
  <2>8. BaseOrComing'
    <3> SUFFICES ASSUME NEW x \in RpcStreams, NEW k \in Kinds, Subscribed(x), ~crossed[k], ~dropped'[x][k],
                        ~Has(ch'[x], k)
                 PROVE  Unfetched(x, k) \/ WillOffer(x, k)' \/ Base(x, k) = cache[k]
      BY <1>1 DEF BaseOrComing, Subscribed, Unfetched, Base
    <3>1. ~(x = r /\ k = k0)
      BY <2>4 DEF Has, LastAt
    <3>2. ~dropped[x][k] /\ ~Has(ch[x], k)
      BY <1>6, <1>7, <2>5, <3>1
    <3> QED
      BY <1>8, <3>1, <3>2 DEF StreamInv, BaseOrComing
  <2>9. InitialStates'
    <3>1. cache[k0] # Nil
      BY <1>2, <1>4 DEF SoleInv
    <3>2. \A x \in RpcStreams, k \in Kinds : cache[k] = Nil => ~Has(ch'[x], k)
      BY <1>7, <2>5, <3>1 DEF StreamInv, InitialStates
    <3> QED
      BY <1>1, <1>2, <1>7, <3>2 DEF StreamInv, InitialStates
  <2> QED
    BY <2>6, <2>7, <2>8, <2>9 DEF StreamInv
<1>10. CASE ~(Len(ch[r]) < SubCap)
  <2>a. Len(ch[r]) >= SubCap
    BY <1>5, <1>10
  <2>b. dropped'[r][k0]
    BY <1>6, <2>a, Zenon
  <2>1. ch' = ch /\ dropped'[r][k0]
    BY <1>1, <1>10, <2>b
  <2>2. LastExists' /\ InitialStates'
    BY <1>1, <2>1 DEF StreamInv, LastExists, InitialStates
  <2>3. QueuedOrComing'
    BY <1>1, <1>6, <1>8, <2>1 DEF StreamInv, QueuedOrComing
  <2>4. BaseOrComing'
    BY <1>1, <1>6, <1>8, <2>1 DEF StreamInv, BaseOrComing, Subscribed, Unfetched, Base
  <2> QED
    BY <2>2, <2>3, <2>4 DEF StreamInv
<1> QED
  BY <1>9, <1>10

(* A stream subscribes with every kind unfetched and leaves with its       *)
(* channel.                                                                *)
LEMMA SubscriptionKeepsStreams ==
    ASSUME TypeOK, PublisherInv, StreamInv, NEW r \in RpcStreams, Subscribe(r) \/ Unsubscribe(r)
    PROVE  StreamInv'
<1>1. /\ UNCHANGED <<cache, crossed, wpc, wkind, rtodo, rpos, initv, streamed, dropped>>
      /\ \A x \in RpcStreams, k \in Kinds : WillOffer(x, k)' <=> WillOffer(x, k)
  BY DEF Subscribe, Unsubscribe, cacheVars, writerVars, WillOffer
<1>2. /\ \A x \in RpcStreams \ {r} : rpc'[x] = rpc[x] /\ ch'[x] = ch[x]
      /\ ch'[r] = <<>>
      /\ \/ rpc'[r] = "gone"
         \/ rpc[r] = "out" /\ rpc'[r] = "read" /\ rpos[r] = 1
  BY DEF Subscribe, Unsubscribe, TypeOK, StreamInv, InitialStates
<1>3. DOMAIN ch'[r] = {}
  BY <1>2
<1>4. LastExists'
  BY <1>2, <1>3 DEF StreamInv, LastExists, Has
<1>5. QueuedOrComing'
  BY <1>1, <1>2, <1>3 DEF StreamInv, QueuedOrComing
<1>6. InitialStates'
  BY <1>1, <1>2, <1>3 DEF StreamInv, InitialStates, Has
<1>7. rpc'[r] = "read" => \A k \in Kinds : Unfetched(r, k)'
  <2>1. \A k \in Kinds : \E i \in DOMAIN KindSeq : KindSeq[i] = k
    BY DEF Kinds
  <2>2. rpc'[r] = "read" => \A i \in DOMAIN KindSeq : rpos'[r] <= i
    BY <1>1, <1>2, KindPositions
  <2> QED
    BY <2>1, <2>2 DEF Unfetched
<1>8. BaseOrComing'
  <2> SUFFICES ASSUME NEW x \in RpcStreams, NEW k \in Kinds, Subscribed(x)', ~crossed[k], ~dropped[x][k],
                      ~Has(ch'[x], k)
               PROVE  Unfetched(x, k)' \/ WillOffer(x, k) \/ Base(x, k) = cache[k]
    BY <1>1 DEF BaseOrComing, Base
  <2>1. CASE x = r
    BY <1>2, <1>7, <2>1 DEF Subscribed
  <2>2. CASE x # r
    BY <1>1, <1>2, <2>2 DEF StreamInv, BaseOrComing, Subscribed, Unfetched
  <2> QED
    BY <2>1, <2>2
<1> QED
  BY <1>4, <1>5, <1>6, <1>8 DEF StreamInv

(* Where getInitialSystemStates and the sending of its result are next.    *)
LEMMA NextPhaseMoves ==
    ASSUME TypeOK, NEW r \in RpcStreams, NEW phase \in {"send", "live"}, NextPhase(r, phase)
    PROVE  /\ \A x \in RpcStreams \ {r} : rpc'[x] = rpc[x] /\ rpos'[x] = rpos[x]
           /\ \/ rpos[r] = Len(KindSeq) /\ rpc'[r] = phase /\ rpos'[r] = 1
              \/ rpos[r] # Len(KindSeq) /\ rpc'[r] = rpc[r] /\ rpos'[r] = rpos[r] + 1
<1>1. CASE rpos[r] = Len(KindSeq)
  BY <1>1 DEF NextPhase, TypeOK
<1>2. CASE rpos[r] # Len(KindSeq)
  BY <1>2 DEF NextPhase, TypeOK
<1> QED
  BY <1>1, <1>2

(* The value read first is the cached one, and a channel never holds an    *)
(* older value without a newer one to come.                                *)
LEMMA ReadKeepsStreams ==
    ASSUME TypeOK, PublisherInv, StreamInv, NEW r \in RpcStreams, ReadInitial(r)
    PROVE  StreamInv'
<1> DEFINE k0 == KindSeq[rpos[r]]
<1>1. /\ UNCHANGED <<cache, crossed, wpc, wkind, rtodo, ch, streamed, dropped>>
      /\ rpc[r] = "read" /\ NextPhase(r, "send")
      /\ initv' = [initv EXCEPT ![r][k0] = cache[k0]]
  BY DEF ReadInitial, cacheVars, writerVars
<1>2. \A x \in RpcStreams, k \in Kinds : WillOffer(x, k)' <=> WillOffer(x, k)
  BY <1>1 DEF WillOffer
<1>3. rpos[r] \in DOMAIN KindSeq /\ k0 \in Kinds /\ cache[k0] \in Cached
  BY KindPositions DEF TypeOK
<1>4. initv \in [RpcStreams -> [Kinds -> Cached]]
  BY DEF TypeOK
<1>5. /\ \A x \in RpcStreams \ {r} : rpc'[x] = rpc[x] /\ rpos'[x] = rpos[x]
      /\ \/ rpos[r] = Len(KindSeq) /\ rpc'[r] = "send" /\ rpos'[r] = 1
         \/ rpos[r] # Len(KindSeq) /\ rpc'[r] = "read" /\ rpos'[r] = rpos[r] + 1
  BY <1>1, NextPhaseMoves
<1>6. ASSUME NEW k \in Kinds, k # k0, Unfetched(r, k) PROVE Unfetched(r, k)'
  <2>1. PICK i \in DOMAIN KindSeq : KindSeq[i] = k /\ rpos[r] <= i
    BY <1>6 DEF Unfetched
  <2>2. i # rpos[r]
    BY <1>6, <2>1
  <2>3. rpos[r] # Len(KindSeq) /\ rpos[r] + 1 <= i
    BY <1>3, <2>1, <2>2, KindPositions
  <2> QED
    BY <1>5, <2>1, <2>3 DEF Unfetched
<1> DEFINE v0 == cache[k0]
<1>7. v0 = cache[k0] /\ v0 \in Cached /\ initv' = [initv EXCEPT ![r][k0] = v0]
  BY <1>1, <1>3
<1> HIDE DEF k0, v0
<1>8. \A x \in RpcStreams, k \in Kinds : initv'[x][k] = IF x = r /\ k = k0 THEN cache[k0] ELSE initv[x][k]
  <2>1. \A x \in RpcStreams, k \in Kinds :
          [initv EXCEPT ![r][k0] = v0][x][k] = IF x = r /\ k = k0 THEN v0 ELSE initv[x][k]
    BY <1>3, <1>4, <1>7, EntryUpdate
  <2> QED
    BY <1>7, <2>1, Zenon
<1>9. LastExists' /\ QueuedOrComing'
  BY <1>1, <1>2 DEF StreamInv, LastExists, QueuedOrComing
<1>10. InitialStates'
  <2>1. \A x \in RpcStreams, k \in Kinds :
          cache[k] = Nil => initv'[x][k] = Nil /\ streamed[x][k] = Nil /\ ~Has(ch[x], k)
    BY <1>8 DEF StreamInv, InitialStates
  <2>2. rpc'[r] = "send" => \A i \in DOMAIN KindSeq : ~(i < rpos'[r])
    BY <1>5, KindPositions
  <2>3. \A x \in RpcStreams \ {r} : \A k \in Kinds : initv'[x][k] = initv[x][k]
    BY <1>8
  <2>4. \A i \in DOMAIN KindSeq : KindSeq[i] \in Kinds
    BY KindPositions
  <2> QED
    BY <1>1, <1>5, <2>1, <2>2, <2>3, <2>4 DEF StreamInv, InitialStates
<1>11. BaseOrComing'
  <2> SUFFICES ASSUME NEW x \in RpcStreams, NEW k \in Kinds, Subscribed(x)', ~crossed[k], ~dropped[x][k],
                      ~Has(ch[x], k)
               PROVE  Unfetched(x, k)' \/ WillOffer(x, k) \/ Base(x, k)' = cache[k]
    BY <1>1, <1>2 DEF BaseOrComing
  <2>1. CASE x = r /\ k = k0
    <3>1. initv'[x][k] = cache[k]
      BY <1>8, <2>1
    <3>2. cache[k] = Nil => streamed[x][k] = Nil
      BY DEF StreamInv, InitialStates
    <3> QED
      BY <1>1, <3>1, <3>2 DEF Base
  <2>2. CASE x = r /\ k # k0
    <3>1. Base(x, k)' = Base(x, k)
      BY <1>1, <1>8, <2>2 DEF Base
    <3>2. Subscribed(r)
      BY <1>1 DEF Subscribed
    <3> QED
      BY <1>6, <2>2, <3>1, <3>2 DEF StreamInv, BaseOrComing
  <2>3. CASE x # r
    <3>1. Base(x, k)' = Base(x, k)
      BY <1>1, <1>8, <2>3 DEF Base
    <3> QED
      BY <1>5, <2>3, <3>1 DEF StreamInv, BaseOrComing, Subscribed, Unfetched
  <2> QED
    BY <2>1, <2>2, <2>3
<1> QED
  BY <1>9, <1>10, <1>11 DEF StreamInv
(* Sending an initial state moves it from one place to another.            *)
LEMMA SendKeepsStreams ==
    ASSUME TypeOK, PublisherInv, StreamInv, NEW r \in RpcStreams, SendInitial(r)
    PROVE  StreamInv'
<1> DEFINE k0 == KindSeq[rpos[r]]
           v0 == initv[r][k0]
<1>1. /\ UNCHANGED <<cache, crossed, wpc, wkind, rtodo, ch, dropped>>
      /\ rpc[r] = "send" /\ NextPhase(r, "live")
      /\ initv' = [initv EXCEPT ![r][k0] = Nil]
      /\ streamed' = IF v0 # Nil THEN [streamed EXCEPT ![r][k0] = v0] ELSE streamed
  BY DEF SendInitial, cacheVars, writerVars
<1>2. \A x \in RpcStreams, k \in Kinds : WillOffer(x, k)' <=> WillOffer(x, k)
  BY <1>1 DEF WillOffer
<1>3. rpos[r] \in DOMAIN KindSeq /\ k0 \in Kinds /\ v0 \in Cached /\ Nil \in Cached
  BY KindPositions DEF TypeOK, Cached
<1>4. initv \in [RpcStreams -> [Kinds -> Cached]] /\ streamed \in [RpcStreams -> [Kinds -> Cached]]
  BY DEF TypeOK
<1>5. /\ \A x \in RpcStreams \ {r} : rpc'[x] = rpc[x] /\ rpos'[x] = rpos[x]
      /\ \/ rpos[r] = Len(KindSeq) /\ rpc'[r] = "live" /\ rpos'[r] = 1
         \/ rpos[r] # Len(KindSeq) /\ rpc'[r] = "send" /\ rpos'[r] = rpos[r] + 1
  BY <1>1, NextPhaseMoves
<1>6. v0 = initv[r][k0] /\ k0 = KindSeq[rpos[r]]
  OBVIOUS
<1> HIDE DEF k0, v0
<1>7. \A x \in RpcStreams, k \in Kinds : initv'[x][k] = IF x = r /\ k = k0 THEN Nil ELSE initv[x][k]
  <2>1. \A x \in RpcStreams, k \in Kinds :
          [initv EXCEPT ![r][k0] = Nil][x][k] = IF x = r /\ k = k0 THEN Nil ELSE initv[x][k]
    BY <1>3, <1>4, EntryUpdate
  <2> QED
    BY <1>1, <2>1, Zenon
<1>8. \A x \in RpcStreams, k \in Kinds :
        streamed'[x][k] = IF x = r /\ k = k0 /\ v0 # Nil THEN v0 ELSE streamed[x][k]
  <2>1. \A x \in RpcStreams, k \in Kinds :
          [streamed EXCEPT ![r][k0] = v0][x][k] = IF x = r /\ k = k0 THEN v0 ELSE streamed[x][k]
    BY <1>3, <1>4, EntryUpdate
  <2>2. CASE v0 # Nil
    <3>1. streamed' = [streamed EXCEPT ![r][k0] = v0]
      BY <1>1, <2>2
    <3>2. \A x \in RpcStreams, k \in Kinds :
            streamed'[x][k] = IF x = r /\ k = k0 THEN v0 ELSE streamed[x][k]
      BY <2>1, <3>1, Zenon
    <3> QED
      BY <2>2, <3>2
  <2>3. CASE v0 = Nil
    BY <1>1, <2>3
  <2> QED
    BY <2>2, <2>3
<1>9. LastExists' /\ QueuedOrComing'
  BY <1>1, <1>2 DEF StreamInv, LastExists, QueuedOrComing
<1>10. \A x \in RpcStreams, k \in Kinds : Base(x, k)' = Base(x, k)
  BY <1>6, <1>7, <1>8 DEF Base
<1>11. BaseOrComing'
  <2> SUFFICES ASSUME NEW x \in RpcStreams, NEW k \in Kinds, Subscribed(x)', ~crossed[k], ~dropped[x][k],
                      ~Has(ch[x], k)
               PROVE  Unfetched(x, k)' \/ WillOffer(x, k) \/ Base(x, k) = cache[k]
    BY <1>1, <1>2, <1>10 DEF BaseOrComing
  <2>1. CASE x = r
    <3>1. Subscribed(r) /\ ~Unfetched(r, k)
      BY <1>1 DEF Subscribed, Unfetched
    <3> QED
      BY <2>1, <3>1 DEF StreamInv, BaseOrComing
  <2>2. CASE x # r
    BY <1>5, <2>2 DEF StreamInv, BaseOrComing, Subscribed, Unfetched
  <2> QED
    BY <2>1, <2>2
<1>12. InitialStates'
  <2>1. \A x \in RpcStreams, k \in Kinds :
          cache[k] = Nil => initv'[x][k] = Nil /\ streamed'[x][k] = Nil /\ ~Has(ch[x], k)
    BY <1>6, <1>7, <1>8 DEF StreamInv, InitialStates
  <2>2. \A x \in RpcStreams \ {r} : \A k \in Kinds : initv'[x][k] = initv[x][k]
    BY <1>7
  <2>3. \A i \in DOMAIN KindSeq : i <= rpos[r] => initv'[r][KindSeq[i]] = Nil
    <3> SUFFICES ASSUME NEW i \in DOMAIN KindSeq, i <= rpos[r] PROVE initv'[r][KindSeq[i]] = Nil
      OBVIOUS
    <3>1. KindSeq[i] \in Kinds /\ (i < rpos[r] \/ i = rpos[r])
      BY <1>3, KindPositions
    <3>2. i < rpos[r] => initv[r][KindSeq[i]] = Nil
      BY <1>1 DEF StreamInv, InitialStates
    <3> QED
      BY <1>6, <1>7, <3>1, <3>2
  <2>4. rpc'[r] = "send" => \A i \in DOMAIN KindSeq : i < rpos'[r] => initv'[r][KindSeq[i]] = Nil
    BY <1>3, <1>5, <2>3, KindPositions
  <2>5. rpc'[r] = "live" => \A k \in Kinds : initv'[r][k] = Nil
    <3>1. rpc'[r] = "live" => \A i \in DOMAIN KindSeq : i <= rpos[r]
      BY <1>5, KindPositions
    <3> QED
      BY <2>3, <3>1 DEF Kinds
  <2>6. \A i \in DOMAIN KindSeq : KindSeq[i] \in Kinds
    BY KindPositions
  <2> QED
    BY <1>1, <1>5, <2>1, <2>2, <2>4, <2>5, <2>6 DEF StreamInv, InitialStates
<1> QED
  BY <1>9, <1>11, <1>12 DEF StreamInv

(* A value that leaves the channel is the one the stream has been sent     *)
(* last.                                                                   *)
LEMMA DeliverKeepsStreams ==
    ASSUME TypeOK, PublisherInv, SoleInv, StreamInv, NEW r \in RpcStreams, Deliver(r)
    PROVE  StreamInv'
<1> DEFINE q == ch[r]
           k0 == Head(ch[r]).kind
           v0 == Head(ch[r]).val
<1>1. /\ UNCHANGED <<cache, crossed, wpc, wkind, rtodo, rpc, rpos, initv, dropped>>
      /\ rpc[r] = "live" /\ q # <<>>
      /\ streamed' = [streamed EXCEPT ![r][k0] = v0]
      /\ ch' = [ch EXCEPT ![r] = Tail(@)]
  BY DEF Deliver, cacheVars, writerVars
<1>2. \A x \in RpcStreams, k \in Kinds : WillOffer(x, k)' <=> WillOffer(x, k)
  BY <1>1 DEF WillOffer
<1>3. q \in Seq(Messages) /\ streamed \in [RpcStreams -> [Kinds -> Cached]]
  BY DEF TypeOK
<1>4. k0 \in Kinds /\ v0 \in Cached /\ v0 \in Values
  <2>1. Head(q) \in Messages
    BY <1>1, <1>3, ChannelTail
  <2> QED
    BY <2>1 DEF Messages, Cached
<1>5. q[1].kind = k0 /\ q[1].val = v0
  BY <1>1, <1>3, ChannelTail
<1>6. ch'[r] = Tail(q) /\ \A x \in RpcStreams \ {r} : ch'[x] = ch[x]
  BY <1>1 DEF TypeOK
<1>7. q = ch[r] /\ Head(q).kind = k0
  OBVIOUS
<1> HIDE DEF q, k0, v0
<1>8. \A x \in RpcStreams, k \in Kinds :
        streamed'[x][k] = IF x = r /\ k = k0 THEN v0 ELSE streamed[x][k]
  <2>1. \A x \in RpcStreams, k \in Kinds :
          [streamed EXCEPT ![r][k0] = v0][x][k] = IF x = r /\ k = k0 THEN v0 ELSE streamed[x][k]
    BY <1>3, <1>4, EntryUpdate
  <2> QED
    BY <1>1, <2>1, Zenon
<1>9. \A i \in DOMAIN Tail(q) : Tail(q)[i] = q[i + 1] /\ i + 1 \in DOMAIN q
  BY <1>1, <1>3, ChannelTail
<1>10. \A k \in Kinds :
         /\ \A i \in DOMAIN Tail(q) : LastAt(Tail(q), k, i) => LastAt(q, k, i + 1)
         /\ \A i \in DOMAIN q : LastAt(q, k, i) /\ Has(Tail(q), k) =>
              i - 1 \in DOMAIN Tail(q) /\ LastAt(Tail(q), k, i - 1)
         /\ Has(Tail(q), k) => Has(q, k)
         /\ ~Has(Tail(q), k) /\ Has(q, k) => Head(q).kind = k /\ LastAt(q, k, 1)
  BY <1>1, <1>3, LastTail
<1>11. LastExists'
  <2> SUFFICES ASSUME NEW x \in RpcStreams, NEW k \in Kinds, Has(ch'[x], k)
               PROVE  \E i \in DOMAIN ch'[x] : LastAt(ch'[x], k, i)
    BY DEF LastExists
  <2>1. CASE x = r
    <3>1. Has(q, k)
      BY <1>6, <1>10, <2>1
    <3>2. PICK i \in DOMAIN q : LastAt(q, k, i)
      BY <1>7, <3>1 DEF StreamInv, LastExists
    <3> QED
      BY <1>6, <1>10, <2>1, <3>2
  <2>2. CASE x # r
    BY <1>6, <2>2 DEF StreamInv, LastExists
  <2> QED
    BY <2>1, <2>2
<1>12. QueuedOrComing'
  <2> SUFFICES ASSUME NEW x \in RpcStreams, NEW k \in Kinds, ~crossed[k], ~dropped[x][k],
                      NEW i \in DOMAIN ch'[x], LastAt(ch'[x], k, i)
               PROVE  ch'[x][i].val = cache[k] \/ WillOffer(x, k)
    BY <1>1, <1>2 DEF QueuedOrComing
  <2>1. CASE x = r
    <3>1. LastAt(q, k, i + 1) /\ i + 1 \in DOMAIN q /\ ch'[x][i] = q[i + 1]
      BY <1>6, <1>9, <1>10, <2>1
    <3> QED
      BY <1>7, <2>1, <3>1 DEF StreamInv, QueuedOrComing
  <2>2. CASE x # r
    BY <1>6, <2>2 DEF StreamInv, QueuedOrComing
  <2> QED
    BY <2>1, <2>2
<1>13. v0 # Nil /\ initv[r][k0] = Nil
  BY <1>1, <1>4, SyncAssumption DEF StreamInv, InitialStates
<1>14. BaseOrComing'
  <2> SUFFICES ASSUME NEW x \in RpcStreams, NEW k \in Kinds, Subscribed(x), ~crossed[k], ~dropped[x][k],
                      ~Has(ch'[x], k)
               PROVE  Unfetched(x, k) \/ WillOffer(x, k) \/ Base(x, k)' = cache[k]
    BY <1>1, <1>2 DEF BaseOrComing, Subscribed, Unfetched
  <2>1. CASE x = r /\ Has(q, k)
    <3>1. k = k0 /\ LastAt(q, k, 1)
      BY <1>6, <1>7, <1>10, <2>1
    <3>2. 1 \in DOMAIN q
      BY <3>1 DEF LastAt
    <3>3. v0 = cache[k] \/ WillOffer(r, k)
      BY <1>5, <1>7, <2>1, <3>1, <3>2 DEF StreamInv, QueuedOrComing
    <3>4. Base(r, k)' = v0
      BY <1>1, <1>8, <1>13, <3>1 DEF Base
    <3> QED
      BY <2>1, <3>3, <3>4
  <2>2. CASE x = r /\ ~Has(q, k)
    <3>1. k # k0
      <4>1. 1 \in DOMAIN q
        BY <1>1, <1>3, ChannelTail
      <4> QED
        BY <1>5, <2>2, <4>1 DEF Has
    <3>2. Base(x, k)' = Base(x, k)
      BY <1>1, <1>8, <3>1 DEF Base
    <3> QED
      BY <1>7, <2>2, <3>2 DEF StreamInv, BaseOrComing
  <2>3. CASE x # r
    <3>1. Base(x, k)' = Base(x, k)
      BY <1>1, <1>8, <2>3 DEF Base
    <3> QED
      BY <1>6, <2>3, <3>1 DEF StreamInv, BaseOrComing
  <2> QED
    BY <2>1, <2>2, <2>3
<1>15. InitialStates'
  <2>1. 1 \in DOMAIN q
    BY <1>1, <1>3, ChannelTail
  <2>2. cache[k0] # Nil
    BY <1>4, <1>5, <1>7, <2>1 DEF StreamInv, InitialStates, Has
  <2>3. \A x \in RpcStreams, k \in Kinds :
          cache[k] = Nil => initv[x][k] = Nil /\ streamed'[x][k] = Nil /\ ~Has(ch'[x], k)
    BY <1>6, <1>7, <1>8, <1>10, <2>2 DEF StreamInv, InitialStates
  <2> QED
    BY <1>1, <1>6, <2>3 DEF StreamInv, InitialStates
<1> QED
  BY <1>11, <1>12, <1>14, <1>15 DEF StreamInv

(* The streams' invariant, over all behaviours.                            *)
LEMMA StreamInvariance == Spec => [](TypeOK /\ PublisherInv /\ SoleInv /\ StreamInv)
<1>1. Init => StreamInv
  <2> SUFFICES ASSUME Init PROVE StreamInv
    OBVIOUS
  <2>1. \A r \in RpcStreams : ch[r] = <<>> /\ DOMAIN ch[r] = {}
    BY DEF Init
  <2>2. LastExists /\ QueuedOrComing
    BY <2>1 DEF LastExists, QueuedOrComing, Has
  <2>3. BaseOrComing /\ InitialStates
    BY <2>1 DEF Init, BaseOrComing, InitialStates, Subscribed, NoStates, Has
  <2> QED
    BY <2>2, <2>3 DEF StreamInv
<1>2. TypeOK /\ PublisherInv /\ SoleInv /\ StreamInv /\ [Next]_vars => StreamInv'
  <2> SUFFICES ASSUME TypeOK, PublisherInv, SoleInv, StreamInv, [Next]_vars PROVE StreamInv'
    OBVIOUS
  <2>1. CASE UNCHANGED <<cacheVars, writerVars, streamVars>>
    <3>1. \A r \in RpcStreams, k \in Kinds : WillOffer(r, k) => WillOffer(r, k)'
      BY <2>1 DEF WillOffer, writerVars
    <3> QED
      BY <2>1, <3>1, StreamFrame
  <2>2. ASSUME NEW w \in Writers, Publisher(w) PROVE StreamInv'
    BY <2>2, StoreKeepsStreams, PublishKeepsStreams, OfferKeepsStreams DEF Publisher
  <2>3. ASSUME NEW c \in WsClients, Client(c) PROVE StreamInv'
    BY <2>1, <2>3 DEF Client, Connect, ReadCache, PushCache, PeerLeaves, ReadLoopEnds
  <2>4. ASSUME NEW r \in RpcStreams, Stream(r) PROVE StreamInv'
    BY <2>4, SubscriptionKeepsStreams, ReadKeepsStreams, SendKeepsStreams, DeliverKeepsStreams DEF Stream
  <2> QED
    BY <2>1, <2>2, <2>3, <2>4 DEF Next, vars
<1> QED
  BY <1>1, <1>2, ClientInvariance, PTL DEF Spec

(* Every stream has been or will be sent the cached state of a quiet kind  *)
(* last, except after overlapping publications or a full channel: for any  *)
(* number of kinds, handlers and streams, and any capacity.                *)
THEOREM StreamsCurrentAlways == Spec => []StreamsCurrent
<1>1. StreamInv => StreamsCurrent
  <2> SUFFICES ASSUME StreamInv, NEW r \in RpcStreams, NEW k \in Kinds, rpc[r] \in {"send", "live"},
                      Quiet(k), ~crossed[k], ~dropped[r][k]
               PROVE  StreamView(r, k) = cache[k]
    BY DEF StreamsCurrent
  <2>1. ~WillOffer(r, k) /\ ~Unfetched(r, k) /\ Subscribed(r)
    BY DEF WillOffer, Quiet, Unfetched, Subscribed
  <2> DEFINE later == {i \in DOMAIN ch[r] : ch[r][i].kind = k}
             last == CHOOSE i \in later : \A j \in later : j <= i
  <2>2. StreamView(r, k) = IF later # {} THEN ch[r][last].val ELSE Base(r, k)
    BY DEF StreamView, Base
  <2>3. CASE Has(ch[r], k)
    <3>1. later # {}
      BY <2>3 DEF Has
    <3>2. \E i \in later : \A j \in later : j <= i
      BY <2>3 DEF StreamInv, LastExists, LastAt
    <3>3. last \in later /\ \A j \in later : j <= last
      BY <3>2
    <3>4. LastAt(ch[r], k, last) /\ last \in DOMAIN ch[r]
      BY <3>3 DEF LastAt
    <3>5. ch[r][last].val = cache[k]
      BY <2>1, <3>4 DEF StreamInv, QueuedOrComing
    <3> HIDE DEF later, last
    <3> QED
      BY <2>2, <3>1, <3>5
  <2>4. CASE ~Has(ch[r], k)
    <3>1. later = {}
      BY <2>4 DEF Has
    <3>2. Base(r, k) = cache[k]
      BY <2>1, <2>4 DEF StreamInv, BaseOrComing
    <3> HIDE DEF later, last
    <3> QED
      BY <2>2, <3>1, <3>2
  <2> QED
    BY <2>3, <2>4
<1> QED
  BY <1>1, StreamInvariance, PTL
================================================================================
