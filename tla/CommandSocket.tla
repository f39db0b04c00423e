------------------------------ MODULE CommandSocket ------------------------------
(***************************************************************************)
(* runCommandSocket, handleCommandConnection and the trigger command: the  *)
(* socket file several daemons and clients share.                          *)
(*                                                                         *)
(* A starting daemon looks for the file, dials it, removes it when nobody  *)
(* answers, and binds.  A daemon that shuts down unlinks the path, closes  *)
(* the listener and removes the path once more, whoever's file is there by *)
(* then.  Engine.Start waits for none of that, so the process may end at   *)
(* any point of it, as it may in a crash.  A daemon here is one process:   *)
(* a restart is another one.                                               *)
(***************************************************************************)
EXTENDS Integers, FiniteSets

CONSTANTS
    Daemons,   \* daemon processes
    Clients,   \* invocations of the trigger command
    Kinds,     \* request types
    CachedKinds,  \* those whose state the engine caches
    TypedKinds,   \* those with a payload type of their own
    Stale,     \* the file of a process long gone
    Nil        \* no file, no connection, no answer

\* Nobody is the daemon at the path, nothing is an answer.
SocketAssumption ==
    /\ Nil \notin Daemons \cup {Stale}
    /\ Nil \notin {"success", "error", "failed"}

VARIABLES
    file,      \* whose socket is at the path
    live,      \* daemons whose listener is open
    pc,        \* where runCommandSocket of each daemon is
    cancelled, \* daemons told to shut down
    refusal,   \* why a daemon gave up starting
    overlap,   \* history: two daemons were starting or stopping at the same time
    cpc,       \* where each client is
    conn,      \* the daemon it is connected to
    req,       \* its request
    hpc,       \* where the handler of its connection is
    done,      \* what the handler has done
    answer,    \* the response on its way
    result,    \* what the client reported
    stuck      \* a WebSocket peer does not read, and Broadcast waits for it

daemonVars == <<file, live, pc, cancelled, refusal, overlap>>
handlerVars == <<hpc, done, answer>>
clientVars == <<cpc, conn, req, result>>
vars == <<daemonVars, handlerVars, clientVars, stuck>>

\* The subcommands of trigger build data of the type they name.
CommandRequests == [kind : TypedKinds, decodes : {TRUE}]

\* raw sends any JSON object or array under any type.
RawRequests == [kind : Kinds, decodes : BOOLEAN] \ [kind : Kinds \ TypedKinds, decodes : {FALSE}]

Requests == CommandRequests \cup RawRequests

Init ==
    /\ file \in {Nil, Stale} /\ live = {}
    /\ pc = [d \in Daemons |-> "off"] /\ cancelled = {}
    /\ refusal = [d \in Daemons |-> Nil] /\ overlap = FALSE
    /\ cpc = [c \in Clients |-> "idle"] /\ conn = [c \in Clients |-> Nil]
    /\ req \in [Clients -> Requests] /\ result = [c \in Clients |-> Nil]
    /\ hpc = [c \in Clients |-> "none"] /\ done = [c \in Clients |-> {}]
    /\ answer = [c \in Clients |-> Nil]
    /\ stuck = FALSE

\* Between its look at the path and its last write to it.
Busy == {"dial", "remove", "listen", "closing", "removing"}

Goto(d, step) ==
    /\ pc' = [pc EXCEPT ![d] = step]
    /\ overlap' = (overlap \/ (step \in Busy /\ \E x \in Daemons \ {d} : pc[x] \in Busy))

Refuse(d, why) == Goto(d, "refused") /\ refusal' = [refusal EXCEPT ![d] = why]

--------------------------------------------------------------------------------
(* Start                                                                   *)

Start(d) ==
    /\ pc[d] = "off"
    /\ Goto(d, "stat")
    /\ UNCHANGED <<file, live, cancelled, refusal, handlerVars, clientVars, stuck>>

Stat(d) ==
    /\ pc[d] = "stat"
    /\ Goto(d, IF file = Nil THEN "listen" ELSE "dial")
    /\ UNCHANGED <<file, live, cancelled, refusal, handlerVars, clientVars, stuck>>

DialPathTrusting(d) ==
    /\ pc[d] = "dial"
    /\ Goto(d, "remove")
    /\ UNCHANGED <<file, live, cancelled, refusal, handlerVars, clientVars, stuck>>

\* An answer means a running instance; a missing file does not answer either.
DialPath(d) ==
    /\ pc[d] = "dial"
    /\ IF file \in live THEN Refuse(d, "in use") ELSE Goto(d, "remove") /\ UNCHANGED refusal
    /\ UNCHANGED <<file, live, cancelled, handlerVars, clientVars, stuck>>

\* os.Remove fails when the file is gone already.
RemoveStale(d) ==
    /\ pc[d] = "remove"
    /\ IF file = Nil THEN Refuse(d, "remove") ELSE Goto(d, "listen") /\ UNCHANGED refusal
    /\ file' = Nil
    /\ UNCHANGED <<live, cancelled, handlerVars, clientVars, stuck>>

\* bind fails when there is a file.
Listen(d) ==
    /\ pc[d] = "listen"
    /\ IF file # Nil
       THEN Refuse(d, "bind") /\ UNCHANGED <<file, live>>
       ELSE Goto(d, "serving") /\ file' = d /\ live' = live \cup {d} /\ UNCHANGED refusal
    /\ UNCHANGED <<cancelled, handlerVars, clientVars, stuck>>

--------------------------------------------------------------------------------
(* Shutdown                                                                *)

Cancel(d) ==
    /\ pc[d] \notin {"off", "ended"} /\ d \notin cancelled
    /\ cancelled' = cancelled \cup {d}
    /\ UNCHANGED <<file, live, pc, refusal, overlap, handlerVars, clientVars, stuck>>

\* listener.Close unlinks the path before it closes the socket.
Unlink(d) ==
    /\ pc[d] = "serving" /\ d \in cancelled
    /\ Goto(d, "closing")
    /\ file' = Nil
    /\ UNCHANGED <<live, cancelled, refusal, handlerVars, clientVars, stuck>>

\* Connections nobody accepted are reset.
CloseListener(d) ==
    /\ pc[d] = "closing"
    /\ Goto(d, "removing")
    /\ live' = live \ {d}
    /\ hpc' = [c \in Clients |-> IF conn[c] = d /\ hpc[c] = "queued" THEN "closed" ELSE hpc[c]]
    /\ UNCHANGED <<file, cancelled, refusal, done, answer, clientVars, stuck>>

\* The deferred os.Remove.
RemoveAgain(d) ==
    /\ pc[d] = "removing"
    /\ Goto(d, "removed")
    /\ file' = Nil
    /\ UNCHANGED <<live, cancelled, refusal, handlerVars, clientVars, stuck>>

\* The process ends, by a crash or because Engine.Start has returned.
End(d) ==
    /\ pc[d] \notin {"off", "ended"}
    /\ Goto(d, "ended")
    /\ live' = live \ {d}
    /\ hpc' = [c \in Clients |-> IF conn[c] = d THEN "closed" ELSE hpc[c]]
    /\ UNCHANGED <<file, cancelled, refusal, done, answer, clientVars, stuck>>

--------------------------------------------------------------------------------
(* handleCommandConnection                                                 *)

HandlerAt(c, step) == hpc' = [hpc EXCEPT ![c] = step]
Does(c, what) == done' = [done EXCEPT ![c] = @ \cup {what}]

Accept(c) ==
    /\ hpc[c] = "queued" /\ pc[conn[c]] = "serving"
    /\ HandlerAt(c, "decode")
    /\ UNCHANGED <<daemonVars, clientVars, done, answer, stuck>>

DecodeKeepsOpen(c) ==
    /\ hpc[c] = "decode" /\ cpc[c] = "wait"
    /\ HandlerAt(c, IF req[c].decodes THEN "store" ELSE "none")
    /\ UNCHANGED <<daemonVars, clientVars, done, answer, stuck>>

DecodeAccepts(c) ==
    /\ hpc[c] = "decode" /\ cpc[c] = "wait"
    /\ HandlerAt(c, "store")
    /\ UNCHANGED <<daemonVars, clientVars, done, answer, stuck>>

\* Data that does not fit its type is answered with the error.
Decode(c) ==
    /\ hpc[c] = "decode" /\ cpc[c] = "wait"
    /\ IF req[c].decodes
       THEN HandlerAt(c, "store") /\ UNCHANGED answer
       ELSE HandlerAt(c, "closed") /\ answer' = [answer EXCEPT ![c] = "error"]
    /\ UNCHANGED <<daemonVars, clientVars, done, stuck>>

\* Session lock, DPMS and power profile states are cached first.
Store(c) ==
    /\ hpc[c] = "store"
    /\ HandlerAt(c, "clients")
    /\ IF req[c].kind \in CachedKinds THEN Does(c, "cache") ELSE UNCHANGED done
    /\ UNCHANGED <<daemonVars, clientVars, answer, stuck>>

\* pool.Broadcast has no write deadline.
BroadcastClients(c) ==
    /\ hpc[c] = "clients" /\ ~stuck
    /\ HandlerAt(c, "streams")
    /\ Does(c, "clients")
    /\ UNCHANGED <<daemonVars, clientVars, answer, stuck>>

\* Only typed payloads go to the RPC streams.
BroadcastStreams(c) ==
    /\ hpc[c] = "streams"
    /\ HandlerAt(c, "respond")
    /\ IF req[c].kind \in TypedKinds THEN Does(c, "streams") ELSE UNCHANGED done
    /\ UNCHANGED <<daemonVars, clientVars, answer, stuck>>

WriteUDSResponse(c) ==
    /\ hpc[c] = "respond"
    /\ HandlerAt(c, "closed")
    /\ answer' = [answer EXCEPT ![c] = "success"]
    /\ UNCHANGED <<daemonVars, clientVars, done, stuck>>

\* The three seconds are over while the handler reads, or before it writes:
\* it closes the connection without an answer.
Deadline(c) ==
    /\ hpc[c] = "respond" \/ (hpc[c] = "decode" /\ cpc[c] = "encode")
    /\ HandlerAt(c, "closed")
    /\ UNCHANGED <<daemonVars, clientVars, done, answer, stuck>>

\* A WebSocket peer stops reading, or reads again.
Peer ==
    /\ stuck' = ~stuck
    /\ UNCHANGED <<daemonVars, handlerVars, clientVars>>

--------------------------------------------------------------------------------
(* sendUDSRequest                                                          *)

ClientAt(c, step) == cpc' = [cpc EXCEPT ![c] = step]
Reports(c, r) == ClientAt(c, "done") /\ result' = [result EXCEPT ![c] = r]

Dial(c) ==
    /\ cpc[c] = "idle"
    /\ IF file \in live
       THEN /\ ClientAt(c, "encode") /\ UNCHANGED result
            /\ conn' = [conn EXCEPT ![c] = file]
            /\ HandlerAt(c, "queued")
       ELSE Reports(c, "failed") /\ UNCHANGED <<conn, hpc>>
    /\ UNCHANGED <<daemonVars, req, done, answer, stuck>>

Encode(c) ==
    /\ cpc[c] = "encode"
    /\ IF hpc[c] = "closed" THEN Reports(c, "failed") ELSE ClientAt(c, "wait") /\ UNCHANGED result
    /\ UNCHANGED <<daemonVars, handlerVars, conn, req, stuck>>

\* The client reads the response, with no deadline of its own.
ReadResponse(c) ==
    /\ cpc[c] = "wait"
    /\ hpc[c] = "closed"
    /\ Reports(c, IF answer[c] = Nil THEN "failed" ELSE answer[c])
    /\ UNCHANGED <<daemonVars, handlerVars, conn, req, stuck>>

--------------------------------------------------------------------------------
DaemonStarts(d) == Start(d) \/ Stat(d) \/ DialPath(d) \/ RemoveStale(d) \/ Listen(d)
DaemonStops(d) == Unlink(d) \/ CloseListener(d) \/ RemoveAgain(d)
Handler(c) ==
    \/ Accept(c) \/ Decode(c) \/ Store(c) \/ BroadcastClients(c) \/ BroadcastStreams(c)
    \/ WriteUDSResponse(c)
Client(c) == Dial(c) \/ Encode(c) \/ ReadResponse(c)

Next ==
    \/ \E d \in Daemons : DaemonStarts(d) \/ DaemonStops(d) \/ Cancel(d) \/ End(d)
    \/ \E c \in Clients : Handler(c) \/ Deadline(c) \/ Client(c)
    \/ Peer

\* Goroutines and clients run; nobody has to start, stop or die.
Spec ==
    /\ Init /\ [][Next]_vars
    /\ \A d \in Daemons : WF_vars(DaemonStops(d))
    /\ \A c \in Clients : WF_vars(Handler(c)) /\ WF_vars(Client(c))

--------------------------------------------------------------------------------
(* Properties                                                              *)

(* The variables' types; a client has a result exactly when it is done.    *)
TypeOK ==
    /\ file \in Daemons \cup {Stale, Nil} /\ live \subseteq Daemons /\ cancelled \subseteq Daemons
    /\ pc \in [Daemons -> Busy \cup {"off", "stat", "serving", "removed", "refused", "ended"}]
    /\ refusal \in [Daemons -> {Nil, "in use", "remove", "bind"}]
    /\ cpc \in [Clients -> {"idle", "encode", "wait", "done"}]
    /\ conn \in [Clients -> Daemons \cup {Nil}]
    /\ hpc \in [Clients -> {"none", "queued", "decode", "store", "clients", "streams", "respond", "closed"}]
    /\ \A c \in Clients : result[c] # Nil <=> cpc[c] = "done"

(* Unless two daemons were starting or stopping at the same time, a daemon *)
(* that serves is the one at the path: the probe of a second start, a      *)
(* crash at any point and the removals of earlier shutdowns never cut it   *)
(* off, and no two daemons serve.                                          *)
ServerAtPath ==
    ~overlap => \A d \in Daemons : pc[d] = "serving" => file = d

(* A stale file never keeps a daemon from starting: the only reason to     *)
(* give up, short of such an overlap, is a daemon that answers.            *)
StaleNeverBlocks ==
    ~overlap => \A d \in Daemons : refusal[d] \in {Nil, "in use"}

(* The path belongs to the daemon that serves, and to nobody else: neither *)
(* a second daemon nor what a dead one left can take or block it.          *)
SocketIsOwned == ServerAtPath /\ StaleNeverBlocks

Effects(r) ==
    {"clients"} \cup (IF r.kind \in CachedKinds THEN {"cache"} ELSE {})
                \cup (IF r.kind \in TypedKinds THEN {"streams"} ELSE {})

(* What the trigger command reports is true although daemons die, sockets  *)
(* change hands and deadlines pass: after a success the cache of the       *)
(* request's type was stored and each of its broadcasts run, after a       *)
(* rejection nothing was.  A full stream may still drop it (StateSync,     *)
(* EventStreams).                                                          *)
AnswersAreTrue ==
    \A c \in Clients :
        /\ result[c] = "success" => req[c].decodes /\ done[c] = Effects(req[c])
        /\ result[c] = "error" => ~req[c].decodes /\ done[c] = {}

Connected(c) == cpc[c] \in {"encode", "wait"}
Ends(c) == cpc[c] = "done"

(* A client that reached a daemon gets its answer or the end of the        *)
(* connection, though it sets no deadline of its own: only a WebSocket     *)
(* peer that does not read can keep it waiting.                            *)
ClientsReturn == \A c \in Clients : Connected(c) ~> (Ends(c) \/ stuck)
================================================================================
