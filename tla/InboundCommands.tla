----------------------------- MODULE InboundCommands -----------------------------
(***************************************************************************)
(* HandleClient's read loop, the unary RPCs, and the handlers both call:   *)
(* what a companion asks the host to do.                                   *)
(*                                                                         *)
(* A WebSocket client's frames are handled one after the other, RPCs each  *)
(* in a goroutine of its own.  A handler gives itself two seconds from the *)
(* moment it is called; SendNotification then waits for the manager's      *)
(* mutex, which is held during the call of the desktop.  The desktop may   *)
(* hang, and a request it got is carried out when it recovers, whether     *)
(* anybody still waits or not.  Only systemctl is waited for without end.  *)
(* Config frames are in IntervalControl.                                   *)
(***************************************************************************)
EXTENDS Integers, Sequences, FiniteSets, SequencesExt

CONSTANTS
    Clients,      \* WebSocket clients
    Calls,        \* unary RPCs
    Scripts,      \* the frames a client may send: each a kind and its argument
    RpcRequests,  \* what RPCs ask for
    TextLimit,    \* bytes of a notification's text
    Offered,      \* the power profiles
    NaN,          \* the floating point value that is no number
    Nil

Callers == Clients \cup Calls
Requests == RpcRequests \cup UNION {Range(s) : s \in Scripts}

\* A script is a sequence, callers are told apart, a frame's notification has
\* a text where an RPC's may have none, and a media value is a number.
InboundAssumption ==
    /\ \A s \in Scripts : s \in Seq(Range(s))
    /\ Clients \cap Calls = {}
    /\ Nil \notin Callers \cup {"pong", "success", "error"}
    /\ TextLimit \in Nat
    /\ \A s \in Scripts : \A r \in Range(s) : r.kind = "notification" => r.arg \in Seq(Range(r.arg))
    /\ \A r \in RpcRequests : r.kind = "notification" /\ r.arg # Nil => r.arg \in Seq(Range(r.arg))
    /\ \A r \in Requests : r.kind = "media" => r.arg.value \in Int \cup {NaN, Nil}

VARIABLES
    inbox,     \* requests of each caller the daemon has not read
    alive,     \* callers still connected
    asked,     \* requests the daemon has read
    pc,        \* where each handler is
    expired,   \* its two seconds are over
    outcome,   \* what it will report
    mu,        \* who holds the notification manager's mutex
    posted,    \* requests on their way to the desktop, by caller and number
    performed, \* those it has carried out
    unheard,   \* history: those of them for which it answered with an error
    replies    \* the answers each caller got

callerVars == <<inbox, alive>>
carriedOut == <<performed, unheard>>
vars == <<callerVars, asked, pc, expired, outcome, mu, posted, carriedOut, replies>>

Init ==
    /\ \E sent \in [Clients -> Scripts], call \in [Calls -> RpcRequests] :
         inbox = [c \in Callers |-> IF c \in Clients THEN sent[c] ELSE <<call[c]>>]
    /\ alive = Callers
    /\ asked = [c \in Callers |-> <<>>]
    /\ pc = [c \in Callers |-> "read"]
    /\ expired = {} /\ outcome = [c \in Callers |-> Nil] /\ mu = Nil
    /\ posted = {} /\ performed = {} /\ unheard = {} /\ replies = [c \in Callers |-> <<>>]

Current(c) == asked[c][Len(asked[c])]

--------------------------------------------------------------------------------
(* Companions and desktop                                                  *)

Leave(c) ==
    /\ c \in alive
    /\ alive' = alive \ {c}
    /\ UNCHANGED <<inbox, asked, pc, expired, outcome, mu, posted, carriedOut, replies>>

\* The result reaches the handler if it still waits for this request.
Answer(m, out) ==
    outcome' = IF pc[m.by] = "wait" /\ Len(asked[m.by]) = m.n THEN [outcome EXCEPT ![m.by] = out] ELSE outcome

Perform(m) ==
    /\ m \in posted
    /\ posted' = posted \ {m} /\ performed' = performed \cup {m}
    /\ Answer(m, "success")
    /\ UNCHANGED <<callerVars, asked, pc, expired, mu, unheard, replies>>

\* It is carried out, but the service or the bus is lost before the reply.
BreakOff(m) ==
    /\ m \in posted
    /\ posted' = posted \ {m} /\ performed' = performed \cup {m} /\ unheard' = unheard \cup {m}
    /\ Answer(m, "error")
    /\ UNCHANGED <<callerVars, asked, pc, expired, mu, replies>>

\* A player that is gone, a service that is not there.
Refuse(m) ==
    /\ m \in posted
    /\ posted' = posted \ {m}
    /\ Answer(m, "error")
    /\ UNCHANGED <<callerVars, asked, pc, expired, mu, carriedOut, replies>>

--------------------------------------------------------------------------------
(* What the desktop is sent                                                *)

SanitizeFirst(text) ==
    LET opens == {i \in DOMAIN text : text[i] = "<" /\ \E j \in i..Len(text) : text[j] = ">"}
        first == CHOOSE i \in opens : \A j \in opens : i <= j
        close == CHOOSE j \in first..Len(text) : text[j] = ">" /\ \A k \in first..(j - 1) : text[k] # ">"
    IN  IF opens = {} THEN text ELSE SubSeq(text, 1, first - 1) \o SubSeq(text, close + 1, Len(text))

\* sanitizeHTML scans for the bracket that opens a tag and drops everything
\* up to the one that closes it; a tag that stays open is no tag.
SanitizeHTML(text) ==
    LET Scan(acc, ch) ==
            CASE acc.tag = <<>> /\ ch # "<" -> [acc EXCEPT !.out = Append(@, ch)]
              [] acc.tag # <<>> /\ ch = ">" -> [acc EXCEPT !.tag = <<>>]
              [] OTHER -> [acc EXCEPT !.tag = Append(@, ch)]
        end == FoldLeft(Scan, [out |-> <<>>, tag |-> <<>>], text)
    IN  end.out \o end.tag

Truncate(text) == SubSeq(text, 1, IF Len(text) < TextLimit THEN Len(text) ELSE TextLimit)

\* Neither comparison holds of NaN, so it passes; hundredths otherwise.
ClampVolume(v) == CASE v = NaN -> NaN [] v # NaN /\ v < 0 -> 0 [] v # NaN /\ v > 100 -> 100 [] OTHER -> v

\* SendCommand's value: a position is not negative, a volume from 0 to 1.
MediaValue(a) ==
    CASE a.command = "set_volume" -> ClampVolume(a.value)
      [] a.command = "set_position" -> IF a.value < 0 THEN 0 ELSE a.value
      [] OTHER -> a.value

\* Known commands, with the argument they need.
MediaCommandOk(a) ==
    \/ a.command \in {"play", "pause", "play_pause", "stop", "next", "previous"}
    \/ a.command \in {"seek", "set_position", "set_volume"} /\ a.value # Nil

\* What a request comes to.
Sent(r) ==
    CASE r.kind = "notification" -> SanitizeHTML(Truncate(r.arg))
      [] r.kind = "media" -> MediaValue(r.arg)
      [] OTHER -> r.arg

--------------------------------------------------------------------------------
(* The read loop and the RPCs                                              *)

\* The next request is of this kind; reading it starts a handler.
Takes(c, kind) ==
    /\ pc[c] = "read" /\ inbox[c] # <<>> /\ Head(inbox[c]).kind = kind
    /\ inbox' = [inbox EXCEPT ![c] = Tail(@)]
    /\ asked' = [asked EXCEPT ![c] = Append(@, Head(inbox[c]))]
    /\ expired' = expired \ {c}
    /\ UNCHANGED <<alive, mu, posted, carriedOut, replies>>

Goto(c, step, out) == pc' = [pc EXCEPT ![c] = step] /\ outcome' = [outcome EXCEPT ![c] = out]

\* What does not parse, and what has no case, is skipped.
SkippedFrame(c) ==
    \E kind \in {"garbled", "unknown"} : Takes(c, kind) /\ Goto(c, "read", Nil)

PingFrame(c) == Takes(c, "ping") /\ Goto(c, "respond", "pong")

HandleAction(c, command) ==
    IF command = "suspend" THEN Goto(c, "send", Nil) ELSE Goto(c, "respond", "success")

HandleNotificationCommand(c) == Goto(c, "lock", Nil)

HandleMediaCommand(c, arg) ==
    IF MediaCommandOk(arg) THEN Goto(c, "send", Nil) ELSE Goto(c, "respond", "error")

HandlePowerProfileCommand(c, profile) ==
    IF profile \in Offered THEN Goto(c, "send", Nil) ELSE Goto(c, "respond", "error")

ActionFrame(c) == Takes(c, "action") /\ HandleAction(c, Head(inbox[c]).arg)
NotificationFrame(c) == Takes(c, "notification") /\ HandleNotificationCommand(c)
MediaFrame(c) == Takes(c, "media") /\ HandleMediaCommand(c, Head(inbox[c]).arg)
ProfileFrame(c) == Takes(c, "profile") /\ HandlePowerProfileCommand(c, Head(inbox[c]).arg)

ReadFrame(c) ==
    \/ SkippedFrame(c) \/ PingFrame(c) \/ ActionFrame(c) \/ NotificationFrame(c) \/ MediaFrame(c)
    \/ ProfileFrame(c)

\* The loop ends with the connection.
LoopEnds(c) ==
    /\ pc[c] = "read" /\ c \notin alive
    /\ pc' = [pc EXCEPT ![c] = "gone"]
    /\ UNCHANGED <<callerVars, asked, expired, outcome, mu, posted, carriedOut, replies>>

SendNotification(c) ==
    /\ Takes(c, "notification")
    /\ IF Head(inbox[c]).arg = Nil THEN Goto(c, "respond", "error") ELSE HandleNotificationCommand(c)

SendMediaCommand(c) == Takes(c, "media") /\ HandleMediaCommand(c, Head(inbox[c]).arg)
ExecuteSystemAction(c) == Takes(c, "action") /\ HandleAction(c, Head(inbox[c]).arg)
SetPowerProfile(c) == Takes(c, "profile") /\ HandlePowerProfileCommand(c, Head(inbox[c]).arg)

\* TriggerNotificationAction and DismissNotification.
Unimplemented(c) == Takes(c, "unimplemented") /\ Goto(c, "respond", "error")

ReadCall(c) ==
    SendNotification(c) \/ SendMediaCommand(c) \/ ExecuteSystemAction(c) \/ SetPowerProfile(c) \/ Unimplemented(c)

--------------------------------------------------------------------------------
(* The handlers                                                            *)

Lock(c) ==
    /\ pc[c] = "lock" /\ mu = Nil
    /\ mu' = c
    /\ pc' = [pc EXCEPT ![c] = "send"]
    /\ UNCHANGED <<callerVars, asked, expired, outcome, posted, carriedOut, replies>>

Release(c) == mu' = IF mu = c THEN Nil ELSE mu

\* A context that is done already sends nothing.
Send(c) ==
    /\ pc[c] = "send"
    /\ IF c \in expired
       THEN Goto(c, "respond", "error") /\ Release(c) /\ UNCHANGED posted
       ELSE Goto(c, "wait", Nil) /\ posted' = posted \cup {[by |-> c, n |-> Len(asked[c])]} /\ UNCHANGED mu
    /\ UNCHANGED <<callerVars, asked, expired, carriedOut, replies>>

ExpireMediaOnly(c) ==
    /\ pc[c] \in {"lock", "send", "wait"} /\ Current(c).kind = "media" /\ c \notin expired
    /\ expired' = expired \cup {c}
    /\ UNCHANGED <<callerVars, asked, pc, outcome, mu, posted, carriedOut, replies>>

\* The two seconds of every handler but that of actions.
Expire(c) ==
    /\ pc[c] \in {"lock", "send", "wait"} /\ Current(c).kind # "action" /\ c \notin expired
    /\ expired' = expired \cup {c}
    /\ UNCHANGED <<callerVars, asked, pc, outcome, mu, posted, carriedOut, replies>>

\* The call returns; a systemctl that fails is only logged.
Return(c) ==
    /\ pc[c] = "wait" /\ outcome[c] # Nil
    /\ Goto(c, "respond", IF Current(c).kind = "action" THEN "success" ELSE outcome[c])
    /\ Release(c)
    /\ UNCHANGED <<callerVars, asked, expired, posted, carriedOut, replies>>

TimeOutSucceeds(c) ==
    /\ pc[c] = "wait" /\ c \in expired
    /\ Goto(c, "respond", "success")
    /\ Release(c)
    /\ UNCHANGED <<callerVars, asked, expired, posted, carriedOut, replies>>

\* The deadline passes first; what was sent is not taken back.
TimeOut(c) ==
    /\ pc[c] = "wait" /\ c \in expired
    /\ Goto(c, "respond", "error")
    /\ Release(c)
    /\ UNCHANGED <<callerVars, asked, expired, posted, carriedOut, replies>>

\* The read loop answers no action.
Answered(c, r) == IF c \in Clients THEN r.kind \notin {"garbled", "unknown", "action"} ELSE TRUE

\* A reply that cannot be written is lost, and the loop goes on.
Respond(c) ==
    /\ pc[c] = "respond"
    /\ replies' = IF c \in alive /\ Answered(c, Current(c))
                  THEN [replies EXCEPT ![c] = Append(@, [n |-> Len(asked[c]), status |-> outcome[c],
                                                          late |-> c \in expired])]
                  ELSE replies
    /\ Goto(c, "read", Nil)
    /\ UNCHANGED <<callerVars, asked, expired, mu, posted, carriedOut>>

Handles(c) == Lock(c) \/ Send(c) \/ Return(c) \/ TimeOut(c) \/ Respond(c)

Reads(c) == IF c \in Clients THEN ReadFrame(c) \/ LoopEnds(c) ELSE ReadCall(c)

--------------------------------------------------------------------------------
Next ==
    \/ \E c \in Clients : Leave(c)
    \/ \E c \in Callers : Reads(c) \/ Handles(c) \/ Expire(c)
    \/ \E m \in posted : Perform(m) \/ BreakOff(m) \/ Refuse(m)

\* Goroutines run and time passes; the desktop may never do anything.
Spec ==
    /\ Init /\ [][Next]_vars
    /\ \A c \in Callers : WF_vars(Reads(c)) /\ WF_vars(Handles(c)) /\ WF_vars(Expire(c))

--------------------------------------------------------------------------------
(* Properties                                                              *)

(* The variables' types; who holds the mutex is calling the desktop.       *)
TypeOK ==
    /\ alive \subseteq Callers /\ expired \subseteq Callers
    /\ pc \in [Callers -> {"read", "lock", "send", "wait", "respond", "gone"}]
    /\ outcome \in [Callers -> {Nil, "pong", "success", "error"}]
    /\ mu # Nil => mu \in Callers /\ pc[mu] \in {"send", "wait"}

(* A connected companion gets one reply to each request that has one, in   *)
(* the order of its requests, although handlers time out, queue for the    *)
(* mutex and fail.                                                         *)
EachAnsweredOnce ==
    \A c \in Callers : c \in alive /\ pc[c] = "read" =>
        /\ \A i, j \in DOMAIN replies[c] : i < j => replies[c][i].n < replies[c][j].n
        /\ {replies[c][i].n : i \in DOMAIN replies[c]} = {n \in 1..Len(asked[c]) : Answered(c, asked[c][n])}

(* A success was carried out by the desktop, and a failure was not and     *)
(* will not be, unless its deadline passed or the desktop itself answered  *)
(* with an error; only actions are acknowledged whatever becomes of them.  *)
RepliesAreTrue ==
    \A c \in Callers : \A i \in DOMAIN replies[c] :
        LET reply == replies[c][i]
            Among(S) == \E m \in S : m.by = c /\ m.n = reply.n
        IN  asked[c][reply.n].kind # "action" =>
                /\ reply.status = "success" => Among(performed)
                /\ reply.status = "error" /\ Among((performed \ unheard) \cup posted) => reply.late

(* Every request gets the one answer that agrees with what the desktop     *)
(* did.                                                                    *)
RequestsAnswered == EachAnsweredOnce /\ RepliesAreTrue

(* Whatever companions send, what the desktop gets is short, has no tags,  *)
(* and is within the range of a volume or position; NaN is the exception.  *)
HostInputClean ==
    \A m \in performed :
        LET r == asked[m.by][m.n]
            got == Sent(r)
        IN  CASE r.kind = "notification" ->
                    /\ Len(got) <= TextLimit
                    /\ \A i, j \in DOMAIN got : got[i] = "<" /\ got[j] = ">" => j < i
              [] r.kind = "profile" -> got \in Offered
              [] r.kind = "media" ->
                    r.arg.command \in {"set_position", "set_volume"} /\ got # NaN =>
                        got >= 0 /\ (r.arg.command = "set_volume" => got <= 100)
              [] OTHER -> TRUE

Waiting(c) == c \in alive /\ (inbox[c] # <<>> \/ pc[c] \in {"lock", "send", "wait", "respond"})
Suspending(c) == pc[c] = "wait" /\ Current(c).kind = "action"

(* A desktop that hangs for ever holds up no companion: every request is   *)
(* handled, except behind a suspend that systemctl does not return from.   *)
RequestsHandled == \A c \in Callers : Waiting(c) ~> (~Waiting(c) \/ Suspending(c))
================================================================================
