--------------------------- MODULE DeviceSessionProofs ---------------------------
(* Proofs about DeviceSession for any devices, any publishers and any      *)
(* number of goroutines at work on a device.                               *)
EXTENDS DeviceSession, WellFoundedInduction, TLAPS

Places == {"dial", "sent", "broken"}

(* What a goroutine at work has left to do: the rest of a bootstrap, a     *)
(* DPMS command, or cleanup's close.                                       *)
BootJobs ==
    [todo : {<<"wake", "launch", "reverse">>, <<"launch", "reverse">>, <<"reverse">>},
     at : Places, own : {FALSE}]
ScreenJobs == [todo : {<<"wake">>, <<"sleep">>}, at : Places, own : {TRUE}]
CloseJobs == [todo : {<<"close">>}, at : Places, own : {TRUE}]
KnownJobs == {NoJob} \cup BootJobs \cup ScreenJobs \cup CloseJobs

(* The types of all variables but jobs, by group.                          *)
TrackingType ==
    /\ activeSerials \subseteq Serials
    /\ phase \in {"down", "up", "stopped"}
    /\ up \in BOOLEAN /\ stale \in BOOLEAN
DeviceType ==
    /\ plugged \in [Serials -> BOOLEAN]
    /\ behind \in [Serials -> BOOLEAN]
    /\ screen \in [Serials -> {"on", "off"}]
    /\ app \in [Serials -> BOOLEAN]
    /\ tunnel \in [Serials -> BOOLEAN]
    /\ late \in [Serials -> SUBSET Commands]
DpmsType ==
    /\ dpms \in {"on", "off", Nil}
    /\ pub \in [Publishers -> {"on", "off", Nil}]
    /\ noAppControl \in BOOLEAN
    /\ told \in [Serials -> BOOLEAN]
ExitType ==
    /\ ctxDone \in BOOLEAN
    /\ exit \in {"run", "closing", "exited"}
    /\ closing \subseteq Serials
    /\ lateLaunch \in [Serials -> BOOLEAN]
    /\ failed \in [Serials -> SUBSET {"reverse", "close"}]
PlainType == TrackingType /\ DeviceType /\ DpmsType /\ ExitType

(* Every goroutine is a known job, and cleanup's slot is cleanup's alone.  *)
JobsType ==
    /\ jobs \in [Serials -> [Slots -> KnownJobs]]
    /\ \A s \in Serials : jobs[s][0] \in {NoJob} \cup CloseJobs

TypeInv == PlainType /\ JobsType

(* A registered device without its tunnel has a bootstrap that will make   *)
(* it, or the command failed, or the tracker does not know yet that the    *)
(* device or the server's stream is lost.  Nothing is registered without a *)
(* stream, and the stream of a server that died is stale.                  *)
Booting(s) == \E i \in Slots : jobs[s][i] \in BootJobs
Covered(s) == Booting(s) \/ behind[s] \/ stale \/ "reverse" \in failed[s] \/ tunnel[s]
TunnelInv ==
    /\ phase = "down" => activeSerials = {}
    /\ ~up => stale \/ (phase # "up" /\ activeSerials = {})
    /\ \A s \in activeSerials : Covered(s)

(* Once cleanup's goroutine for a device is done, the app is closed, or    *)
(* the command failed, or the app was launched afterwards.                 *)
CloseInv ==
    exit # "run" =>
        \A s \in closing :
            jobs[s][0] = NoJob => ~app[s] \/ lateLaunch[s] \/ "close" \in failed[s]

(* With app control off nobody is told anything but to make tunnels.       *)
BypassInv ==
    noAppControl =>
        /\ exit # "run" => closing = {}
        /\ \A s \in Serials :
              /\ screen[s] = "off" /\ ~app[s] /\ ~told[s]
              /\ late[s] \subseteq {"reverse"}
              /\ \A i \in Slots : jobs[s][i].todo \in {<<>>, <<"reverse">>}

(* While a lone DPMS command decides over a screen, whoever is at work on  *)
(* the device either closes the app or carries the same command, no other  *)
(* is outstanding, and the screen is as commanded unless somebody still    *)
(* carries it.                                                             *)
Commanding(s) == told[s] /\ \A p \in Publishers : pub[p] = Nil
Carries(s, i) == jobs[s][i] \in ScreenJobs /\ jobs[s][i].todo = <<DpmsCommand(dpms)>>
SoleInv ==
    \A s \in Serials :
        /\ told[s] => dpms # Nil /\ late[s] = {}
        /\ Commanding(s) =>
              /\ \A i \in Slots : jobs[s][i] \in {NoJob} \cup CloseJobs \/ Carries(s, i)
              /\ screen[s] = dpms \/ \E i \in Slots : Carries(s, i)

--------------------------------------------------------------------------------
(* Jobs                                                                    *)

(* The lists of commands, taken apart.                                     *)
LEMMA Lists ==
    /\ <<>> \notin {<<"wake", "launch", "reverse">>, <<"launch", "reverse">>, <<"reverse">>,
                    <<"wake">>, <<"sleep">>, <<"close">>}
    /\ <<"close">> \notin {<<"wake">>, <<"sleep">>}
    /\ Len(<<"wake", "launch", "reverse">>) = 3 /\ Len(<<"launch", "reverse">>) = 2
    /\ \A c \in Commands : Len(<<c>>) = 1 /\ Head(<<c>>) = c
    /\ Head(<<"wake", "launch", "reverse">>) = "wake" /\ Head(<<"launch", "reverse">>) = "launch"
    /\ Tail(<<"wake", "launch", "reverse">>) = <<"launch", "reverse">>
    /\ Tail(<<"launch", "reverse">>) = <<"reverse">>
  BY DEF Commands

NatOrder == OpToRel(<, Nat)

(* A set of naturals has a least element.                                  *)
LEMMA Least ==
    ASSUME NEW T \in SUBSET Nat, T # {}
    PROVE  \E x \in T : \A y \in T : x <= y
<1>1. IsWellFoundedOn(NatOrder, Nat)
  BY NatLessThanWellFounded, Zenon DEF NatOrder
<1>2. PICK x \in T : \A y \in T : ~(<<y, x>> \in NatOrder)
  BY <1>1, WFMin
<1>3. \A y \in T : ~(y < x)
  BY <1>2 DEF NatOrder, OpToRel
<1> QED
  BY <1>3

(* A new goroutine takes the first slot that is free.                      *)
LEMMA FirstFree ==
    ASSUME NEW s, Free(s) # {}
    PROVE  LET k == CHOOSE i \in Free(s) : \A j \in Free(s) : i <= j
           IN  k \in Slots \ {0} /\ jobs[s][k] = NoJob
<1>1. Free(s) \subseteq Nat
  BY SessionAssumption DEF Free, Slots
<1>2. \E x \in Free(s) : \A y \in Free(s) : x <= y
  BY <1>1, Least
<1> QED
  BY <1>2 DEF Free

(* A job just started or just out of commands.                             *)
LEMMA KnownStarts ==
    /\ NoJob \in KnownJobs /\ NoJob \notin BootJobs \cup ScreenJobs \cup CloseJobs
    /\ NoJob.todo = <<>> /\ NoJob.at = "dial"
    /\ [todo |-> <<"close">>, at |-> "dial", own |-> TRUE] \in CloseJobs
    /\ [todo |-> BootCommands, at |-> "dial", own |-> FALSE] \in BootJobs
    /\ \A state : [todo |-> <<DpmsCommand(state)>>, at |-> "dial", own |-> TRUE] \in ScreenJobs
<1>1. NoJob \in KnownJobs
  BY DEF KnownJobs
<1>2. NoJob.todo = <<>> /\ NoJob.at = "dial"
  BY DEF NoJob
<1>3. NoJob \notin BootJobs \cup ScreenJobs \cup CloseJobs
  BY <1>2, Lists DEF BootJobs, ScreenJobs, CloseJobs
<1>4. [todo |-> <<"close">>, at |-> "dial", own |-> TRUE] \in CloseJobs
  BY DEF CloseJobs, Places
<1>5. BootCommands \in {<<"wake", "launch", "reverse">>, <<"launch", "reverse">>, <<"reverse">>}
  BY DEF BootCommands
<1>6. [todo |-> BootCommands, at |-> "dial", own |-> FALSE] \in BootJobs
  BY <1>5 DEF BootJobs, Places
<1>7. \A state : <<DpmsCommand(state)>> \in {<<"wake">>, <<"sleep">>}
  BY DEF DpmsCommand
<1>8. \A state : [todo |-> <<DpmsCommand(state)>>, at |-> "dial", own |-> TRUE] \in ScreenJobs
  BY <1>7 DEF ScreenJobs, Places
<1> QED
  BY <1>1, <1>2, <1>3, <1>4, <1>6, <1>8

(* Only the last command of a bootstrap makes the tunnel; it wakes and     *)
(* launches before.                                                        *)
LEMMA BootAdvances ==
    ASSUME NEW j \in BootJobs
    PROVE  \/ Head(j.todo) = "reverse" /\ Advanced(j) = NoJob
           \/ Head(j.todo) \in {"wake", "launch"} /\ Advanced(j) \in BootJobs
<1>1. CASE j.todo = <<"reverse">>
  BY <1>1, Lists DEF Advanced, Commands
<1>2. CASE j.todo = <<"launch", "reverse">>
  <2>1. Head(j.todo) = "launch" /\ Len(j.todo) = 2 /\ Tail(j.todo) = <<"reverse">>
    BY <1>2, Lists
  <2>2. Len(j.todo) # 1
    BY <2>1
  <2>3. Advanced(j) = [j EXCEPT !.todo = <<"reverse">>, !.at = "dial"]
    BY <2>1, <2>2, Zenon DEF Advanced
  <2> QED
    BY <2>1, <2>3 DEF BootJobs, Places
<1>3. CASE j.todo = <<"wake", "launch", "reverse">>
  <2>1. Head(j.todo) = "wake" /\ Len(j.todo) = 3 /\ Tail(j.todo) = <<"launch", "reverse">>
    BY <1>3, Lists
  <2>2. Len(j.todo) # 1
    BY <2>1
  <2>3. Advanced(j) = [j EXCEPT !.todo = <<"launch", "reverse">>, !.at = "dial"]
    BY <2>1, <2>2, Zenon DEF Advanced
  <2> QED
    BY <2>1, <2>3 DEF BootJobs, Places
<1> QED
  BY <1>1, <1>2, <1>3 DEF BootJobs

(* A screen command and cleanup's close are single commands.               *)
LEMMA OtherAdvances ==
    ASSUME NEW j \in ScreenJobs \cup CloseJobs
    PROVE  /\ Advanced(j) = NoJob
           /\ j \in CloseJobs => Head(j.todo) = "close"
           /\ j \in ScreenJobs => Head(j.todo) \in {"wake", "sleep"} /\ j.todo = <<Head(j.todo)>>
<1>1. j.todo \in {<<"wake">>, <<"sleep">>, <<"close">>}
  BY DEF ScreenJobs, CloseJobs
<1>2. Len(j.todo) = 1
  BY <1>1, Lists DEF Commands
<1>3. Advanced(j) = NoJob
  BY <1>2 DEF Advanced
<1>4. j \in CloseJobs => Head(j.todo) = "close"
  BY Lists DEF CloseJobs, Commands
<1>5. j \in ScreenJobs => Head(j.todo) \in {"wake", "sleep"} /\ j.todo = <<Head(j.todo)>>
  BY Lists DEF ScreenJobs, Commands
<1> QED
  BY <1>3, <1>4, <1>5

(* Where a job is in its dial does not change what it has left to do.      *)
LEMMA PlaceMoves ==
    ASSUME NEW j \in KnownJobs, j # NoJob, NEW place \in Places
    PROVE  LET m == [j EXCEPT !.at = place]
           IN  /\ m # NoJob /\ m.todo = j.todo
               /\ m \in BootJobs <=> j \in BootJobs
               /\ m \in ScreenJobs <=> j \in ScreenJobs
               /\ m \in CloseJobs <=> j \in CloseJobs
               /\ m \in KnownJobs
<1> DEFINE m == [j EXCEPT !.at = place]
<1>1. CASE j \in BootJobs
  <2>1. m \in BootJobs /\ m.todo = j.todo /\ m.own = FALSE /\ j.own = FALSE
    BY <1>1 DEF BootJobs
  <2> QED
    BY <1>1, <2>1, KnownStarts DEF ScreenJobs, CloseJobs, KnownJobs
<1>2. CASE j \in ScreenJobs
  <2>1. m \in ScreenJobs /\ m.todo = j.todo /\ m.own = TRUE /\ j.own = TRUE /\ j.todo # <<"close">>
    BY <1>2, Lists DEF ScreenJobs
  <2> QED
    BY <1>2, <2>1, KnownStarts DEF BootJobs, CloseJobs, KnownJobs
<1>3. CASE j \in CloseJobs
  <2>1. m \in CloseJobs /\ m.todo = j.todo /\ m.own = TRUE /\ j.own = TRUE /\ j.todo = <<"close">>
    BY <1>3 DEF CloseJobs
  <2>2. m \notin ScreenJobs /\ j \notin ScreenJobs
    BY <2>1, Lists DEF ScreenJobs
  <2> QED
    BY <1>3, <2>1, <2>2, KnownStarts DEF BootJobs, KnownJobs
<1> QED
  BY <1>1, <1>2, <1>3 DEF KnownJobs

(* One slot of one device is written, and no other.                        *)
LEMMA SlotUpdate ==
    ASSUME NEW A, NEW B, NEW C, NEW f \in [A -> [B -> C]], NEW a \in A, NEW b \in B, NEW v \in C
    PROVE  /\ [f EXCEPT ![a][b] = v] \in [A -> [B -> C]]
           /\ \A x \in A, y \in B : [f EXCEPT ![a][b] = v][x][y] = IF x = a /\ y = b THEN v ELSE f[x][y]
<1> DEFINE g == [f[a] EXCEPT ![b] = v]
           h == [f EXCEPT ![a] = g]
<1>1. g \in [B -> C] /\ \A y \in B : g[y] = IF y = b THEN v ELSE f[a][y]
  OBVIOUS
<1>2. [f EXCEPT ![a][b] = v] = h
  OBVIOUS
<1> HIDE DEF g
<1>3. h \in [A -> [B -> C]] /\ \A x \in A : h[x] = IF x = a THEN g ELSE f[x]
  BY <1>1
<1> HIDE DEF h
<1> QED
  BY <1>1, <1>2, <1>3

(* The same work, wherever its connection is.                              *)
SameWork(a, b) ==
    /\ b \in KnownJobs
    /\ a = NoJob <=> b = NoJob
    /\ b.todo = a.todo
    /\ b \in BootJobs <=> a \in BootJobs
    /\ b \in ScreenJobs <=> a \in ScreenJobs
    /\ b \in CloseJobs <=> a \in CloseJobs

(* A step that starts and ends no command.                                 *)
WorkKept ==
    /\ jobs' \in [Serials -> [Slots -> KnownJobs]]
    /\ \A s \in Serials, i \in Slots : SameWork(jobs[s][i], jobs'[s][i])

(* Broken connections lose no work.                                        *)
LEMMA BrokenKeeps ==
    ASSUME NEW js \in [Slots -> KnownJobs]
    PROVE  /\ Broken(js) \in [Slots -> KnownJobs]
           /\ \A i \in Slots : SameWork(js[i], Broken(js)[i])
<1>1. ASSUME NEW i \in Slots PROVE Broken(js)[i] \in KnownJobs /\ SameWork(js[i], Broken(js)[i])
  <2>1. CASE js[i].at = "sent"
    <3>1. Broken(js)[i] = [js[i] EXCEPT !.at = "broken"]
      BY <2>1 DEF Broken
    <3>2. js[i] # NoJob /\ "broken" \in Places
      BY <2>1, KnownStarts DEF Places
    <3>3. SameWork(js[i], [js[i] EXCEPT !.at = "broken"])
      BY <3>2, PlaceMoves DEF SameWork
    <3> QED
      BY <3>1, <3>3 DEF SameWork
  <2>2. CASE js[i].at # "sent"
    BY <2>2 DEF Broken, SameWork
  <2> QED
    BY <2>1, <2>2
<1>2. Broken(js) \in [Slots -> KnownJobs]
  BY <1>1 DEF Broken
<1> QED
  BY <1>1, <1>2

(* What is at work on a device is kept when devices come and go, when the  *)
(* server dies and while connections are made.                             *)
LEMMA KeepsWork ==
    ASSUME TypeInv,
           \/ UNCHANGED jobs
           \/ ServerStop
           \/ \E s \in Serials : Unplug(s)
           \/ \E s \in Serials, i \in Slots : Dial(s, i)
    PROVE  WorkKept
<1>1. jobs \in [Serials -> [Slots -> KnownJobs]]
  BY DEF TypeInv, JobsType
<1>2. CASE UNCHANGED jobs
  BY <1>1, <1>2 DEF WorkKept, SameWork
<1>3. CASE ServerStop
  <2>1. jobs' = [s \in Serials |-> Broken(jobs[s])]
    BY <1>3 DEF ServerStop
  <2>2. \A s \in Serials : Broken(jobs[s]) \in [Slots -> KnownJobs]
    BY <1>1, BrokenKeeps
  <2>3. \A s \in Serials, i \in Slots : SameWork(jobs[s][i], Broken(jobs[s])[i])
    BY <1>1, BrokenKeeps
  <2> QED
    BY <2>1, <2>2, <2>3 DEF WorkKept
<1>4. ASSUME NEW s \in Serials, Unplug(s) PROVE WorkKept
  <2>1. jobs' = [jobs EXCEPT ![s] = Broken(jobs[s])]
    BY <1>4 DEF Unplug
  <2> DEFINE b == Broken(jobs[s])
  <2>2. b \in [Slots -> KnownJobs] /\ \A i \in Slots : SameWork(jobs[s][i], b[i])
    BY <1>1, BrokenKeeps
  <2>3. jobs' = [jobs EXCEPT ![s] = b]
    BY <2>1
  <2> HIDE DEF b
  <2>4. jobs' \in [Serials -> [Slots -> KnownJobs]] /\ \A x \in Serials : jobs'[x] = IF x = s THEN b ELSE jobs[x]
    BY <1>1, <2>2, <2>3
  <2>5. \A x \in Serials, i \in Slots : SameWork(jobs[x][i], jobs[x][i])
    BY <1>1 DEF SameWork
  <2> QED
    BY <2>2, <2>4, <2>5 DEF WorkKept
<1>5. ASSUME NEW s \in Serials, NEW i \in Slots, Dial(s, i) PROVE WorkKept
  <2> DEFINE m == [jobs[s][i] EXCEPT !.at = "sent"]
  <2>1. jobs' = [jobs EXCEPT ![s][i] = m]
    BY <1>5 DEF Dial
  <2>2. jobs[s][i] \in KnownJobs /\ jobs[s][i] # NoJob /\ "sent" \in Places
    BY <1>1, <1>5, KnownStarts DEF Dial, Places
  <2>3. SameWork(jobs[s][i], m)
    BY <2>2, PlaceMoves DEF SameWork
  <2>a. m \in KnownJobs
    BY <2>3 DEF SameWork
  <2> HIDE DEF m
  <2> DEFINE w == [jobs EXCEPT ![s][i] = m]
  <2>b. /\ w \in [Serials -> [Slots -> KnownJobs]]
        /\ \A x \in Serials, y \in Slots : w[x][y] = IF x = s /\ y = i THEN m ELSE jobs[x][y]
    BY <1>1, <2>a, SlotUpdate, Zenon
  <2>4. /\ jobs' \in [Serials -> [Slots -> KnownJobs]]
        /\ \A x \in Serials, y \in Slots : jobs'[x][y] = IF x = s /\ y = i THEN m ELSE jobs[x][y]
    BY <2>1, <2>b, Zenon
  <2>5. \A x \in Serials, y \in Slots : SameWork(jobs[x][y], jobs[x][y])
    BY <1>1 DEF SameWork
  <2> QED
    BY <2>3, <2>4, <2>5 DEF WorkKept
<1> QED
  BY <1>2, <1>3, <1>4, <1>5

(* A goroutine that is started takes a slot of its own, and not cleanup's. *)
Started(s, j) ==
    /\ jobs'[s] \in [Slots -> KnownJobs]
    /\ \E k \in Slots \ {0} :
          /\ jobs[s][k] = NoJob
          /\ \A i \in Slots : jobs'[s][i] = IF i = k THEN j ELSE jobs[s][i]

(* Spawned uses a free slot, never cleanup's.                              *)
LEMMA SpawnedStarts ==
    ASSUME TypeInv, NEW s \in Serials, Free(s) # {}, NEW todo, NEW own,
           [todo |-> todo, at |-> "dial", own |-> own] \in KnownJobs, jobs'[s] = Spawned(s, todo, own)
    PROVE  Started(s, [todo |-> todo, at |-> "dial", own |-> own])
<1> DEFINE k == CHOOSE i \in Free(s) : \A j \in Free(s) : i <= j
           new == [todo |-> todo, at |-> "dial", own |-> own]
<1>1. k \in Slots \ {0} /\ jobs[s][k] = NoJob
  BY FirstFree
<1>2. jobs'[s] = [jobs[s] EXCEPT ![k] = new]
  BY Zenon DEF Spawned
<1>3. jobs[s] \in [Slots -> KnownJobs]
  BY DEF TypeInv, JobsType
<1> HIDE DEF k
<1>4. new \in KnownJobs
  OBVIOUS
<1> HIDE DEF new
<1>5. jobs'[s] \in [Slots -> KnownJobs] /\ \A i \in Slots : jobs'[s][i] = IF i = k THEN new ELSE jobs[s][i]
  BY <1>1, <1>2, <1>3, <1>4
<1> QED
  BY <1>1, <1>5 DEF Started, new

(* A command that is over leaves the goroutine the rest of its list.       *)
AdvancedAt(s, i) ==
    /\ jobs' \in [Serials -> [Slots -> KnownJobs]]
    /\ \A x \in Serials, y \in Slots :
          jobs'[x][y] = IF x = s /\ y = i THEN Advanced(jobs[s][i]) ELSE jobs[x][y]

(* A command that took effect or failed is over.                           *)
LEMMA Advances ==
    ASSUME TypeInv, NEW s \in Serials, NEW i \in Slots, Effect(s, i) \/ CommandFails(s, i)
    PROVE  AdvancedAt(s, i) /\ jobs[s][i] \in BootJobs \cup ScreenJobs \cup CloseJobs
<1> DEFINE v == Advanced(jobs[s][i])
<1>1. jobs \in [Serials -> [Slots -> KnownJobs]]
  BY DEF TypeInv, JobsType
<1>2. jobs[s][i] \in BootJobs \cup ScreenJobs \cup CloseJobs
  BY <1>1, KnownStarts DEF Effect, TakesEffect, CommandFails, KnownJobs
<1>3. v \in KnownJobs
  BY <1>2, BootAdvances, OtherAdvances, KnownStarts DEF KnownJobs
<1>4. jobs' = [jobs EXCEPT ![s][i] = v]
  BY DEF Effect, TakesEffect, CommandFails
<1> HIDE DEF v
<1>5. /\ jobs' \in [Serials -> [Slots -> KnownJobs]]
      /\ \A x \in Serials, y \in Slots : jobs'[x][y] = IF x = s /\ y = i THEN v ELSE jobs[x][y]
  BY <1>1, <1>3, <1>4, SlotUpdate, Zenon
<1> QED
  BY <1>2, <1>5 DEF AdvancedAt, v

(* cleanupDevices starts its goroutines and nobody else's.                 *)
LEMMA CleanupStarts ==
    ASSUME TypeInv, CleanupDevices
    PROVE  /\ jobs' \in [Serials -> [Slots -> KnownJobs]]
           /\ \A s \in Serials, i \in Slots :
                 \/ jobs'[s][i] = jobs[s][i] /\ ~(s \in closing' /\ i = 0)
                 \/ jobs'[s][i] \in CloseJobs /\ s \in closing' /\ i = 0
<1> DEFINE new == [todo |-> <<"close">>, at |-> "dial", own |-> TRUE]
<1>1. jobs \in [Serials -> [Slots -> KnownJobs]]
  BY DEF TypeInv, JobsType
<1>2. new \in CloseJobs /\ new \in KnownJobs /\ 0 \in Slots
  BY KnownStarts, SessionAssumption DEF KnownJobs, Slots
<1>3. jobs' = [s \in Serials |-> IF s \in closing' THEN [jobs[s] EXCEPT ![0] = new] ELSE jobs[s]]
  BY DEF CleanupDevices
<1> HIDE DEF new
<1>4. ASSUME NEW s \in Serials
      PROVE  /\ [jobs[s] EXCEPT ![0] = new] \in [Slots -> KnownJobs]
             /\ \A i \in Slots : [jobs[s] EXCEPT ![0] = new][i] = IF i = 0 THEN new ELSE jobs[s][i]
  BY <1>1, <1>2
<1>5. ASSUME NEW s \in Serials
      PROVE  /\ jobs'[s] \in [Slots -> KnownJobs]
             /\ \A i \in Slots : jobs'[s][i] = IF s \in closing' /\ i = 0 THEN new ELSE jobs[s][i]
  <2>1. CASE s \in closing'
    <3>1. jobs'[s] = [jobs[s] EXCEPT ![0] = new]
      BY <1>3, <2>1
    <3> QED
      BY <1>4, <2>1, <3>1
  <2>2. CASE s \notin closing'
    BY <1>1, <1>3, <2>2
  <2> QED
    BY <2>1, <2>2
<1>6. jobs' \in [Serials -> [Slots -> KnownJobs]]
  BY <1>3, <1>5
<1> QED
  BY <1>2, <1>5, <1>6

(* The goroutines a DPMS event starts, one per registered device.          *)
LEMMA DpmsStarts ==
    ASSUME TypeInv, NEW p \in Publishers, DpmsSpawn(p), ~noAppControl
    PROVE  /\ jobs' \in [Serials -> [Slots -> KnownJobs]]
           /\ \A s \in Serials \ activeSerials : jobs'[s] = jobs[s]
           /\ \A s \in activeSerials :
                 Started(s, [todo |-> <<DpmsCommand(pub[p])>>, at |-> "dial", own |-> TRUE])
<1> DEFINE todo == <<DpmsCommand(pub[p])>>
           new == [todo |-> todo, at |-> "dial", own |-> TRUE]
<1>1. new \in KnownJobs
  BY KnownStarts DEF KnownJobs
<1>2. /\ jobs' = [s \in Serials |-> IF s \in activeSerials THEN Spawned(s, todo, TRUE) ELSE jobs[s]]
      /\ \A s \in activeSerials : Free(s) # {}
  BY DEF DpmsSpawn
<1> HIDE DEF todo
<1>3. ASSUME NEW s \in activeSerials PROVE Started(s, new)
  <2>1. s \in Serials /\ jobs'[s] = Spawned(s, todo, TRUE)
    BY <1>2 DEF TypeInv, PlainType, TrackingType
  <2> QED
    BY <1>1, <1>2, <2>1, SpawnedStarts
<1>4. \A s \in Serials \ activeSerials : jobs'[s] = jobs[s]
  BY <1>2
<1>5. \A s \in Serials : jobs'[s] \in [Slots -> KnownJobs]
  BY <1>3, <1>4 DEF Started, TypeInv, JobsType
<1>6. jobs' \in [Serials -> [Slots -> KnownJobs]]
  BY <1>2, <1>5
<1> QED
  BY <1>3, <1>4, <1>6 DEF todo

(* The bootstrap of a device that comes online.                            *)
LEMMA OnlineStarts ==
    ASSUME TypeInv, NEW s \in Serials, HandleOnline(s)
    PROVE  /\ jobs' \in [Serials -> [Slots -> KnownJobs]]
           /\ \A x \in Serials \ {s} : jobs'[x] = jobs[x]
           /\ Started(s, [todo |-> BootCommands, at |-> "dial", own |-> FALSE])
<1> DEFINE new == [todo |-> BootCommands, at |-> "dial", own |-> FALSE]
           js == Spawned(s, BootCommands, FALSE)
<1>1. new \in KnownJobs
  BY KnownStarts DEF KnownJobs
<1>2. jobs' = [jobs EXCEPT ![s] = js] /\ Free(s) # {}
  BY DEF HandleOnline
<1>3. jobs \in [Serials -> [Slots -> KnownJobs]]
  BY DEF TypeInv, JobsType
<1> HIDE DEF js
<1>4. jobs'[s] = js /\ \A x \in Serials \ {s} : jobs'[x] = jobs[x]
  BY <1>2, <1>3
<1>5. Started(s, new)
  BY <1>1, <1>2, <1>4, SpawnedStarts DEF js
<1>6. jobs' \in [Serials -> [Slots -> KnownJobs]]
  BY <1>2, <1>3, <1>4, <1>5 DEF Started
<1> QED
  BY <1>4, <1>5, <1>6

--------------------------------------------------------------------------------
(* Type correctness                                                        *)

(* The initial types.                                                      *)
LEMMA TypeInitially == Init => TypeInv
<1> SUFFICES ASSUME Init PROVE TypeInv
  OBVIOUS
<1>1. PlainType
  <2>1. up \in BOOLEAN /\ stale \in BOOLEAN /\ noAppControl \in BOOLEAN /\ ctxDone \in BOOLEAN
    BY Zenon DEF Init
  <2>2. activeSerials = {} /\ phase = "down"
    BY DEF Init, Registry!Init
  <2> QED
    BY <2>1, <2>2 DEF Init, PlainType, TrackingType, DeviceType, DpmsType, ExitType
<1>2. JobsType
  BY KnownStarts, SessionAssumption DEF Init, JobsType, Slots
<1> QED
  BY <1>1, <1>2 DEF TypeInv

(* Every step leaves known jobs in their slots.                            *)
LEMMA JobsStep ==
    ASSUME TypeInv, [Next]_vars
    PROVE  JobsType'
<1>1. ASSUME WorkKept PROVE JobsType'
  BY <1>1, SessionAssumption DEF WorkKept, SameWork, TypeInv, JobsType, Slots
<1>2. CASE UNCHANGED jobs \/ ServerStop \/ (\E s \in Serials : Unplug(s))
           \/ \E s \in Serials, i \in Slots : Dial(s, i)
  BY <1>1, <1>2, KeepsWork
<1>3. ASSUME NEW s \in Serials, HandleOnline(s) PROVE JobsType'
  BY <1>3, OnlineStarts, SessionAssumption DEF Started, TypeInv, JobsType, Slots
<1>4. ASSUME NEW p \in Publishers, DpmsSpawn(p) PROVE JobsType'
  <2>1. CASE noAppControl
    BY <1>2, <1>4, <2>1 DEF DpmsSpawn
  <2>2. CASE ~noAppControl
    <3>1. ASSUME NEW s \in Serials PROVE jobs'[s][0] = jobs[s][0]
      <4>1. CASE s \notin activeSerials
        BY <1>4, <2>2, <4>1, DpmsStarts
      <4>2. CASE s \in activeSerials
        <5>1. Started(s, [todo |-> <<DpmsCommand(pub[p])>>, at |-> "dial", own |-> TRUE])
          BY <1>4, <2>2, <4>2, DpmsStarts
        <5>2. 0 \in Slots
          BY SessionAssumption DEF Slots
        <5> QED
          BY <5>1, <5>2 DEF Started
      <4> QED
        BY <4>1, <4>2
    <3> QED
      BY <1>4, <2>2, <3>1, DpmsStarts DEF TypeInv, JobsType
  <2> QED
    BY <2>1, <2>2
<1>5. ASSUME NEW s \in Serials, NEW i \in Slots, Effect(s, i) \/ CommandFails(s, i) PROVE JobsType'
  <2>1. AdvancedAt(s, i)
    BY <1>5, Advances
  <2>2. jobs[s][0] \in CloseJobs => Advanced(jobs[s][0]) = NoJob
    BY OtherAdvances
  <2>3. jobs[s][i] # NoJob
    BY <1>5, Advances, KnownStarts
  <2> QED
    BY <2>1, <2>2, <2>3, SessionAssumption DEF AdvancedAt, TypeInv, JobsType, Slots
<1>6. CASE CleanupDevices
  BY <1>6, CleanupStarts, SessionAssumption DEF TypeInv, JobsType, Slots
<1>7. CASE Exit
  BY <1>7, KnownStarts, SessionAssumption DEF Exit, JobsType, Slots
<1>8. CASE World
  BY <1>2, <1>8 DEF World, ServerStart, Cancel, Plug
<1>9. CASE Tracking
  BY <1>2, <1>3, <1>9 DEF Tracking, StreamEstablished, StreamLost, TrackerStops, HandleOffline
<1>10. CASE Publish
  BY <1>2, <1>4, <1>10 DEF Publish, DpmsStore
<1>11. ASSUME NEW s \in Serials, Afterwards(s) PROVE JobsType'
  BY <1>2, <1>11 DEF Afterwards, LateEffect
<1> QED
  BY <1>2, <1>5, <1>6, <1>7, <1>8, <1>9, <1>10, <1>11 DEF Next, Work, vars

(* Every step keeps the other types.                                       *)
LEMMA PlainStep ==
    ASSUME TypeInv, [Next]_vars
    PROVE  PlainType'
<1>1. TrackingType /\ DeviceType /\ DpmsType /\ ExitType
  BY DEF TypeInv, PlainType
<1> USE DEF PlainType, registryVars, deviceVars, exitVars, dpmsVars, historyVars
<1>2. CASE ServerStop \/ ServerStart \/ Cancel
  <2> USE <1>1, <1>2 DEF ServerStop, ServerStart, Cancel
  <2>1. (phase # "down") \in BOOLEAN
    OBVIOUS
  <2>2. TrackingType'
    BY <2>1 DEF TrackingType
  <2>3. DeviceType' /\ DpmsType'
    BY DEF DeviceType, DpmsType
  <2>4. ExitType'
    BY DEF ExitType
  <2> QED
    BY <2>2, <2>3, <2>4
<1>12. ASSUME NEW s \in Serials, Plug(s) \/ Unplug(s) PROVE PlainType'
  <2> USE <1>1, <1>12 DEF Plug, Unplug
  <2>1. TrackingType' /\ ExitType' /\ DpmsType'
    BY DEF TrackingType, ExitType, DpmsType
  <2>2. (s \in activeSerials) \in BOOLEAN
    OBVIOUS
  <2>3. DeviceType'
    BY <2>2 DEF DeviceType
  <2> QED
    BY <2>1, <2>3
<1>3. CASE Tracking
  <2> USE <1>1, <1>3 DEF Tracking, StreamEstablished, StreamLost, TrackerStops, HandleOnline, HandleOffline,
              Registry!Establish, Registry!Lose, Registry!Stop, Registry!Attach, Registry!Detach
  <2>1. TrackingType'
    BY DEF TrackingType
  <2>2. DeviceType'
    BY DEF DeviceType
  <2>3. DpmsType'
    BY DEF DpmsType
  <2>4. ExitType'
    BY DEF ExitType
  <2> QED
    BY <2>1, <2>2, <2>3, <2>4
<1>4. ASSUME NEW p \in Publishers, DpmsSpawn(p) PROVE PlainType'
  <2> USE <1>1, <1>4 DEF DpmsSpawn
  <2>1. TrackingType' /\ DeviceType' /\ ExitType'
    BY DEF TrackingType, DeviceType, ExitType
  <2>2. told' \in [Serials -> BOOLEAN]
    BY DEF DpmsType
  <2>3. DpmsType'
    BY <2>2 DEF DpmsType
  <2> QED
    BY <2>1, <2>3
<1>5. ASSUME NEW p \in Publishers, NEW state \in {"on", "off"}, DpmsStore(p, state) PROVE PlainType'
  BY <1>1, <1>5 DEF DpmsStore, TrackingType, DeviceType, DpmsType, ExitType
<1>6. ASSUME NEW s \in Serials, NEW i \in Slots, Dial(s, i) PROVE PlainType'
  BY <1>1, <1>6 DEF Dial, TrackingType, DeviceType, DpmsType, ExitType
<1>7. ASSUME NEW s \in Serials, NEW i \in Slots, Effect(s, i) PROVE PlainType'
  <2> USE <1>1, <1>7 DEF Effect, TakesEffect
  <2>1. TrackingType' /\ DpmsType'
    BY DEF TrackingType, DpmsType
  <2>2. DeviceType'
    BY DEF DeviceType
  <2>3. ExitType'
    BY DEF ExitType
  <2> QED
    BY <2>1, <2>2, <2>3
<1>8. ASSUME NEW s \in Serials, NEW i \in Slots, CommandFails(s, i) PROVE PlainType'
  <2>1. Head(jobs[s][i].todo) \in Commands
    BY <1>8, Advances, BootAdvances, OtherAdvances DEF Commands
  <2> DEFINE cmd == Head(jobs[s][i].todo)
  <2>2. late' = late \/ late' = [late EXCEPT ![s] = @ \cup ({cmd} \cap Lingering)]
    BY <1>8 DEF CommandFails
  <2> HIDE DEF cmd
  <2>3. late' \in [Serials -> SUBSET Commands]
    BY <1>1, <2>1, <2>2 DEF DeviceType, cmd
  <2> USE <1>1, <1>8 DEF CommandFails
  <2>4. TrackingType' /\ DpmsType'
    BY DEF TrackingType, DpmsType
  <2>5. DeviceType'
    BY <2>3 DEF DeviceType
  <2>6. ExitType'
    BY DEF ExitType
  <2> QED
    BY <2>4, <2>5, <2>6
<1>13. ASSUME NEW s \in Serials, NEW cmd \in late[s], LateEffect(s, cmd) PROVE PlainType'
  <2> USE <1>1, <1>13 DEF LateEffect, TakesEffect
  <2>1. TrackingType' /\ DpmsType'
    BY DEF TrackingType, DpmsType
  <2>2. DeviceType'
    BY DEF DeviceType
  <2>3. ExitType'
    BY DEF ExitType
  <2> QED
    BY <2>1, <2>2, <2>3
<1>9. CASE CleanupDevices
  BY <1>1, <1>9 DEF CleanupDevices, TrackingType, DeviceType, DpmsType, ExitType
<1>10. CASE Exit
  <2>1. stale' \in BOOLEAN
    BY <1>10, Zenon DEF Exit
  <2> QED
    BY <1>1, <1>10, <2>1 DEF Exit, TrackingType, DeviceType, DpmsType, ExitType
<1>11. CASE UNCHANGED vars
  BY <1>1, <1>11 DEF vars, TrackingType, DeviceType, DpmsType, ExitType
<1> QED
  BY <1>2, <1>3, <1>4, <1>5, <1>6, <1>7, <1>8, <1>9, <1>10, <1>11, <1>12, <1>13
     DEF Next, World, Publish, Work, Afterwards

(* Together, every step keeps the types.                                   *)
LEMMA TypeStep == TypeInv /\ [Next]_vars => TypeInv'
  BY JobsStep, PlainStep DEF TypeInv

(* A known job is one of ADB commands.                                     *)
LEMMA KnownAreJobs == KnownJobs \subseteq Jobs
<1>1. ASSUME NEW c \in Commands PROVE <<c>> \in [1..1 -> Commands]
  BY <1>1
<1>2. /\ <<"launch", "reverse">> \in [1..2 -> Commands]
      /\ <<"wake", "launch", "reverse">> \in [1..3 -> Commands]
      /\ <<>> \in [1..0 -> Commands]
  BY DEF Commands
<1>3. \A n \in 0..3 : [1..n -> Commands] \subseteq UNION {[1..m -> Commands] : m \in 0..3}
  OBVIOUS
<1>4. {<<>>, <<"wake", "launch", "reverse">>, <<"launch", "reverse">>, <<"reverse">>, <<"wake">>,
       <<"sleep">>, <<"close">>} \subseteq UNION {[1..n -> Commands] : n \in 0..3}
  BY <1>1, <1>2, <1>3 DEF Commands
<1> DEFINE Lists4 == UNION {[1..n -> Commands] : n \in 0..3}
<1> HIDE DEF Lists4
<1>5. {<<>>, <<"wake", "launch", "reverse">>, <<"launch", "reverse">>, <<"reverse">>, <<"wake">>,
       <<"sleep">>, <<"close">>} \subseteq Lists4
  BY <1>4, Zenon DEF Lists4
<1> DEFINE All == [todo : Lists4, at : {"dial", "sent", "broken"}, own : BOOLEAN]
<1>6. NoJob \in All
  BY <1>5 DEF NoJob
<1>7. BootJobs \subseteq All
  BY <1>5 DEF BootJobs, Places
<1>8. ScreenJobs \subseteq All
  BY <1>5 DEF ScreenJobs, Places
<1>9. CloseJobs \subseteq All
  BY <1>5 DEF CloseJobs, Places
<1> HIDE DEF All
<1>10. KnownJobs \subseteq All
  BY <1>6, <1>7, <1>8, <1>9 DEF KnownJobs
<1> QED
  BY <1>10, Zenon DEF Jobs, Lists4, All

(* Type correctness: whatever breaks, a goroutine holds ADB commands only. *)
THEOREM SessionTypes == Spec => []TypeOK
<1>1. TypeInv => TypeOK
  BY KnownAreJobs DEF TypeInv, PlainType, TrackingType, DeviceType, DpmsType, ExitType, JobsType, TypeOK
<1> QED
  BY <1>1, TypeInitially, TypeStep, PTL DEF Spec

--------------------------------------------------------------------------------
(* Tunnels                                                                 *)

(* A bootstrap goes on while nobody ends its commands.                     *)
LEMMA BootingKept ==
    ASSUME TypeInv, NEW s \in Serials, Booting(s),
           \/ WorkKept
           \/ jobs'[s] = jobs[s]
           \/ \E j : Started(s, j)
           \/ CleanupDevices
    PROVE  Booting(s)'
<1>1. PICK i \in Slots : jobs[s][i] \in BootJobs
  BY DEF Booting
<1>2. i # 0
  <2>1. \A j \in CloseJobs : j.own = TRUE
    BY DEF CloseJobs
  <2>2. \A j \in BootJobs : j.own = FALSE
    BY DEF BootJobs
  <2> QED
    BY <1>1, <2>1, <2>2, KnownStarts DEF TypeInv, JobsType
<1>3. jobs'[s][i] \in BootJobs
  <2>1. CASE WorkKept
    BY <1>1, <2>1 DEF WorkKept, SameWork
  <2>2. CASE jobs'[s] = jobs[s]
    BY <1>1, <2>2
  <2>3. ASSUME NEW j, Started(s, j) PROVE jobs'[s][i] \in BootJobs
    BY <1>1, <2>3, KnownStarts DEF Started
  <2>4. CASE CleanupDevices
    BY <1>1, <1>2, <2>4, CleanupStarts
  <2> QED
    BY <2>1, <2>2, <2>3, <2>4
<1> QED
  BY <1>3 DEF Booting

(* Every step keeps a registered device with its tunnel, or with a reason  *)
(* to lack it.                                                             *)
LEMMA TunnelStep == TypeInv /\ TunnelInv /\ [Next]_vars => TunnelInv'
<1> SUFFICES ASSUME TypeInv, TunnelInv, [Next]_vars PROVE TunnelInv'
  OBVIOUS
<1>0. /\ activeSerials \subseteq Serials /\ up \in BOOLEAN /\ stale \in BOOLEAN
      /\ behind \in [Serials -> BOOLEAN] /\ tunnel \in [Serials -> BOOLEAN]
      /\ failed \in [Serials -> SUBSET {"reverse", "close"}]
  BY DEF TypeInv, PlainType, TrackingType, DeviceType, ExitType
<1> USE DEF registryVars, deviceVars, historyVars
\* A step that leaves the registry, the server and the tunnels alone.
<1>1. ASSUME UNCHANGED <<registryVars, up, stale, behind, tunnel, failed>>,
             \A s \in Serials : Booting(s) => Booting(s)'
      PROVE  TunnelInv'
  BY <1>0, <1>1 DEF TunnelInv, Covered
<1>2. CASE UNCHANGED <<registryVars, up, stale, behind, tunnel, failed, jobs>>
  BY <1>1, <1>2, KeepsWork, BootingKept
<1>3. CASE ServerStop
  <2>1. stale' \/ activeSerials = {}
    BY <1>3, Zenon DEF ServerStop, TunnelInv
  <2>2. phase = "up" => stale'
    BY <1>3 DEF ServerStop
  <2>3. UNCHANGED <<activeSerials, phase>>
    BY <1>3 DEF ServerStop
  <2> QED
    BY <2>1, <2>2, <2>3 DEF TunnelInv, Covered
<1>4. CASE ServerStart
  <2>1. \A s \in Serials : Booting(s) => Booting(s)'
    BY <1>4, KeepsWork, BootingKept DEF ServerStart
  <2> QED
    BY <1>0, <1>4, <2>1 DEF ServerStart, TunnelInv, Covered
<1>5. ASSUME NEW s \in Serials, Unplug(s) PROVE TunnelInv'
  <2>1. \A x \in Serials : Booting(x) => Booting(x)'
    BY <1>5, KeepsWork, BootingKept
  <2>2. UNCHANGED <<registryVars, up, stale, failed>>
    BY <1>5 DEF Unplug
  <2>3. s \in activeSerials => behind'[s]
    BY <1>0, <1>5 DEF Unplug
  <2>4. \A x \in Serials \ {s} : behind'[x] = behind[x] /\ tunnel'[x] = tunnel[x]
    BY <1>0, <1>5 DEF Unplug
  <2> QED
    BY <1>0, <2>1, <2>2, <2>3, <2>4 DEF TunnelInv, Covered
<1>6. ASSUME NEW s \in Serials, HandleOnline(s) PROVE TunnelInv'
  <2>1. \A x \in Serials \ {s} : Booting(x) => Booting(x)'
    BY <1>6, OnlineStarts, BootingKept
  <2>2. Booting(s)'
    <3>1. PICK k \in Slots : jobs'[s][k] = [todo |-> BootCommands, at |-> "dial", own |-> FALSE]
      BY <1>6, OnlineStarts DEF Started
    <3> QED
      BY <3>1, KnownStarts DEF Booting
  <2>3. \A x \in Serials \ {s} : behind'[x] = behind[x] /\ failed'[x] = failed[x]
    BY <1>0, <1>6 DEF HandleOnline
  <2>4. UNCHANGED <<up, stale, tunnel, phase>> /\ activeSerials' = activeSerials \cup {s} /\ phase = "up"
    BY <1>6 DEF HandleOnline, Registry!Attach
  <2>5. \A x \in activeSerials' : Covered(x)'
    BY <1>0, <2>1, <2>2, <2>3, <2>4 DEF TunnelInv, Covered
  <2> QED
    BY <2>4, <2>5 DEF TunnelInv
<1>7. ASSUME NEW s \in Serials, HandleOffline(s) PROVE TunnelInv'
  <2>1. \A x \in Serials : Booting(x) => Booting(x)'
    BY <1>7, KeepsWork, BootingKept DEF HandleOffline
  <2>2. \A x \in Serials \ {s} : behind'[x] = behind[x] /\ failed'[x] = failed[x]
    BY <1>0, <1>7 DEF HandleOffline
  <2>3. UNCHANGED <<up, stale, tunnel, phase>> /\ activeSerials' = activeSerials \ {s} /\ phase = "up"
    BY <1>7 DEF HandleOffline, Registry!Detach
  <2> QED
    BY <1>0, <2>1, <2>2, <2>3 DEF TunnelInv, Covered
<1>8. CASE StreamEstablished
  BY <1>8 DEF StreamEstablished, Registry!Establish, TunnelInv, Covered
<1>9. CASE StreamLost
  BY <1>9 DEF StreamLost, Registry!Lose, TunnelInv, Covered
<1>10. CASE TrackerStops
  <2>1. \A s \in Serials : Booting(s) => Booting(s)'
    BY <1>10, KeepsWork, BootingKept DEF TrackerStops
  <2> QED
    BY <1>0, <1>10, <2>1 DEF TrackerStops, Registry!Stop, TunnelInv, Covered
<1>11. ASSUME NEW p \in Publishers, DpmsSpawn(p) PROVE TunnelInv'
  <2>1. CASE noAppControl
    BY <1>2, <1>11, <2>1 DEF DpmsSpawn
  <2>2. CASE ~noAppControl
    BY <1>0, <1>1, <1>11, <2>2, DpmsStarts, BootingKept DEF DpmsSpawn
  <2> QED
    BY <2>1, <2>2
<1>12. ASSUME NEW s \in Serials, NEW i \in Slots, Dial(s, i) PROVE TunnelInv'
  BY <1>1, <1>12, KeepsWork, BootingKept DEF Dial
<1>13. ASSUME NEW s \in Serials, NEW i \in Slots, Effect(s, i) \/ CommandFails(s, i) PROVE TunnelInv'
  <2>1. AdvancedAt(s, i) /\ jobs[s][i] \in BootJobs \cup ScreenJobs \cup CloseJobs
    BY <1>13, Advances
  <2>2. \A x \in Serials \ {s} : Booting(x) => Booting(x)'
    BY <2>1 DEF AdvancedAt, Booting
  <2>3. UNCHANGED <<registryVars, up, stale, behind>>
    BY <1>13 DEF Effect, TakesEffect, CommandFails
  <2>4. \A x \in Serials : (tunnel[x] => tunnel'[x]) /\ ("reverse" \in failed[x] => "reverse" \in failed'[x])
    <3>1. CASE Effect(s, i)
      BY <1>0, <3>1 DEF Effect, TakesEffect
    <3>2. CASE CommandFails(s, i)
      BY <1>0, <3>2 DEF CommandFails
    <3> QED
      BY <1>13, <3>1, <3>2
  <2>5. Booting(s) => Booting(s)' \/ tunnel'[s] \/ "reverse" \in failed'[s]
    <3>1. CASE jobs[s][i] \notin BootJobs \/ Head(jobs[s][i].todo) # "reverse"
      BY <2>1, <3>1, BootAdvances DEF AdvancedAt, Booting
    <3>2. CASE Head(jobs[s][i].todo) = "reverse"
      <4>1. CASE Effect(s, i)
        BY <1>0, <3>2, <4>1 DEF Effect, TakesEffect
      <4>2. CASE CommandFails(s, i)
        BY <1>0, <3>2, <4>2 DEF CommandFails
      <4> QED
        BY <1>13, <4>1, <4>2
    <3> QED
      BY <3>1, <3>2
  <2> QED
    BY <1>0, <2>2, <2>3, <2>4, <2>5 DEF TunnelInv, Covered
<1>14. CASE CleanupDevices
  BY <1>1, <1>14, BootingKept DEF CleanupDevices
<1>15. CASE Exit
  BY <1>15 DEF Exit, TunnelInv
<1>16. CASE World
  BY <1>2, <1>3, <1>4, <1>5, <1>16 DEF World, Cancel, Plug
<1>17. CASE Tracking
  BY <1>6, <1>7, <1>8, <1>9, <1>10, <1>17 DEF Tracking
<1>18. CASE Publish
  BY <1>2, <1>11, <1>18 DEF Publish, DpmsStore
<1>19. ASSUME NEW s \in Serials, NEW cmd \in late[s], LateEffect(s, cmd) PROVE TunnelInv'
  <2>1. \A x \in Serials : Booting(x) => Booting(x)'
    BY <1>19, KeepsWork, BootingKept DEF LateEffect
  <2>2. UNCHANGED <<registryVars, up, stale, behind, failed>>
    BY <1>19 DEF LateEffect
  <2>3. \A x \in Serials : tunnel[x] => tunnel'[x]
    BY <1>0, <1>19 DEF LateEffect, TakesEffect
  <2> QED
    BY <1>0, <2>1, <2>2, <2>3 DEF TunnelInv, Covered
<1> QED
  BY <1>2, <1>12, <1>13, <1>14, <1>15, <1>16, <1>17, <1>18, <1>19 DEF Next, Work, Afterwards, vars

(* A registered device has its tunnel once its bootstraps are done, for    *)
(* any devices and goroutines and any order of plugging, server restarts,  *)
(* retries and failures, unless the tunnel command itself failed.          *)
THEOREM TunnelsKept == Spec => []RegisteredHaveTunnel
<1>1. Init => TunnelInv
  BY DEF Init, Registry!Init, TunnelInv
<1>2. TypeInv /\ TunnelInv => RegisteredHaveTunnel
  <2>1. \A j \in BootJobs : j.todo # <<>> /\ ~j.own
    BY Lists DEF BootJobs
  <2>2. \A s \in Serials : Booting(s) => Bootstrapping(s)
    BY <2>1 DEF Booting, Bootstrapping
  <2> QED
    BY <2>2 DEF TypeInv, PlainType, TrackingType, TunnelInv, Covered, RegisteredHaveTunnel
<1> QED
  BY <1>1, <1>2, TypeInitially, TypeStep, TunnelStep, PTL DEF Spec

--------------------------------------------------------------------------------
(* Cleanup                                                                 *)

\* What CloseInv says of a device.
Closed(s) == jobs[s][0] = NoJob => ~app[s] \/ lateLaunch[s] \/ "close" \in failed[s]

(* Every step keeps what cleanup closed closed, or named.                  *)
LEMMA CloseStep == TypeInv /\ CloseInv /\ [Next]_vars => CloseInv'
<1> SUFFICES ASSUME TypeInv, CloseInv, [Next]_vars PROVE CloseInv'
  OBVIOUS
<1>0. /\ closing \subseteq Serials /\ 0 \in Slots /\ exit \in {"run", "closing", "exited"}
      /\ app \in [Serials -> BOOLEAN] /\ lateLaunch \in [Serials -> BOOLEAN]
      /\ failed \in [Serials -> SUBSET {"reverse", "close"}]
  BY SessionAssumption DEF TypeInv, PlainType, DeviceType, ExitType, Slots
<1> USE DEF deviceVars, exitVars, historyVars
\* A step that neither exits nor touches the app nor cleanup's goroutine.
<1>1. ASSUME UNCHANGED <<app, lateLaunch, exit, closing>>,
             \A s \in Serials : "close" \in failed[s] => "close" \in failed'[s],
             \A s \in Serials : jobs'[s][0] = NoJob => jobs[s][0] = NoJob
      PROVE  CloseInv'
  BY <1>0, <1>1 DEF CloseInv
<1>2. ASSUME UNCHANGED <<app, lateLaunch, exit, closing, failed>>, WorkKept PROVE CloseInv'
  BY <1>0, <1>1, <1>2 DEF WorkKept, SameWork
<1>3. CASE UNCHANGED <<app, lateLaunch, exit, closing, failed, jobs>>
  BY <1>2, <1>3, KeepsWork
<1>4. CASE World
  BY <1>2, <1>4, KeepsWork DEF World, ServerStop, ServerStart, Cancel, Plug, Unplug
<1>5. ASSUME NEW s \in Serials, HandleOnline(s) PROVE CloseInv'
  <2>1. \A x \in Serials : "close" \in failed[x] => "close" \in failed'[x]
    BY <1>0, <1>5 DEF HandleOnline
  <2>2. \A x \in Serials : jobs'[x][0] = jobs[x][0]
    BY <1>0, <1>5, OnlineStarts DEF Started
  <2> QED
    BY <1>1, <1>5, <2>1, <2>2 DEF HandleOnline
<1>6. ASSUME NEW s \in Serials, HandleOffline(s) PROVE CloseInv'
  <2>1. \A x \in Serials : "close" \in failed[x] => "close" \in failed'[x]
    BY <1>0, <1>6 DEF HandleOffline
  <2> QED
    BY <1>1, <1>6, <2>1 DEF HandleOffline
<1>7. CASE StreamEstablished \/ StreamLost \/ TrackerStops
  BY <1>3, <1>7 DEF StreamEstablished, StreamLost, TrackerStops
<1>8. ASSUME NEW p \in Publishers, DpmsSpawn(p) PROVE CloseInv'
  <2>1. CASE noAppControl
    BY <1>3, <1>8, <2>1 DEF DpmsSpawn
  <2>2. CASE ~noAppControl
    <3>1. \A x \in Serials : jobs'[x][0] = jobs[x][0]
      <4>1. ASSUME NEW x \in activeSerials PROVE jobs'[x][0] = jobs[x][0]
        <5>1. Started(x, [todo |-> <<DpmsCommand(pub[p])>>, at |-> "dial", own |-> TRUE])
          BY <1>8, <2>2, DpmsStarts
        <5> QED
          BY <1>0, <5>1 DEF Started
      <4> QED
        BY <1>8, <2>2, <4>1, DpmsStarts
    <3> QED
      BY <1>1, <1>8, <3>1 DEF DpmsSpawn
  <2> QED
    BY <2>1, <2>2
<1>9. ASSUME NEW s \in Serials, NEW i \in Slots, Dial(s, i) PROVE CloseInv'
  BY <1>2, <1>9, KeepsWork DEF Dial
<1>10. ASSUME NEW s \in Serials, NEW i \in Slots, Effect(s, i) PROVE CloseInv'
  <2>1. AdvancedAt(s, i) /\ jobs[s][i] \in BootJobs \cup ScreenJobs \cup CloseJobs
    BY <1>10, Advances
  <2>2. UNCHANGED <<exit, closing, failed>> /\ exit # "exited"
    BY <1>10 DEF Effect, TakesEffect, Running
  <2>3. ASSUME NEW x \in Serials \ {s} PROVE Closed(x) => Closed(x)'
    BY <1>0, <1>10, <2>1, <2>2 DEF Effect, TakesEffect, AdvancedAt, Closed
  <2>4. CASE i = 0
    <3>1. Head(jobs[s][i].todo) = "close"
      BY <2>1, <2>4, OtherAdvances, KnownStarts DEF TypeInv, JobsType
    <3>2. ~app'[s]
      BY <1>0, <1>10, <3>1 DEF Effect, TakesEffect
    <3> QED
      BY <1>0, <2>2, <2>3, <3>2 DEF CloseInv, Closed
  <2>5. CASE i # 0
    <3>1. jobs'[s][0] = jobs[s][0]
      BY <1>0, <2>1, <2>5 DEF AdvancedAt
    <3>2. CASE Head(jobs[s][i].todo) = "launch"
      <4>1. exit = "closing" /\ jobs[s][0] = NoJob => lateLaunch'[s]
        BY <1>0, <1>10, <3>2 DEF Effect, TakesEffect
      <4> QED
        BY <1>0, <2>2, <2>3, <3>1, <4>1 DEF CloseInv, Closed
    <3>3. CASE Head(jobs[s][i].todo) # "launch"
      <4>1. (app'[s] => app[s]) /\ lateLaunch'[s] = lateLaunch[s]
        BY <1>0, <1>10, <3>3 DEF Effect, TakesEffect
      <4> QED
        BY <1>0, <2>2, <2>3, <3>1, <4>1 DEF CloseInv, Closed
    <3> QED
      BY <3>2, <3>3
  <2> QED
    BY <2>4, <2>5
<1>11. ASSUME NEW s \in Serials, NEW i \in Slots, CommandFails(s, i) PROVE CloseInv'
  <2>1. AdvancedAt(s, i) /\ jobs[s][i] \in BootJobs \cup ScreenJobs \cup CloseJobs
    BY <1>11, Advances
  <2>2. \A x \in Serials : "close" \in failed[x] => "close" \in failed'[x]
    BY <1>0, <1>11 DEF CommandFails
  <2>3. i = 0 => "close" \in failed'[s]
    <3>1. i = 0 => Head(jobs[s][i].todo) = "close"
      BY <2>1, OtherAdvances, KnownStarts DEF TypeInv, JobsType
    <3> QED
      BY <1>0, <1>11, <3>1 DEF CommandFails
  <2>4. \A x \in Serials : (x # s \/ i # 0) => jobs'[x][0] = jobs[x][0]
    BY <1>0, <2>1 DEF AdvancedAt
  <2>5. UNCHANGED <<app, lateLaunch, exit, closing>>
    BY <1>11 DEF CommandFails
  <2> QED
    BY <1>0, <2>2, <2>3, <2>4, <2>5 DEF CloseInv
<1>12. CASE CleanupDevices
  <2>1. \A s \in closing' : s \in Serials /\ jobs'[s][0] # NoJob
    BY <1>0, <1>12, CleanupStarts, KnownStarts DEF CleanupDevices, TypeInv, PlainType, TrackingType
  <2> QED
    BY <2>1 DEF CloseInv
<1>13. CASE Exit
  BY <1>0, <1>13 DEF Exit, CloseInv
<1>14. CASE Tracking
  BY <1>5, <1>6, <1>7, <1>14 DEF Tracking
<1>15. CASE Publish
  BY <1>3, <1>8, <1>15 DEF Publish, DpmsStore
<1>16. ASSUME NEW s \in Serials, NEW cmd \in late[s], LateEffect(s, cmd) PROVE CloseInv'
  <2>1. UNCHANGED <<exit, closing, failed, jobs>> /\ exit # "exited"
    BY <1>16 DEF LateEffect, Running
  <2>2. ASSUME NEW x \in Serials \ {s} PROVE Closed(x) => Closed(x)'
    BY <1>0, <1>16, <2>1, <2>2 DEF LateEffect, TakesEffect, Closed
  <2>3. CASE cmd = "launch"
    <3>1. exit = "closing" /\ jobs[s][0] = NoJob => lateLaunch'[s]
      BY <1>0, <1>16, <2>3 DEF LateEffect, TakesEffect
    <3> QED
      BY <1>0, <2>1, <2>2, <3>1 DEF CloseInv, Closed
  <2>4. CASE cmd # "launch"
    <3>1. (app'[s] => app[s]) /\ lateLaunch'[s] = lateLaunch[s]
      BY <1>0, <1>16, <2>4 DEF LateEffect, TakesEffect
    <3> QED
      BY <1>0, <2>1, <2>2, <3>1 DEF CloseInv, Closed
  <2> QED
    BY <2>3, <2>4
<1> QED
  BY <1>3, <1>4, <1>9, <1>10, <1>11, <1>12, <1>13, <1>14, <1>15, <1>16 DEF Next, Work, Afterwards, vars

(* Nothing happens to a device once the process has exited.                *)
Ended == exit = "exited" => \A s \in closing : jobs[s][0] = NoJob

(* The process exits only when cleanup's goroutines are done.              *)
LEMMA EndedStep == TypeInv /\ Ended /\ [Next]_vars => Ended'
<1> SUFFICES ASSUME TypeInv, Ended, [Next]_vars PROVE Ended'
  OBVIOUS
<1>1. CASE exit = "exited"
  <2>1. UNCHANGED <<exit, closing, jobs>>
    <3>1. ~Running
      BY <1>1 DEF Running
    <3>2. World => UNCHANGED <<exit, closing, jobs>>
      BY <3>1 DEF World, ServerStop, ServerStart, Cancel, Plug, Unplug
    <3>3. ~Tracking
      BY <3>1 DEF Tracking, StreamEstablished, StreamLost, TrackerStops, HandleOnline, HandleOffline
    <3>4. ~Publish /\ ~CleanupDevices /\ ~Exit
      BY <1>1, <3>1 DEF Publish, DpmsSpawn, DpmsStore, CleanupDevices, Exit
    <3>5. \A s \in Serials : ~Afterwards(s) /\ \A i \in Slots : ~Work(s, i)
      BY <3>1 DEF Work, Dial, Effect, CommandFails, Afterwards, LateEffect
    <3> QED
      BY <3>2, <3>3, <3>4, <3>5 DEF Next, vars, exitVars
  <2> QED
    BY <1>1, <2>1 DEF Ended
<1>2. CASE exit # "exited" /\ ~Exit
  <2>1. exit' # "exited"
    <3> USE <1>2 DEF exitVars
    <3>1. CASE World \/ CleanupDevices
      BY <3>1 DEF World, ServerStop, ServerStart, Cancel, Plug, Unplug, CleanupDevices
    <3>2. CASE Tracking
      BY <3>2 DEF Tracking, StreamEstablished, StreamLost, TrackerStops, HandleOnline, HandleOffline
    <3>3. CASE Publish
      BY <3>3 DEF Publish, DpmsSpawn, DpmsStore
    <3>4. ASSUME NEW s \in Serials, NEW i \in Slots, Work(s, i) PROVE exit' # "exited"
      BY <3>4 DEF Work, Dial, Effect, CommandFails
    <3>5. ASSUME NEW s \in Serials, Afterwards(s) PROVE exit' # "exited"
      BY <3>5 DEF Afterwards, LateEffect
    <3> QED
      BY <3>1, <3>2, <3>3, <3>4, <3>5 DEF Next, vars
  <2> QED
    BY <2>1 DEF Ended
<1>3. CASE Exit
  BY <1>3, SessionAssumption DEF Exit, Ended, TypeInv, PlainType, ExitType, Slots
<1> QED
  BY <1>1, <1>2, <1>3

(* After exit the companion app is closed on every device cleanupDevices   *)
(* found, unless its command failed or a bootstrap already under way       *)
(* launched the app once more: however many goroutines were at work.       *)
THEOREM CleanupClosesAlways == Spec => []CleanupCloses
<1>1. Init => CloseInv /\ Ended
  BY DEF Init, CloseInv, Ended
<1>2. CloseInv /\ Ended => CleanupCloses
  BY DEF CloseInv, Ended, CleanupCloses
<1> QED
  BY <1>1, <1>2, TypeInitially, TypeStep, CloseStep, EndedStep, PTL DEF Spec

--------------------------------------------------------------------------------
(* Screens                                                                 *)

(* With app control off, every step keeps screens and apps alone.          *)
LEMMA BypassStep == TypeInv /\ BypassInv /\ [Next]_vars => BypassInv'
<1> SUFFICES ASSUME TypeInv, BypassInv, [Next]_vars, noAppControl' PROVE BypassInv'
  BY DEF BypassInv
<1>0. /\ screen \in [Serials -> {"on", "off"}] /\ app \in [Serials -> BOOLEAN]
      /\ told \in [Serials -> BOOLEAN] /\ closing \subseteq Serials
      /\ late \in [Serials -> SUBSET Commands]
  BY DEF TypeInv, PlainType, DeviceType, DpmsType, ExitType
<1> USE DEF deviceVars, exitVars, historyVars
\* A step that leaves the screens and apps alone and starts nothing.
<1>1. ASSUME UNCHANGED <<screen, app, told, exit, closing, noAppControl>>,
             \A s \in Serials : late'[s] \subseteq late[s],
             \A s \in Serials, i \in Slots : jobs'[s][i].todo = jobs[s][i].todo
      PROVE  BypassInv'
  BY <1>1 DEF BypassInv
<1>2. ASSUME UNCHANGED <<screen, app, told, exit, closing, noAppControl>>, WorkKept,
             \A s \in Serials : late'[s] \subseteq late[s]
      PROVE  BypassInv'
  BY <1>1, <1>2 DEF WorkKept, SameWork
<1>3. CASE UNCHANGED <<screen, app, told, exit, closing, noAppControl, jobs, late>>
  BY <1>2, <1>3, KeepsWork
<1>4. CASE World
  <2>1. \A s \in Serials : late'[s] \subseteq late[s]
    BY <1>0, <1>4 DEF World, ServerStop, ServerStart, Cancel, Plug, Unplug
  <2> QED
    BY <1>2, <1>4, <2>1, KeepsWork DEF World, ServerStop, ServerStart, Cancel, Plug, Unplug
<1>5. ASSUME NEW s \in Serials, HandleOnline(s) PROVE BypassInv'
  <2>1. noAppControl /\ UNCHANGED <<screen, app, late, exit, closing, noAppControl>>
    BY <1>5 DEF HandleOnline
  <2>2. \A x \in Serials : ~told'[x]
    BY <1>0, <1>5, <2>1 DEF HandleOnline, BypassInv
  <2>3. [todo |-> BootCommands, at |-> "dial", own |-> FALSE].todo = <<"reverse">>
    BY <2>1 DEF BootCommands
  <2>4. \A x \in Serials, i \in Slots : jobs'[x][i].todo \in {<<>>, <<"reverse">>}
    <3>1. \A i \in Slots : jobs'[s][i].todo \in {<<>>, <<"reverse">>}
      BY <1>5, <2>1, <2>3, OnlineStarts DEF Started, BypassInv
    <3> QED
      BY <1>5, <2>1, <3>1, OnlineStarts DEF BypassInv
  <2> QED
    BY <2>1, <2>2, <2>4 DEF BypassInv
<1>6. CASE StreamEstablished \/ StreamLost \/ TrackerStops \/ \E s \in Serials : HandleOffline(s)
  BY <1>3, <1>6 DEF StreamEstablished, StreamLost, TrackerStops, HandleOffline
<1>7. CASE Publish
  BY <1>3, <1>7 DEF Publish, DpmsStore, DpmsSpawn
<1>8. ASSUME NEW s \in Serials, NEW i \in Slots, Dial(s, i) PROVE BypassInv'
  BY <1>2, <1>8, KeepsWork DEF Dial
<1>9. ASSUME NEW s \in Serials, NEW i \in Slots, Effect(s, i) \/ CommandFails(s, i) PROVE BypassInv'
  <2>1. AdvancedAt(s, i) /\ jobs[s][i] \in BootJobs \cup ScreenJobs \cup CloseJobs
    BY <1>9, Advances
  <2>2. noAppControl /\ UNCHANGED <<exit, closing, noAppControl>>
    BY <1>9 DEF Effect, TakesEffect, CommandFails
  <2>3. jobs[s][i].todo = <<"reverse">>
    <3>1. jobs[s][i].todo \in {<<>>, <<"reverse">>}
      BY <2>2 DEF BypassInv
    <3>2. jobs[s][i].todo # <<>>
      BY <2>1, Lists DEF BootJobs, ScreenJobs, CloseJobs
    <3> QED
      BY <3>1, <3>2
  <2>4. Head(jobs[s][i].todo) = "reverse" /\ Advanced(jobs[s][i]) = NoJob
    BY <2>3, Lists DEF Advanced, Commands
  <2>5. UNCHANGED <<screen, app>>
    BY <1>9, <2>4 DEF Effect, TakesEffect, CommandFails
  <2>6. \A x \in Serials : ~told'[x]
    BY <1>0, <1>9, <2>2 DEF Effect, TakesEffect, CommandFails, BypassInv
  <2>7. \A x \in Serials, y \in Slots : jobs'[x][y].todo \in {<<>>, <<"reverse">>}
    BY <2>1, <2>2, <2>4, KnownStarts DEF AdvancedAt, BypassInv
  <2>8. \A x \in Serials : late'[x] \subseteq {"reverse"}
    BY <1>0, <1>9, <2>2, <2>4 DEF Effect, CommandFails, BypassInv
  <2> QED
    BY <2>2, <2>5, <2>6, <2>7, <2>8 DEF BypassInv
<1>10. CASE CleanupDevices
  <2>1. noAppControl /\ closing' = {} /\ UNCHANGED <<screen, app, told, late, noAppControl>>
    BY <1>10 DEF CleanupDevices
  <2>2. \A s \in Serials, i \in Slots : jobs'[s][i] = jobs[s][i]
    BY <1>10, <2>1, CleanupStarts
  <2> QED
    BY <2>1, <2>2 DEF BypassInv
<1>11. CASE Exit
  BY <1>11, KnownStarts DEF Exit, BypassInv
<1>12. CASE Tracking
  BY <1>5, <1>6, <1>12 DEF Tracking
<1>13. ASSUME NEW s \in Serials, NEW cmd \in late[s], LateEffect(s, cmd) PROVE BypassInv'
  <2>1. noAppControl /\ UNCHANGED <<told, exit, closing, noAppControl, jobs>>
    BY <1>13 DEF LateEffect
  <2>2. cmd = "reverse"
    BY <1>13, <2>1 DEF BypassInv
  <2>3. UNCHANGED <<screen, app>>
    BY <1>13, <2>2 DEF LateEffect, TakesEffect
  <2>4. \A x \in Serials : late'[x] \subseteq late[x]
    BY <1>0, <1>13 DEF LateEffect
  <2> QED
    BY <1>1, <2>1, <2>3, <2>4
<1> QED
  BY <1>3, <1>4, <1>7, <1>8, <1>9, <1>10, <1>11, <1>12, <1>13 DEF Next, Work, Afterwards, vars

\* What SoleInv says of a device.
SoleAt(s) ==
    /\ told[s] => dpms # Nil /\ late[s] = {}
    /\ Commanding(s) =>
          /\ \A i \in Slots : jobs[s][i] \in {NoJob} \cup CloseJobs \/ Carries(s, i)
          /\ screen[s] = dpms \/ \E i \in Slots : Carries(s, i)

(* A step that neither commands s nor reaches its screen keeps it so.      *)
LEMMA SoleKept ==
    ASSUME NEW s \in Serials, SoleAt(s), UNCHANGED <<dpms, pub>>,
           told'[s] = told[s], screen'[s] = screen[s], late'[s] \subseteq late[s],
           \A i \in Slots : SameWork(jobs[s][i], jobs'[s][i])
    PROVE  SoleAt(s)'
<1>1. Commanding(s)' => Commanding(s)
  BY DEF Commanding
<1>2. \A i \in Slots : Carries(s, i)' <=> Carries(s, i)
  BY DEF Carries, SameWork, DpmsCommand
<1>3. \A i \in Slots : jobs[s][i] \in {NoJob} \cup CloseJobs => jobs'[s][i] \in {NoJob} \cup CloseJobs
  BY DEF SameWork
<1> QED
  BY <1>1, <1>2, <1>3 DEF SoleAt

(* Every step keeps a lone DPMS command in charge of its screen.           *)
LEMMA SoleStep == TypeInv /\ BypassInv /\ SoleInv /\ [Next]_vars => SoleInv'
<1> SUFFICES ASSUME TypeInv, BypassInv, SoleInv, [Next]_vars, NEW s \in Serials PROVE SoleAt(s)'
  BY DEF SoleInv, SoleAt
<1>0. /\ screen \in [Serials -> {"on", "off"}] /\ dpms \in {"on", "off", Nil}
      /\ told \in [Serials -> BOOLEAN]
      /\ pub \in [Publishers -> {"on", "off", Nil}] /\ activeSerials \subseteq Serials
      /\ late \in [Serials -> SUBSET Commands]
  BY DEF TypeInv, PlainType, TrackingType, DeviceType, DpmsType
<1>a. SoleAt(s)
  BY DEF SoleInv, SoleAt
<1>b. ASSUME jobs'[s] = jobs[s] PROVE \A i \in Slots : SameWork(jobs[s][i], jobs'[s][i])
  BY <1>b DEF SameWork, TypeInv, JobsType
<1> USE DEF deviceVars, dpmsVars, historyVars
<1>1. ASSUME UNCHANGED <<dpms, pub, told, screen>>, WorkKept, late'[s] \subseteq late[s] PROVE SoleAt(s)'
  BY <1>a, <1>1, SoleKept DEF WorkKept
<1>2. CASE UNCHANGED <<dpms, pub, told, screen, jobs, late>>
  BY <1>1, <1>2, KeepsWork
<1>3. CASE World
  <2>1. late'[s] \subseteq late[s]
    BY <1>0, <1>3 DEF World, ServerStop, ServerStart, Cancel, Plug, Unplug
  <2> QED
    BY <1>1, <1>3, <2>1, KeepsWork DEF World, ServerStop, ServerStart, Cancel, Plug, Unplug
\* A device that is registered again is no longer commanded by a DPMS event.
<1>4. ASSUME NEW x \in Serials, HandleOnline(x) PROVE SoleAt(s)'
  <2>1. CASE x = s
    BY <1>0, <1>4, <2>1 DEF HandleOnline, SoleAt, Commanding
  <2>2. CASE x # s
    BY <1>0, <1>a, <1>b, <1>4, <2>2, SoleKept, OnlineStarts DEF HandleOnline
  <2> QED
    BY <2>1, <2>2
<1>5. CASE StreamEstablished \/ StreamLost \/ TrackerStops \/ \E x \in Serials : HandleOffline(x)
  BY <1>2, <1>5 DEF StreamEstablished, StreamLost, TrackerStops, HandleOffline
\* A state that is stored is an event somebody will still act on.
<1>6. ASSUME NEW p \in Publishers, NEW state \in {"on", "off"}, DpmsStore(p, state) PROVE SoleAt(s)'
  <2>1. pub'[p] # Nil /\ dpms' # Nil
    BY <1>0, <1>6, SessionAssumption DEF DpmsStore
  <2>2. UNCHANGED <<told, late>>
    BY <1>6 DEF DpmsStore
  <2> QED
    BY <1>a, <2>1, <2>2 DEF SoleAt, Commanding
<1>7. ASSUME NEW p \in Publishers, DpmsSpawn(p) PROVE SoleAt(s)'
  <2>1. CASE noAppControl
    BY <1>7, <2>1 DEF DpmsSpawn, BypassInv, SoleAt, Commanding
  <2>2. CASE ~noAppControl
    <3>1. /\ told'[s] => s \in activeSerials /\ dpms = pub[p] /\ late'[s] = {}
          /\ told'[s] => Idle(s)
      BY <1>7, <2>2 DEF DpmsSpawn
    <3>2. UNCHANGED <<dpms, screen>> /\ pub[p] # Nil
      BY <1>7 DEF DpmsSpawn
    <3>3. ASSUME told'[s]
          PROVE  /\ \A i \in Slots : jobs'[s][i] = NoJob \/ Carries(s, i)'
                 /\ \E i \in Slots : Carries(s, i)'
      <4> DEFINE new == [todo |-> <<DpmsCommand(pub[p])>>, at |-> "dial", own |-> TRUE]
      <4>1. s \in activeSerials /\ dpms' = pub[p] /\ \A i \in Slots : jobs[s][i] = NoJob
        BY <3>1, <3>2, <3>3 DEF Idle
      <4>2. PICK k \in Slots : \A i \in Slots : jobs'[s][i] = IF i = k THEN new ELSE jobs[s][i]
        BY <1>7, <2>2, <4>1, DpmsStarts DEF Started
      <4>3. new \in ScreenJobs /\ new.todo = <<DpmsCommand(pub[p])>>
        BY KnownStarts
      <4> HIDE DEF new
      <4>4. DpmsCommand(dpms)' = DpmsCommand(pub[p])
        BY <4>1 DEF DpmsCommand
      <4>5. Carries(s, k)'
        BY <4>2, <4>3, <4>4 DEF Carries
      <4> QED
        BY <4>1, <4>2, <4>5
    <3> QED
      BY <3>1, <3>2, <3>3 DEF SoleAt, Commanding
  <2> QED
    BY <2>1, <2>2
<1>8. ASSUME NEW x \in Serials, NEW i \in Slots, Dial(x, i) PROVE SoleAt(s)'
  BY <1>1, <1>8, KeepsWork DEF Dial
<1>9. ASSUME NEW x \in Serials, NEW i \in Slots, Effect(x, i) PROVE SoleAt(s)'
  <2>1. AdvancedAt(x, i) /\ jobs[x][i] \in BootJobs \cup ScreenJobs \cup CloseJobs
    BY <1>9, Advances
  <2>2. UNCHANGED <<dpms, pub, told, late>>
    BY <1>9 DEF Effect, TakesEffect
  <2>3. CASE x # s
    <3>1. screen'[s] = screen[s]
      BY <1>0, <1>9, <2>3 DEF Effect, TakesEffect
    <3>2. \A y \in Slots : jobs'[s][y] = jobs[s][y]
      BY <2>1, <2>3 DEF AdvancedAt
    <3>3. \A y \in Slots : SameWork(jobs[s][y], jobs'[s][y])
      BY <3>2 DEF SameWork, TypeInv, JobsType
    <3> QED
      BY <1>a, <2>2, <3>1, <3>3, SoleKept
  <2>4. CASE x = s
    <3>1. ASSUME Commanding(s)
          PROVE  /\ \A y \in Slots : jobs'[s][y] \in {NoJob} \cup CloseJobs \/ Carries(s, y)'
                 /\ screen'[s] = dpms \/ \E y \in Slots : Carries(s, y)'
      <4>1. jobs[s][i] \in CloseJobs \/ Carries(s, i)
        BY <1>a, <2>1, <2>4, <3>1, KnownStarts DEF SoleAt
      <4>2. jobs'[s][i] = NoJob /\ \A y \in Slots \ {i} : jobs'[s][y] = jobs[s][y]
        BY <2>1, <2>4, <4>1, OtherAdvances DEF AdvancedAt, Carries
      <4>3. \A y \in Slots \ {i} : Carries(s, y) => Carries(s, y)'
        BY <2>2, <4>2 DEF Carries, DpmsCommand
      <4>4. CASE jobs[s][i] \in CloseJobs
        <5>1. Head(jobs[s][i].todo) = "close"
          BY <4>4, OtherAdvances
        <5>2. screen' = screen
          BY <1>9, <2>4, <5>1 DEF Effect, TakesEffect
        <5>3. ~Carries(s, i)
          BY <4>4, Lists DEF Carries, CloseJobs, ScreenJobs
        <5> QED
          BY <1>a, <3>1, <4>2, <4>3, <5>2, <5>3 DEF SoleAt
      <4>5. CASE Carries(s, i)
        <5>1. dpms \in {"on", "off"}
          BY <1>0, <1>a, <3>1 DEF SoleAt, Commanding
        <5>2. Head(jobs[s][i].todo) = DpmsCommand(dpms)
          BY <4>5, Lists DEF Carries, Commands, DpmsCommand
        <5>3. screen'[s] = dpms
          BY <1>0, <1>9, <2>4, <5>1, <5>2, SessionAssumption DEF Effect, TakesEffect, DpmsCommand
        <5> QED
          BY <1>a, <3>1, <4>2, <4>3, <5>3 DEF SoleAt
      <4> QED
        BY <4>1, <4>4, <4>5
    <3> QED
      BY <1>a, <2>2, <3>1 DEF SoleAt, Commanding
  <2> QED
    BY <2>3, <2>4
<1>10. ASSUME NEW x \in Serials, NEW i \in Slots, CommandFails(x, i) PROVE SoleAt(s)'
  <2>1. CASE x = s
    BY <1>0, <1>10, <2>1 DEF CommandFails, SoleAt, Commanding
  <2>2. CASE x # s
    <3>1. \A y \in Slots : jobs'[s][y] = jobs[s][y]
      BY <1>10, <2>2, Advances DEF AdvancedAt
    <3>2. \A y \in Slots : SameWork(jobs[s][y], jobs'[s][y])
      BY <3>1 DEF SameWork, TypeInv, JobsType
    <3>3. told'[s] = told[s] /\ late'[s] = late[s] /\ UNCHANGED <<dpms, pub, screen>>
      BY <1>0, <1>10, <2>2 DEF CommandFails
    <3> QED
      BY <1>a, <3>2, <3>3, SoleKept
  <2> QED
    BY <2>1, <2>2
<1>11. CASE CleanupDevices
  <2>1. UNCHANGED <<dpms, pub, told, screen, late>>
    BY <1>11 DEF CleanupDevices
  <2>2. \A i \in Slots : jobs'[s][i] \in CloseJobs \/ jobs'[s][i] = jobs[s][i]
    BY <1>11, CleanupStarts
  <2>3. \A i \in Slots : Carries(s, i) => i # 0
    <3>1. \A j \in ScreenJobs : j \notin CloseJobs
      BY Lists DEF ScreenJobs, CloseJobs
    <3> QED
      BY <3>1, KnownStarts DEF Carries, TypeInv, JobsType
  <2>4. \A i \in Slots : i # 0 => jobs'[s][i] = jobs[s][i]
    BY <1>11, CleanupStarts
  <2>5. \A i \in Slots : Carries(s, i) => Carries(s, i)'
    BY <2>1, <2>3, <2>4 DEF Carries, DpmsCommand
  <2> QED
    BY <1>a, <2>1, <2>2, <2>5 DEF SoleAt, Commanding
<1>12. CASE Exit
  BY <1>12 DEF Exit, SoleAt, Commanding
<1>13. CASE Tracking
  BY <1>4, <1>5, <1>13 DEF Tracking
<1>14. CASE Publish
  BY <1>6, <1>7, <1>14 DEF Publish
\* A command that was given up and takes effect is not the one in charge.
<1>15. ASSUME NEW x \in Serials, NEW cmd \in late[x], LateEffect(x, cmd) PROVE SoleAt(s)'
  <2>1. UNCHANGED <<dpms, pub, told, jobs>>
    BY <1>15 DEF LateEffect
  <2>2. late'[s] \subseteq late[s]
    BY <1>0, <1>15 DEF LateEffect
  <2>3. CASE x = s
    <3>1. ~told[s]
      BY <1>a, <1>15, <2>3 DEF SoleAt
    <3> QED
      BY <2>1, <3>1 DEF SoleAt, Commanding
  <2>4. CASE x # s
    <3>1. screen'[s] = screen[s]
      BY <1>0, <1>15, <2>4 DEF LateEffect, TakesEffect
    <3> QED
      BY <1>a, <1>b, <2>1, <2>2, <3>1, SoleKept
  <2> QED
    BY <2>3, <2>4
<1> QED
  BY <1>2, <1>3, <1>8, <1>9, <1>10, <1>11, <1>12, <1>13, <1>14, <1>15 DEF Next, Work, Afterwards, vars

(* A DPMS command that finds nobody at work decides over the screen, and   *)
(* with no_app_control no screen or app is ever touched: for any devices,  *)
(* publishers and goroutines.                                              *)
THEOREM ScreenControlledAlways == Spec => []ScreenControlled
<1>1. Init => BypassInv /\ SoleInv
  <2>1. Init => BypassInv
    BY KnownStarts DEF Init, BypassInv
  <2>2. Init => SoleInv
    BY DEF Init, SoleInv, Commanding
  <2> QED
    BY <2>1, <2>2
<1>2. BypassInv => AppControlBypassed
  <2>1. \A l \in {<<>>, <<"reverse">>} : \A n \in DOMAIN l : l[n] = "reverse"
    OBVIOUS
  <2> QED
    BY <2>1 DEF BypassInv, AppControlBypassed
<1>3. SoleInv => SoleCommandDecides
  <2> SUFFICES ASSUME SoleInv, NEW s \in Serials, Commanded(s) PROVE screen[s] = dpms
    BY DEF SoleCommandDecides
  <2>1. Commanding(s) /\ \A i \in Slots : jobs[s][i] = NoJob
    BY DEF Commanding, Commanded, Idle
  <2>2. \A i \in Slots : ~Carries(s, i)
    BY <2>1, KnownStarts DEF Carries
  <2> QED
    BY <2>1, <2>2 DEF SoleInv
<1> QED
  BY <1>1, <1>2, <1>3, TypeInitially, TypeStep, BypassStep, SoleStep, PTL DEF Spec, ScreenControlled
================================================================================
