----------------------------- MODULE DeviceRegistry -----------------------------
(***************************************************************************)
(* What device tracking promises to the rest of the engine: activeSerials  *)
(* is the set of devices reported online by the current tracking stream.   *)
(* A device is added only when it is not in the set (so one arrival starts *)
(* one bootstrap) and removed only when it is, nothing outlives the stream *)
(* that reported it, and the set is frozen for cleanupDevices once         *)
(* tracking stops for good.                                                *)
(***************************************************************************)
CONSTANT Serials

VARIABLES
    activeSerials,  \* e.activeSerials
    phase           \* "down" (no stream), "up" (stream established), "stopped"

registryVars == <<activeSerials, phase>>

Init == activeSerials = {} /\ phase = "down"

Establish ==
    /\ phase = "down"
    /\ phase' = "up"
    /\ UNCHANGED activeSerials

Attach(s) ==
    /\ phase = "up"
    /\ s \notin activeSerials
    /\ activeSerials' = activeSerials \cup {s}
    /\ UNCHANGED phase

Detach(s) ==
    /\ phase = "up"
    /\ s \in activeSerials
    /\ activeSerials' = activeSerials \ {s}
    /\ UNCHANGED phase

Lose ==
    /\ phase = "up"
    /\ phase' = "down"
    /\ activeSerials' = {}

Stop ==
    /\ phase # "stopped"
    /\ phase' = "stopped"
    /\ UNCHANGED activeSerials

Next == Establish \/ Lose \/ Stop \/ \E s \in Serials : Attach(s) \/ Detach(s)

Spec == Init /\ [][Next]_registryVars
================================================================================
