-------------------------- MODULE MCIntervalControl ---------------------------
(* Instances of IntervalControl for TLC: a channel of two slots is full    *)
(* after two pending changes; requests lie below, inside and above the     *)
(* clamping boundaries, an RPC may ask for zero or a negative interval, and*)
(* the locked interval is configured as zero, which nothing checks.        *)
EXTENDS IntervalControl

CONSTANTS c1, s1, lm

OneClient == {c1}
OneStream == {s1}
ClientRequests == {0, 3, 9}
StreamRequests == {-1, 0, 1}
==============================================================================
