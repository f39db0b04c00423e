----------------------------- MODULE MCMediaPlayers -----------------------------
(* An instance of MediaPlayers for TLC: two names and two connections are  *)
(* enough for a handover and for a connection with two names; a channel of *)
(* one slot is full after one snapshot nobody has read.                    *)
EXTENDS MediaPlayers, TLC

Symmetry == Permutations(Owners) \cup Permutations(Services)
================================================================================
