------------------------------ MODULE MCStateSync ------------------------------
(* Instances of StateSync for TLC.  Two values tell a stale view from a    *)
(* current one; two kinds share each subscriber channel and connection.    *)
EXTENDS StateSync

CONSTANTS lock, power

TwoKinds == <<lock, power>>
================================================================================
