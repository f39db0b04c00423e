----------------------------- MODULE MCAdbTracker ------------------------------
(* An instance of AdbTracker for TLC: a channel of two slots holds an      *)
(* arrival and a departure of one device, and makes the reader wait; delays*)
(* 1, 2, 3 reach the maximum after two failures.                           *)
EXTENDS AdbTracker
==============================================================================
