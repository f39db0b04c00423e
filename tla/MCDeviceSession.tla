---------------------------- MODULE MCDeviceSession ----------------------------
(* Instances of DeviceSession for TLC: one device, on which two goroutines *)
(* besides cleanup's can be at work at the same time.                      *)
EXTENDS DeviceSession
================================================================================
