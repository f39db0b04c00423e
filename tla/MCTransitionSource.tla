--------------------------- MODULE MCTransitionSource ---------------------------
(* The lock manager with its two buses for TLC; MCDesktopFeeds has the     *)
(* DPMS manager with its one.                                              *)
EXTENDS TransitionSource

LockSignals == BOOLEAN
LockMeaning == [locked \in BOOLEAN |-> locked]
================================================================================
