----------------------------- MODULE MCDesktopFeeds -----------------------------
(* An instance of DesktopFeeds for TLC.                                    *)
EXTENDS DesktopFeeds, TLC

CONSTANTS n1, n2, n3, k1, p1, p2, t1, t2

\* One notification with image data, two of one application without, whose
\* app icon and image-path hint name one file.
MCSource ==
    n1 :> [hint |-> TRUE, path |-> p1, image |-> Nil, key |-> k1, theme |-> p2] @@
    n2 :> [hint |-> FALSE, path |-> p1, image |-> Nil, key |-> k1, theme |-> p2] @@
    n3 :> [hint |-> FALSE, path |-> Nil, image |-> p1, key |-> k1, theme |-> p2]

\* Every track has a key of its own.
MCKey == t1 :> 1 @@ t2 :> 2
================================================================================
