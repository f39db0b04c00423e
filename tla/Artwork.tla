--------------------------------- MODULE Artwork ---------------------------------
(***************************************************************************)
(* ArtworkExtractor and the manager's trackArtCache: from the cover file a *)
(* player writes to the artwork the clients show.                          *)
(*                                                                         *)
(* A player announces a track, with or without the path of its cover, and  *)
(* writes the file at its own pace.  The signal loop extracts the cover:   *)
(* extractor cache by path, up to six attempts 50 ms apart to see a file   *)
(* that is not empty, size check, read, cache.  Then the manager's second  *)
(* cache, by track key, remembers the artwork of a track for announcements *)
(* that come without one.  Everything but the player is one goroutine,     *)
(* which holds m.mu meanwhile.                                             *)
(***************************************************************************)
EXTENDS Integers, Sequences

CONSTANTS
    Tracks,      \* tracks
    Key,         \* getTrackKey of each
    Paths,       \* cover files
    Nil,         \* no path, no artwork, no file
    Attempts,    \* 6 in the code
    MaxSignals,  \* bound on announcements
    MaxWrites    \* bound on the writes of cover files

\* What a cover file holds: the picture of a track, in part or whole, or
\* nothing at all yet.
Empty == [of |-> Nil, size |-> "empty"]
Contents == [of : Tracks, size : {"part", "whole", "huge"}] \cup {Empty}

VARIABLES
    disk,           \* the cover files
    writes,         \* number of writes so far
    signals,        \* announcements the loop has still to read
    announced,      \* number of announcements so far
    pc,             \* the loop
    now,            \* the announcement it handles
    tries,          \* attempts left
    art,            \* the artwork found
    cache,          \* ArtworkExtractor.cache
    trackArtCache,  \* m.trackArtCache
    shown,          \* the registered player's metadata: track and artwork
    covers          \* history: the tracks each file was announced or written for

diskVars == <<disk, writes>>
queueVars == <<signals, announced>>
loopVars == <<pc, now, tries, art>>
cacheVars == <<cache, trackArtCache, shown>>
vars == <<diskVars, queueVars, loopVars, cacheVars, covers>>

Init ==
    /\ disk = [p \in Paths |-> Nil] /\ writes = 0
    /\ signals = <<>> /\ announced = 0
    /\ pc = "idle" /\ now = Nil /\ tries = 0 /\ art = Nil
    /\ cache = [p \in Paths |-> Nil]
    /\ trackArtCache = [k \in {Key[t] : t \in Tracks} |-> Nil]
    /\ shown = Nil
    /\ covers = [p \in Paths |-> {}]

--------------------------------------------------------------------------------
(* The player                                                              *)

Announce(t, p) ==
    /\ announced < MaxSignals
    /\ announced' = announced + 1
    /\ signals' = Append(signals, [track |-> t, path |-> p])
    /\ covers' = IF p = Nil THEN covers ELSE [covers EXCEPT ![p] = @ \cup {t}]
    /\ UNCHANGED <<diskVars, loopVars, cacheVars>>

\* A cover file is created, filled in several writes, replaced or deleted.
Write(p, c) ==
    /\ writes < MaxWrites
    /\ writes' = writes + 1
    /\ disk' = [disk EXCEPT ![p] = c]
    /\ covers' = IF c \in {Nil, Empty} THEN covers ELSE [covers EXCEPT ![p] = @ \cup {c.of}]
    /\ UNCHANGED <<queueVars, loopVars, cacheVars>>

--------------------------------------------------------------------------------
(* ArtworkExtractor.Extract                                                *)

Yield(a) == art' = a /\ pc' = "apply" /\ UNCHANGED <<tries, now>>

\* parseMetadata: without a URL there is nothing to extract, otherwise the
\* path cache is asked first.
TakeSignal ==
    /\ pc = "idle" /\ signals # <<>>
    /\ signals' = Tail(signals)
    /\ now' = Head(signals)
    /\ tries' = Attempts
    /\ LET p == Head(signals).path IN
       CASE p = Nil -> pc' = "apply" /\ art' = Nil
         [] p # Nil /\ cache[p] # Nil -> pc' = "apply" /\ art' = cache[p]
         [] OTHER -> pc' = "stat" /\ art' = Nil
    /\ UNCHANGED <<announced, diskVars, cacheVars, covers>>

\* The directory of the cover is not there.
NoDirectory ==
    /\ pc = "stat" /\ tries = Attempts
    /\ disk[now.path] = Nil
    /\ Yield(Nil)
    /\ UNCHANGED <<diskVars, queueVars, cacheVars, covers>>

\* An attempt.  A file with something in it ends the loop and is read unless
\* it is over 2 MB; after the last attempt an empty file is read as well.
Stat ==
    LET info == disk[now.path] IN
    /\ pc = "stat"
    /\ CASE info \in {Nil, Empty} /\ tries > 1 -> tries' = tries - 1 /\ UNCHANGED <<pc, now, art>>
         [] (info = Nil /\ tries = 1) \/ (info # Nil /\ info.size = "huge") -> Yield(Nil)
         [] OTHER -> pc' = "read" /\ UNCHANGED <<now, tries, art>>
    /\ UNCHANGED <<diskVars, queueVars, cacheVars, covers>>

\* What the file holds by now is encoded and cached by its path.
Read ==
    /\ pc = "read"
    /\ Yield(disk[now.path])
    /\ cache' = [cache EXCEPT ![now.path] = disk[now.path]]
    /\ UNCHANGED <<diskVars, queueVars, trackArtCache, shown, covers>>

--------------------------------------------------------------------------------
ApplyByPlayer ==
    /\ pc = "apply"
    /\ LET a == IF art = Nil /\ shown # Nil THEN shown.art ELSE art IN
       /\ trackArtCache' = [trackArtCache EXCEPT ![Key[now.track]] = a]
       /\ shown' = [track |-> now.track, art |-> a]
    /\ pc' = "idle" /\ now' = Nil /\ art' = Nil /\ tries' = 0
    /\ UNCHANGED <<diskVars, queueVars, cache, covers>>

\* The metadata is stored with its artwork, or with the one its track had.
Apply ==
    LET key == Key[now.track] IN
    /\ pc = "apply"
    /\ trackArtCache' = IF art = Nil THEN trackArtCache ELSE [trackArtCache EXCEPT ![key] = art]
    /\ shown' = [track |-> now.track, art |-> trackArtCache'[key]]
    /\ pc' = "idle" /\ now' = Nil /\ art' = Nil /\ tries' = 0
    /\ UNCHANGED <<diskVars, queueVars, cache, covers>>

Extract == TakeSignal \/ NoDirectory \/ Stat \/ Read \/ Apply

Player ==
    \/ \E t \in Tracks, p \in Paths \cup {Nil} : Announce(t, p)
    \/ \E p \in Paths, c \in Contents \cup {Nil} : Write(p, c)

Next == Player \/ Extract

Spec == Init /\ [][Next]_vars

--------------------------------------------------------------------------------
(* Properties                                                              *)

(* The variables' types; at most Attempts attempts.                        *)
TypeOK ==
    /\ disk \in [Paths -> Contents \cup {Nil}] /\ cache \in [Paths -> Contents \cup {Nil}]
    /\ tries \in 0..Attempts
    /\ shown = Nil \/ shown.art \in Contents \cup {Nil}

\* Tracks that can be told apart, by their key and by their cover files.
OwnKey(t) == \A u \in Tracks : Key[u] = Key[t] => u = t
OwnFiles(t) == \A p \in Paths : t \in covers[p] => covers[p] = {t}

(* Two caches, a file that appears late and announcements without a cover  *)
(* never give a track the artwork of another, as long as the track has a   *)
(* key and cover files of its own.                                         *)
ArtIsOwn ==
    shown # Nil /\ shown.art \notin {Nil, Empty} /\ OwnKey(shown.track) /\ OwnFiles(shown.track) =>
        shown.art.of = shown.track

(* Whatever is shown next for a track is its own artwork, and artwork once *)
(* known is not taken away: while the track stays on, announcements        *)
(* without a cover or with one that cannot be read keep what it had.       *)
ArtIsRight ==
    [][ArtIsOwn' /\ (shown # Nil /\ shown.art # Nil /\ shown'.track = shown.track => shown'.art # Nil)]_shown
================================================================================
