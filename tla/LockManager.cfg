\* The lock manager: two buses, three reports, a channel of one.
CONSTANTS
    Watchers = {session, system}
    Signals <- LockSignals
    Meaning <- LockMeaning
    Nil = Nil
    OutCap = 1
    MaxReports = 3
SPECIFICATION FairSpec
INVARIANT OutIsSound
PROPERTY OutIsClosed
CHECK_DEADLOCK FALSE
