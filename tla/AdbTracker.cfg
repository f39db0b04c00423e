\* Two devices, a channel of two events, one list in flight.
CONSTANTS
    Serials = {d1, d2}
    OutCap = 2
    RetryMin = 1
    RetryMax = 3
    MaxFrames = 1
SPECIFICATION FairSpec
INVARIANTS EventsAgree DelayDoubles
PROPERTIES ImplementsRegistry TracksDevices
