\* Two names, two connections, two announcements, a channel of one snapshot.
CONSTANTS
    Services = {s1, s2}
    Owners = {o1, o2}
    Nil = Nil
    EventsCap = 1
    MaxSignals = 2
SPECIFICATION Spec
INVARIANTS PlayersSettle ClientsGetLatest EventsChanSafe
SYMMETRY Symmetry
CHECK_DEADLOCK FALSE
