\* Two clients behind one address whose window admits one connection.
SPECIFICATION FairSpec
CONSTANTS
    Clients = {c1, c2}
    Limit = 1
    Window = 3
    Delay <- ShortDelays
    NoTimer = NoTimer
    MaxFaults = 2
    MaxMoves = 1
INVARIANTS
    OneSocket
    ShownIsCurrent
PROPERTIES
    Reconnects
