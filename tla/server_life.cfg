\* Two sockets, one HTTP connection, one client that vanishes.
SPECIFICATION LifeFairSpec
CONSTANTS
    Sockets = {s1, s2}
    Posts = {w1}
    Budget = 1
    Second = 2
    Grace = 2
    MaxVanished = 1
    MaxFlood = 2
INVARIANTS
    TwoBudgetsASecond
    DbUsable
PROPERTIES
    ShutdownEnds
CHECK_DEADLOCK FALSE  \* the process exits
