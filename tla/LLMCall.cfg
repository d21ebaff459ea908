SPECIFICATION FairSpec
CONSTANTS
    Timeout = 3
    Attempts = 3
    Budget = 7
    Hedges <- MCHedges
    MinLeft = 2
    Floor = 1
    Pause <- MCPause
    MaxPause = 2
    Overrun = 1
INVARIANTS
    TypeOK
    NoneLeftInFlight
    EndsInTime
    NoTextLost
PROPERTY CallEnds
