\* Two friends, two concurrent calls, a crash; time enough for a record to grow stale and
\* for a cached copy of it to expire after that, by the clocks of the two.
SPECIFICATION Spec
CONSTANTS
    ann = ann
    bob = bob
    Users = {ann, bob}
    Me = ann
    Movers = {bob}
    Editors = {ann}
    Places = {p1, p2}
    TTL = 2
    Refresh = 3
    Skew <- AnnAhead
    MaxTime = 3
    MaxMoves = 1
    MaxRounds = 2
    MaxFaults = 1
    NoAddr = NoAddr
    NoEntry = NoEntry
    NoRound = NoRound
    NoFlush = NoFlush
INVARIANTS
    Authentic
    DiskFollowsCache
PROPERTIES
    HandedOutInTime
SYMMETRY Interchangeable
CHECK_DEADLOCK FALSE
