\* A wrap-around of the 16 sequence numbers, packets up to three late, two duplicates.
SPECIFICATION MediaSpec
CONSTANTS
    Half = 8
    TargetFrames = 2
    MaxFrames = 3
    MaxPackets = 18
    MaxFlight = 3
    MaxLost = 2
    MaxDups = 2
    MaxToggles = 1
    PullCap = 2
    Packets <- AllPackets
INVARIANTS
    InWindow
PROPERTIES
    LeavesOldestFirst
    PlayoutInOrder
CHECK_DEADLOCK FALSE
