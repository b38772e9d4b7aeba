\* Two calls, a channel that holds five of their eight events, Stop at any moment.
SPECIFICATION ManagerFairSpec
CONSTANTS
    CallIDs = {c1, c2}
    ChanCap = 5
    MayStop = TRUE
INVARIANTS
    OpenIsReachable
PROPERTIES
    AudioEndsWithCall
CHECK_DEADLOCK FALSE
