\* One call and a stale one, frames on both paths, a queue of one frame.
SPECIFICATION TransportFairSpec
CONSTANTS
    c1 = c1
    c2 = c2
    Calls <- TwoCalls
    Earlier <- StaleCall
    MaxMedia = 3
    MaxConns = 1
    SendCap = 1
    RecvCap = 1
    InboundCap = 1
INVARIANTS
    HeardOnceInOrder
PROPERTIES
    FreshFrameKept
    StreamsAreTaken
    CloseStopsGoroutines
CHECK_DEADLOCK FALSE
