\* Two competing accepts and two hangups beside the session's own goroutine.
SPECIFICATION FairEventsSpec
CONSTANTS
    Accepts = {a1, a2}
    Hangups = {h1, h2}
    Reasons = {r1, r2}
    NoReason = NoReason
    SubCap = 4
INVARIANTS
    NothingAfterEnded
    FannedInOrder
PROPERTIES
    EndIsFannedOut
    AttachedClientSeesEnd
CHECK_DEADLOCK FALSE
