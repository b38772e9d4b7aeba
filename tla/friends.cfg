\* Two overlapping connections to one peer, a second peer to clash with, one fault.
SPECIFICATION FairSpec
CONSTANTS
    ann = ann
    bob = bob
    c1 = c1
    c2 = c2
    Peers = {ann, bob}
    Names = {n1, n2}
    Conns = {c1, c2}
    PeerOf <- BothToAnn
    Subs = {s}
    SubCap = 2
    MaxFaults = 1
INVARIANTS
    PresenceAgrees
    ToldOnce
PROPERTIES
    SubscriptionReleased
CHECK_DEADLOCK FALSE
