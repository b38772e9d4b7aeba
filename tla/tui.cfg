\* Two friends, a filter that leaves one of them, two calls and an invite.
SPECIFICATION TuiFairSpec
CONSTANTS
    ann = ann
    bob = bob
    Nobody = Nobody
    FriendList <- AnnBob
    Matches <- BobByLetter
    MaxCalls = 2
    MaxCodes = 1
    EventStates = {"ringing", "connected", "ended"}
    MaxKeys = 2
INVARIANTS
    FocusIsSelection
    NamesTheCall
PROPERTIES
    FooterFollowsDaemon
CHECK_DEADLOCK FALSE
