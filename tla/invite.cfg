\* Two invitees, one of them retrying; one crash; the invites file can be written.
SPECIFICATION Spec
CONSTANTS
    Ann = Ann
    Bob = Bob
    Ann1 = Ann1
    Ann2 = Ann2
    Bob1 = Bob1
    Invitees <- TwoInvitees
    Attempts <- AnnRetries
    Who <- Holder
    MaxCrashes = 1
    DiskFaults = FALSE
SYMMETRY Interchangeable
INVARIANTS
    SingleUse
    AcceptedIsMutual
    ConsumedMadeFriend
    RevokedStaysRevoked
    RollbackIsDurable
CHECK_DEADLOCK FALSE
