\* An accept and a hangup on each side, Engine.Stop at the callee, a lossy network.
SPECIFICATION FairSpec
CONSTANTS
    Accepts = {a1}
    CallerHangups = {h1}
    CalleeHangups = {h2}
    StopSides = {"callee"}
    LossyNet = TRUE
INVARIANTS
    Consent
    AcceptHeard
    LiveCallsCanBeHungUp
PROPERTIES
    SidesAreSessions
    EndReachesBothSides
CHECK_DEADLOCK FALSE
