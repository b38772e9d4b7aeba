\* Two processes that start, stop and die at any moment, a command, a leftover socket.
SPECIFICATION FairSpec
CONSTANTS
    Daemons = {d1, d2}
    Commands = {c1}
    NoDaemon = NoDaemon
    MaxCrashes = 1
INVARIANTS
    GoroutinesAreToldFirst
PROPERTIES
    SocketKept
    LeftoversAreNoObstacle
    ShutdownCompletes
CHECK_DEADLOCK FALSE
