\* Two daemons that start at the same time.
SPECIFICATION Spec
CONSTANTS
    Daemons = {d1, d2}
    Commands = {c1}
    NoDaemon = NoDaemon
    MaxCrashes = 0
INVARIANTS
    SingleInstance
CHECK_DEADLOCK FALSE
