SPECIFICATION Spec
CONSTANTS
    Servers = {a, b}
    None = None
    Buffer = 1
    MaxEvents = 3
    MaxFaults = 3
INVARIANT LiveShowsEverything
CHECK_DEADLOCK FALSE
