SPECIFICATION Spec
CONSTANTS
    Calls = {c1, c2}
    Requests <- TwoPuts
    Threads = 2
    MaxInFlight = 2
    Cancellable <- NoTimeouts
INVARIANTS NothingRetained
CHECK_DEADLOCK FALSE
