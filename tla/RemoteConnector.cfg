SPECIFICATION Spec
CONSTANTS
    Calls = {c1, c2}
    Requests <- AnyCall
    Threads = 2
    MaxInFlight = 1
    Cancellable <- GetsTimeOut
INVARIANTS ObjectsAccounted PutsSettled PermitsConserved
PROPERTIES CallsEnd
CHECK_DEADLOCK FALSE
