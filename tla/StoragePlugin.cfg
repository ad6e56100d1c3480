SPECIFICATION Spec
CONSTANTS
    k1 = k1
    k2 = k2
    Lists = {l1, l2, l3}
    Keys = {k1, k2}
    KeyLists <- Overlapping
    Threads = 2
INVARIANTS PendingIsVisible NoGhostPending NoPutAfterRelease
PROPERTIES ListsEnd
CHECK_DEADLOCK FALSE
