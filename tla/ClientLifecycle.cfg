SPECIFICATION Spec
CONSTANTS
    None = None
    r1 = r1
    r2 = r2
    s1 = s1
    m1 = m1
    Owners <- FourOwners
    Kind <- FourKinds
    Cluster <- SameCluster
    ClosedOnce <- L2Only
    MaxTasks = 1
INVARIANTS NoUseAfterClose CountIsExact OneClientPerCluster
PROPERTIES CloseEnds
