CONSTANTS
    None = None
    Threads = {t1, t2}
    BatchThreads = 1
    ChunkSize = 2
    Requests <- LongStoresAndReads
    MaxTasks = 2
SPECIFICATION Spec
INVARIANTS TypeOK ReportsAreTrue HitsAreSettled NoUseAfterRelease
PROPERTIES AcceptedIsRecorded ResultsArrive
