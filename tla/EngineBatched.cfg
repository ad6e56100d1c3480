SPECIFICATION BSpec
CONSTANTS
    k1 = k1
    w1 = w1
    w2 = w2
    d1 = d1
    d2 = d2
    Absent = Absent
    NoData = NoData
    Keys <- TwoKeys
    Workers <- TwoWorkers
    Payloads <- TwoPayloads
    Size <- OneAndThree
    Rendered <- OnePayloadEach
    Limits <- PairsRefused
    CrcWorkers <- NoWorkers
    SaveChunkMeta = TRUE
    FullChunk = 4
    DefaultTtl = 60
    PinTtlOption = 0
    Ops <- PutGetRemove
    PinnedPuts <- Unpinned
    Buffers <- CallersBuffer
    MaxSegs = 2
    MaxLate = 0
    k2 = k2
    Batchers <- FirstWorker
    Batches <- SomeLists
    ChunkKeys = 2
INVARIANTS
    FlaggedIsFilled
    FlagsTellWhatIsStored
PROPERTIES
    OperationsEnd
    BatchesEnd
