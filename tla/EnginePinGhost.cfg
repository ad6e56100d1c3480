SPECIFICATION Spec
CONSTANTS
    k1 = k1
    w1 = w1
    w2 = w2
    d1 = d1
    d2 = d2
    Absent = Absent
    NoData = NoData
    Keys <- OneKey
    Workers <- TwoWorkers
    Payloads <- OnePayload
    Size <- SameSize
    Rendered <- AnyPayload
    Limits <- AllPairs
    CrcWorkers <- NoWorkers
    SaveChunkMeta = TRUE
    FullChunk = 4
    DefaultTtl = 60
    PinTtlOption = 0
    Ops <- PutPin
    PinnedPuts <- Unpinned
    Buffers <- Fresh
    MaxSegs = 2
    MaxLate = 0
INVARIANTS
    ExistingIsReady
