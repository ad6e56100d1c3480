SPECIFICATION Spec
CONSTANTS
    k1 = k1
    w1 = w1
    w2 = w2
    d1 = d1
    d2 = d2
    Absent = Absent
    NoData = NoData
    Keys <- OneKey
    Workers <- TwoWorkers
    Payloads <- TwoPayloads
    Size <- TwoSizes
    Rendered <- AnyPayload
    Limits <- PairsThirds
    CrcWorkers <- AllWorkers
    SaveChunkMeta = FALSE
    FullChunk = 4
    DefaultTtl <- Minus1
    PinTtlOption = 0
    Ops <- PutGet
    PinnedPuts <- Unpinned
    Buffers <- Fresh
    MaxSegs = 2
    MaxLate = 1
INVARIANTS
    ExistsOnlyCommitted
PROPERTIES
    ImplementsCache
