SPECIFICATION Spec
CONSTANTS
    k1 = k1
    w1 = w1
    w2 = w2
    d1 = d1
    d2 = d2
    Absent = Absent
    NoData = NoData
    Keys <- OneKey
    Workers <- TwoWorkers
    Payloads <- OnePayload
    Size <- SameSize
    Rendered <- AnyPayload
    Limits <- PairsTriples
    CrcWorkers <- NoWorkers
    SaveChunkMeta = TRUE
    FullChunk = 4
    DefaultTtl <- Minus1
    PinTtlOption = 0
    Ops <- PutGet
    PinnedPuts <- Unpinned
    Buffers <- Fresh
    MaxSegs = 3
    MaxLate = 0
INVARIANTS
    HitIntact
