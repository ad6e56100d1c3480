SPECIFICATION Spec
CONSTANTS
    k1 = k1
    w1 = w1
    w2 = w2
    d1 = d1
    d2 = d2
    Absent = Absent
    NoData = NoData
    Keys <- OneKey
    Workers <- TwoWorkers
    Payloads <- OnePayload
    Size <- SameSize
    Rendered <- AnyPayload
    Limits <- AllPairs
    CrcWorkers <- NoWorkers
    SaveChunkMeta = TRUE
    FullChunk = 4
    DefaultTtl = 60
    PinTtlOption = 0
    Ops <- AllOps
    PinnedPuts <- Unpinned
    Buffers <- FreshOrCaller
    MaxSegs = 2
    MaxLate = 1
SYMMETRY WorkerSymmetry
INVARIANTS
    TypeOK
    HitIntact
    BufferAccounted
PROPERTIES
    ReadableStaysReadable
