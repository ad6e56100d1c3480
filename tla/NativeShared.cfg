SPECIFICATION SharedSpec
CONSTANTS
    k1 = k1
    w1 = w1
    w2 = w2
    d1 = d1
    d2 = d2
    Absent = Absent
    NoData = NoData
    Keys <- TwoKeys
    Workers <- TwoWorkers
    Payloads <- TwoPayloads
    Size <- ThreeAndFour
    Rendered <- OnePayloadEach
    Limits <- ThirdsForBoth
    CrcWorkers <- NoWorkers
    SaveChunkMeta = FALSE
    FullChunk = 5
    DefaultTtl = 60
    PinTtlOption = 0
    Ops <- PutGetRemove
    PinnedPuts <- Unpinned
    Buffers <- Fresh
    MaxSegs = 2
    MaxLate = 1
    k2 = k2
    Native <- SecondWorker
    BufferLengths <- ThreeToFive
    SafetyMargin = 2
    DefaultRecordCap = 8
INVARIANTS
    HitIntact
PROPERTIES
    ReadableStaysReadable
