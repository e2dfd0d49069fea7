SPECIFICATION Spec
CONSTANTS
    Nothing = Nothing
    Responses <- ThreeResponses
    Segments <- AsSent
    ChunkMax = 2
    SegChunks = 2
    RespCap = 4
    RingSize = 3
    HeadMax = 4
    BodyMax = 6
    MaxSightings = 6
    MaxLapses = 1
INVARIANTS TypeOK Stitched WholeOrMarked PairedOnce AllTakenOrMarked
CHECK_DEADLOCK FALSE
