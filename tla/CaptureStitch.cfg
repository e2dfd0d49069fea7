SPECIFICATION Spec
CONSTANTS
    Nothing = Nothing
    Responses <- ThreeResponses
    Segments <- SentInTwoWays
    ChunkMax = 2
    SegChunks = 2
    RespCap = 4
    RingSize = 3
    HeadMax = 4
    BodyMax = 6
    MaxSightings = 6
    MaxLapses = 1
INVARIANT Stitched
CHECK_DEADLOCK FALSE
