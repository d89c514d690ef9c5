SPECIFICATION FairSpec
CONSTANTS
    FrameCounts = {1}
    Capacity = 2
    MinWrite = 1
    MaxChunk = 1
    Modulus = 5
    FDs = {fd1}
    Paths = {p1}
    NoPath = NoPath
    NoFD = NoFD
    NoFrame = NoFrame
PROPERTY StampIsFirstFrame
