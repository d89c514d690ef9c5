SPECIFICATION FairSpec
CONSTANTS
    FrameCounts = {2}
    Capacity = 2
    MinWrite = 2
    MaxChunk = 2
    Modulus = 5
    FDs = {fd1}
    Paths = {p1}
    NoPath = NoPath
    NoFD = NoFD
    NoFrame = NoFrame
PROPERTY RecordingCompletes
