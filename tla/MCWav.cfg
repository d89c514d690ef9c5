SPECIFICATION FairSpec
CONSTANTS
    FrameCounts = {3}
    Capacity = 2
    MinWrite = 2
    MaxChunk = 2
    Modulus = 5
    FDs = {fd1}
    Paths = {p1,p2}
    NoPath = NoPath
    NoFD = NoFD
    NoFrame = NoFrame
INVARIANTS
    WriterOK
    NothingSkipped
    DirectoriesMade
PROPERTIES
    FirstFrameKept
    StampIsFrameBefore
    DoneMeansWritten
    RecordingEnds
