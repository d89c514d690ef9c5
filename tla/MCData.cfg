SPECIFICATION DataSpec
CONSTANTS
    Block = 4
    Step = 3
    MaxAvail = 9
    MaxFrame = 14
    Gaps = TRUE
    RawLabel = {l1, l2}
    NumChans = {1, 2}
    HwRate = 4
    DevRate = 2
    Requested = {1, 2}
    ShortMax = 3
    Garbage = {1, 2}
    DevAvail = 3
    DevFrame = 4
    HeaderLen = 3
    DataLens = {1, 2, 3}
    MaxSamples = 8
    Lo1 = 225001
    Hi1 = 300000
    Lo2 = 900001
    Hi2 = 3200000
    Rates <- MCRates
    MaxArgs = 5
    MaxFrames = 7
    Preferred = {0, 2, 3, 4}
SYMMETRY MCSymmetry
INVARIANTS
    PartTypesOK
    SoundIsWhole
    StampIsFirstUnlessLost
    RawIsWhole
    StreamIsWhole
    RateIsLeast
    FileIsCovered
    EndsCleanly
PROPERTIES
    ArgumentsFollowUsage
CHECK_DEADLOCK FALSE
