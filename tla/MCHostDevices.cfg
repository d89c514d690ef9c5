SPECIFICATION Spec
CONSTANTS
    DevLabel = {1, 3}
    RtlLabel = {3}
    FileDev = {}
    FileOf <- MCFileOf
    PlugLabel = {5}
    ConnLabels = {7, 8}
    ListenerLabel = 9
    MaxBatch = 1
    Reopen = TRUE
    DetachAny = FALSE
INVARIANTS
    HostOK
    DataNeedsStart
PROPERTIES
    ConstructedIsKept
