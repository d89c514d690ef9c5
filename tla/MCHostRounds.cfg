SPECIFICATION Spec
CONSTANTS
    DevLabel = {1}
    RtlLabel = {}
    FileDev = {1}
    FileOf <- MCFileOf
    PlugLabel = {5}
    ConnLabels = {7}
    ListenerLabel = 9
    MaxBatch = 2
    Reopen = TRUE
    DetachAny = TRUE
PROPERTY RefinesPollable
