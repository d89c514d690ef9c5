SPECIFICATION Spec
CONSTANTS
    DevLabel = {1, 3}
    RtlLabel = {3}
    FileDev = {}
    FileOf <- MCFileOf
    PlugLabel = {5}
    ConnLabels = {7}
    ListenerLabel = 9
    MaxBatch = 1
    Reopen = FALSE
    DetachAny = FALSE
PROPERTY SurvivorsKeepPlugins
