SPECIFICATION FairSpec
CONSTANTS
    f1 = f1
    f2 = f2
    ClientLabel = {1, 6}
    SocketFD = {f1, f2}
    FdLabel <- MCFdLabel
    ListenerLabel = 5
    ListenerFD = lfd
    DeviceFD = {d1}
    Object = {o1, o2, o3, o4}
    DetachAny = FALSE
    NoObject = NoObject
    NoFD = NoFD
    NoLabel = NoLabel
INVARIANTS
    SlotsFresh
    RunningIsRegistered
    ControlIsLive
PROPERTIES
    ConnNeverReplaced
    RemovalCompletes
    Served
