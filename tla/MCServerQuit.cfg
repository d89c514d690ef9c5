SPECIFICATION Spec
CONSTANTS
    Proc = {p1, p2}
    NoFile = NoFile
    StaleSocket = StaleSocket
    OtherFile = OtherFile
INVARIANT DestructorsUseNoMap
CHECK_DEADLOCK FALSE
