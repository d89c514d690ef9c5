SPECIFICATION ServerSpec
CONSTANTS
    Proc = {p1, p2}
    NoFile = NoFile
    StaleSocket = StaleSocket
    OtherFile = OtherFile
    Order <- MCOrder
    Device = {"3", "V10"}
    Control = "Socket#7"
    MaxFD = 2
    MaxQuiet = 2
    Timeout = 2
    Recent = 2
    MaxClock = 7
    Sane = 1000000000
    Times = {10, 1400000000, 1400000004}
    LineLen = 2
    MaxLines = 3
    MaxOutput = 2
    MaxRead = 4
    Capacity = 6
    Split = FALSE
    Flood = FALSE
INVARIANTS
    EntriesOK
    EventsOK
    StateIsTold
    StartsAfterAnything
    SignalsAreClean
    DevicesAreReleased
    CommandsAreLines
    OutputInOrder
    OutputIsArmed
    ToldIsNotKilled
PROPERTIES
    NoFalseStall
    SignalEndsIt
    OutputGoesOut
    LeavingIsNoticed
CHECK_DEADLOCK FALSE
