CONSTANTS
    Ev = {1, 2, 3, 4, 5, 6, 7, 8, 9, 10}
    Ptrs = {"frame", "redraw", "sync", "smooth", "configure", "read", "con", "tty"}
    SlotBlock = 2
    Commands = {"scroll"}
    MaxOutput = 2
    XEvents = {"other"}
    MaxXEvents = 0
    Period <- MCPeriod
    OnExit = "close"
    MaxLate = 1
SPECIFICATION Spec
PROPERTY Closes
CHECK_DEADLOCK FALSE
