CONSTANTS
    Ev = {1, 2, 3, 4, 5, 6, 7, 8, 9, 10}
    Ptrs = {"frame", "redraw", "sync", "smooth", "configure", "read", "con", "tty"}
    SlotBlock = 2
    Commands = {"resize", "scroll"}
    MaxOutput = 3
    XEvents = {"resize", "reload"}
    MaxXEvents = 1
    Period <- MCPeriod
    OnExit = "keep"
    MaxLate = 1
SPECIFICATION Spec
PROPERTIES Shown NothingWaits
CHECK_DEADLOCK FALSE
