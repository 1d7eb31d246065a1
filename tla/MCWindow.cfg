CONSTANTS
    Ev = {1, 2, 3, 4, 5, 6, 7, 8, 9, 10}
    Ptrs = {"frame", "redraw", "sync", "smooth", "configure", "read", "con", "tty"}
    SlotBlock = 2
    Commands = {"clear", "scroll", "bsu", "esu"}
    MaxOutput = 3
    XEvents = {"resize", "other", "delete"}
    MaxXEvents = 1
    Period <- MCPeriod
    OnExit = "close"
    MaxLate = 1
SPECIFICATION Spec
INVARIANTS RedrawRight NotDeaf NothingLeft
CHECK_DEADLOCK FALSE
