CONSTANTS
    Ev = {1, 2, 3, 4}
    Ptrs = {"t1", "fd1", "fd2"}
    TimerPtrs = {"t1"}
    FdPtrs = {"fd1", "fd2"}
    SlotBlock = 1
    Files = {"a", "b"}
    FileOf <- MCFileOf
    Periods = {1}
    MaxOps = 2
    TickOps = 1
    MaxLate = 1
SPECIFICATION Spec
INVARIANT EventsRight
PROPERTIES FdServed TimersFire
CHECK_DEADLOCK FALSE
