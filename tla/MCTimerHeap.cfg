CONSTANTS
    Timers = {t1, t2, t3, t4, t5, t6}
    Periods = {0, 1, 2}
    Slack = 1
    Horizon = 2
    MaxTimers = 6
    None = None
SPECIFICATION Spec
SYMMETRY Symmetry
VIEW Live
INVARIANT HeapRight
PROPERTY Implements
CHECK_DEADLOCK FALSE
