CONSTANTS
    Writes <- MCWrites
    MaxAsked = 3
    Chunk = 2
    Capacity = 3
SPECIFICATION Spec
INVARIANTS FreedOnce
CHECK_DEADLOCK FALSE
