CONSTANTS
    Writes <- MCWrites
    MaxAsked = 6
    Chunk = 2
    Capacity = 3
SPECIFICATION Spec
INVARIANTS TypeOK InOrder PollOut
PROPERTIES Delivered
CHECK_DEADLOCK FALSE
