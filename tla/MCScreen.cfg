SPECIFICATION ScreenSpec
CONSTANTS
    SB_MAX = 1
    MAX_LINE_LEN = 3
    Sizes <- OneSize
    Features = {"write", "feed", "move", "cells", "erase", "lines", "margins", "view", "shortcuts"}
    MaxParagraphs = 3
INVARIANTS RowsGoOn Refolded
PROPERTY ViewFollows
CHECK_DEADLOCK FALSE
