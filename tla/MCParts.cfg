SPECIFICATION Spec
INVARIANTS
    ParserRight
    CellsRight
    AttributesRight
    CursorRight
    SelectionRight
    PrinterRight
    UrisRight
    SeatsRight
    FramesRight
    ClipboardRight
CHECK_DEADLOCK FALSE
