CONSTANTS
    v1 = v1
    v2 = v2
    b1 = b1
    Values <- MCValues
    Cells <- MCCells
    Buttons <- MCButtons
    AckedOps <- MCAckedOps
    MAX_CALLS = 3
    MAX_RESETS = 1
    MAX_EVENTS = 1
SPECIFICATION Spec
\* With its calls, resets and button changes used up and the line drained,
\* the driver is idle waiting for the next ioctl.
CHECK_DEADLOCK FALSE
INVARIANTS NoLedSpam
