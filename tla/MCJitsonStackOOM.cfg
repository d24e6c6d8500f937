\* Builder calls when allocations may fail: a failing call must leave the stack unchanged.
CONSTANTS
    InitSizes = {1}
    MaxIncr = 4
    MaxCells = 4
    NameCells = {1, 2}
    Dups <- MCDups
    OOM = TRUE
INIT Init
NEXT Next
PROPERTY
    FailedCallLeavesStack
