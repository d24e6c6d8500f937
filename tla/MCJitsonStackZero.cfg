\* A stack created with capacity 0 must not divide by zero when it first grows.
CONSTANTS
    InitSizes = {0}
    MaxIncr = 4
    MaxCells = 4
    NameCells = {1, 2}
    Dups <- MCDups
    OOM = FALSE
INIT Init
NEXT Next
INVARIANT
    NoDivideByZero
