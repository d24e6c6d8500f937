\* Builder calls from initial sizes 0, 1 and 3 with allocation always
\* succeeding.  A divide by zero in expand (capacity 0) kills the process,
\* so the model may stop.
CONSTANTS
    InitSizes = {0, 1, 3}
    MaxIncr = 4
    MaxCells = 6
    NameCells = {1, 2}
    Dups <- MCDups
    OOM = FALSE
INIT Init
NEXT Next
CHECK_DEADLOCK FALSE
INVARIANTS
    TypeOK
    StackConsistent
    WithinCapacity
