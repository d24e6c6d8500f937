\* Three operators, two functions and the types BOOL (2) and STRING (4);
\* fini is the process's teardown, after which nothing runs.
CONSTANTS
    Names = {"==", "len"}
    f1 = f1
    f2 = f2
    Funcs <- MCFuncs
    Types = {2, 4}
    MaxOpers = 2
    NULL = NULL
    CallerOps = {1, 2}
SPECIFICATION Spec
INVARIANT TypeOK
PROPERTY ImplementsOperSpec
CHECK_DEADLOCK FALSE
