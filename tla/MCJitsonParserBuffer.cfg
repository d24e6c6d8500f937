\* Length-bounded buffers of up to three tokens of "[", "]" and a string,
\* loaded with ample memory.
CONSTANTS
    InitSizes = {8}
    MaxIncr = 4
    MaxCells = 8
    NameCells = {1}
    Dups = {}
    OOM = FALSE
    Widths = {1}
    MaxLen = 60
    Strings <- MCStrings
    AnyString = "sx"
    AnyIdent = "ix"
    BadStrings <- MCBadStrings
    Ascii <- MCAscii
    Constants <- MCConstants
    InitJitsonFlags = {{}}
    ParseInputs = {}
    Builds = {"release"}
    IdentExtra = {"."}
    Sources = {"buffer"}
    Calls <- MCBufferCalls
    Before <- MCBefore
INIT ParserInit
NEXT ParserNext
CHECK_DEADLOCK FALSE
INVARIANT
    InputErrorsRecoverable
