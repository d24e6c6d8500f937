\* A string value of every length up to 60 bytes made of 1, 2 and 3 byte
\* characters (\uXXXX escapes), loaded with ample memory.
CONSTANTS
    InitSizes = {8}
    MaxIncr = 4
    MaxCells = 8
    NameCells = {1}
    Dups = {}
    OOM = FALSE
    Widths = {1, 2, 3}
    MaxLen = 60
    Strings <- MCStrings
    AnyString = "sx"
    AnyIdent = "ix"
    BadStrings <- MCBadStrings
    Ascii <- MCAscii
    Constants <- MCConstants
    InitJitsonFlags = {{}}
    ParseInputs = {}
    Builds = {"release"}
    IdentExtra = {"."}
    Sources = {"string"}
    Calls <- MCUtf8Calls
    Before <- MCBefore
INIT ParserInit
NEXT ParserNext
CHECK_DEADLOCK FALSE
PROPERTY
    ParsedAsGrammar
