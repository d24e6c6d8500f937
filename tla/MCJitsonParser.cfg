\* load_json from stacks holding 0 or 1 values, of capacity 0, 1 or 2, with
\* allocation allowed to fail at every expand.  A divide by zero (capacity
\* 0) kills the process and the model stops there.
CONSTANTS
    InitSizes = {0, 1, 2}
    MaxIncr = 4
    MaxCells = 10
    NameCells = {1}
    Dups = {}
    OOM = TRUE
    Widths = {1}
    MaxLen = 60
    Strings <- MCStrings
    AnyString = "sx"
    AnyIdent = "ix"
    BadStrings <- MCBadStrings
    Ascii <- MCAscii
    Constants <- MCConstants
    InitJitsonFlags = {{}}
    ParseInputs <- MCParseInputs
    Builds = {"debug", "release"}
    IdentExtra = {"."}
    Sources = {"string"}
    Calls <- MCCalls
    Before <- MCBefore
INIT ParserInit
VIEW MCView
NEXT ParserNext
CHECK_DEADLOCK FALSE
INVARIANTS
    LayoutsAgree
PROPERTIES
    ParsedAsGrammar
