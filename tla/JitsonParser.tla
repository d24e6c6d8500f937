---------------------------- MODULE JitsonParser ----------------------------
(***************************************************************************)
(* The JSON parser of src/lib-sxe-jitson/sxe-jitson-stack.c               *)
(* (sxe_jitson_stack_load_json, lines 383-539) over the source reader of   *)
(* sxe-jitson-source.c, on the stack of JitsonStack.                       *)
(*                                                                         *)
(* The input is a sequence of tokens: what get_nonspace returns at the     *)
(* start of each lexical item, with the item's content abstracted to what  *)
(* the parser does with it.  A string token stands for a string whose      *)
(* characters have the UTF-8 widths Strings[tok] and that ends with its    *)
(* closing quote; a bad string token for one that, after the characters    *)
(* BadStrings[tok], hits a bad escape or the end of input.  Everything    *)
(* else is read byte by byte (JitsonSource): structural characters,       *)
(* numbers and identifiers, so that get_number and get_identifier decide  *)
(* where a number or an identifier ends.  AnyIdent is a run of identifier *)
(* bytes of any length up to MaxLen that spells no keyword or constant.   *)
(*                                                                         *)
(* load_json is a recursive function of the tokens.  Its result records    *)
(* the cells a successful call appends and the sizes of the expand calls   *)
(* it makes, in order, so that the stack's expand model (Outcomes,         *)
(* Expands, Crash) decides where an allocation fails; a failure of the     *)
(* k-th expand ends the call there with ENOMEM.                            *)
(***************************************************************************)
EXTENDS JitsonStack, JitsonString, JitsonSource

CONSTANTS
    Strings,        \* string token -> widths of its characters
    AnyString,      \* a string token whose text is any of up to MaxLen bytes
    BadStrings,     \* bad string token -> widths of the characters before the error
    Constants,      \* registered constant name (bytes) -> its cells (jitson_constants)
    InitJitsonFlags, \* values sxe_jitson_flags may have before the extensions register
    Builds,         \* "debug" (SXEA6 assertions compiled in) and/or "release"
    IdentExtra,     \* bytes the reference admits in identifiers beyond spec 4.1's
    Sources,        \* "string" (from_string) and/or "buffer" (from_buffer)
    Calls,          \* <<tokens, flags>> of load_json calls on sources the application made
    ParseInputs,    \* the tokens of parse_json calls, whose source takes sxe_jitson_flags
    Before          \* the cells left on the stack by earlier calls

VARIABLES
    input,      \* the tokens of the pending call (<<>> once it was made)
    flags,      \* its source's flags
    source,     \* its source's kind
    loaded,     \* the call was made
    failure,    \* "none", "nomem" (an expand failed) or "input" (any other error)
    aborted,    \* an SXEA1 assertion aborted the process
    text,       \* what load_string makes of AnyString's text
    identLen,   \* the length of AnyIdent
    build,      \* the build of the library
    consumed,   \* the tokens a successful call consumed (get_consumed)
    api,        \* "load_json" or "parse_json": how the call is made
    constantsSet, \* jitson_constants # NULL
    pushIdent,  \* sxe_jitson_stack_push_ident # NULL
    jitsonFlags \* sxe_jitson_flags, the default flags of parse_json's source

callVars     == <<input, flags, source, loaded, failure, aborted, text, identLen, build, consumed, api>>
registryVars == <<constantsSet, pushIdent, jitsonFlags>>
parserVars   == <<callVars, registryVars>>
allVars    == <<vars, parserVars>>

\* The result of load_string for a string token, and an identifier's length.
TextOf(c)   == IF c = AnyString THEN text ELSE LoadString(Strings[c])

\* The bytes of a token of an identifier run.
ByteLen(tok) == IF tok = AnyIdent THEN identLen ELSE 1

StringTokens == DOMAIN Strings \cup {AnyString}

\* The class load_json's switch dispatches on (line 402).
Class(c) ==
    CASE c \in StringTokens \cup DOMAIN BadStrings -> "quote"
      [] c = AnyIdent                               -> "ALP"
      [] OTHER                                      -> JitsonClass(Byte(c))

\* The JSON keywords of lines 489-504.
Keywords == {<<"f", "a", "l", "s", "e">>, <<"n", "u", "l", "l">>, <<"t", "r", "u", "e">>}

(***************************************************************************)
(* source.c lines 80-87: push_char asserts that the byte before the cursor *)
(* is c.  get_char does not advance at the end of a buffer source (line    *)
(* 77), so pushing back the '\0' it returned there rewinds over the last  *)
(* real byte and the SXEA1 assertion aborts.  A string source advances     *)
(* past its NUL and rewinds onto it.                                       *)
(***************************************************************************)
PushCharAborts(c, src) == c = Eof /\ src = "buffer"

Done(cs, ms, n) == [ok |-> TRUE, cells |-> cs, mores |-> ms, next |-> n, abort |-> FALSE]
Fail(ms)        == [ok |-> FALSE, cells |-> <<>>, mores |-> ms, next |-> 0, abort |-> FALSE]
Abort(ms)       == [ok |-> FALSE, cells |-> <<>>, mores |-> ms, next |-> 0, abort |-> TRUE]

\* A failure inside a nested call, after the expands ms of this one.
After(ms, r) == [r EXCEPT !.mores = ms \o r.mores]

(***************************************************************************)
(* The cells load_string, with result r, leaves for a complete string:   *)
(* the head, whose len the size function turns into                       *)
(* sxe_jitson_ident_size(len) cells (as elsewhere the head's len is       *)
(* abstracted to that count), and one cell per reservation after it.      *)
(***************************************************************************)
StringValue(r, key) ==
    [cells |-> <<[Cell("string", key) EXCEPT !.len = sxe_jitson_ident_size(r.len)]>>
               \o [k \in 1..(Len(r.mores) - 1) |-> Cell("cont", FALSE)],
     mores |-> r.mores]

(***************************************************************************)
(* sxe_jitson_stack_push_ident_at_index, sxe-jitson-ident.c lines 31-43,   *)
(* the hook load_json calls for an identifier: expand((len + 8) / 16) when *)
(* len >= 8, then an IDENT head cell.                                      *)
(***************************************************************************)
PushIdent(len) ==
    [cells |-> <<[Cell("ident", FALSE) EXCEPT !.len = sxe_jitson_ident_size(len)]>>
               \o [k \in 1..(PushIdentCells(len) - 1) |-> Cell("cont", FALSE)],
     mores |-> IF len >= StringSize THEN <<(len + StringSize) \div TokenSize>> ELSE <<>>]

\* Lines 410-412 and 441-443: an empty collection, integer 1.
Empty(type) == [Cell(type, FALSE) EXCEPT !.integer = 1]

\* Mutant: the span stored as count - index - 1.
ClosedOffByOne(type, a) == [Cell(type, FALSE) EXCEPT !.len = a.len, !.integer = Len(a.cells)]

\* Lines 430-432 and 456-458: the head of a closed collection of a.len
\* members whose cells a.cells follow it; integer = count - index.
Closed(type, a) == [Cell(type, FALSE) EXCEPT !.len = a.len, !.integer = 1 + Len(a.cells)]

\* An accumulator after one more member with cells cs and expands ms.
Grown(a, cs, ms) == [len |-> a.len + 1, cells |-> a.cells \o cs, mores |-> a.mores \o ms]

(***************************************************************************)
(* Lines 485-531, the ALP case: push back, get_identifier; a keyword is a  *)
(* bool or null cell; else the identifier becomes a copy of a registered  *)
(* constant (expand(size - 1) for the rest of its cells, then              *)
(* dup_at_index, whose clone result line 511 ignores), or the hook's       *)
(* identifier cell; else it falls through to INVALID.  The head cell was  *)
(* taken by the expand(1) of line 399.                                     *)
(***************************************************************************)
Identifier(t, i, f) ==
    LET n   == GetIdentifier(t, i)
        lex == SubSeq(t, i, i + n - 1)
        len == FoldLeft(LAMBDA a, tok : a + ByteLen(tok), 0, lex)
    IN  IF lex \in Keywords THEN Done(<<Scalar>>, <<1>>, i + n)
        ELSE IF constantsSet /\ "consts" \in f /\ lex \in DOMAIN Constants
        THEN LET size == Size(Constants[lex], 1)
             IN  Done(SubSeq(Constants[lex], 1, size), IF size > 1 THEN <<1, size - 1>> ELSE <<1>>, i + n)
        ELSE IF pushIdent /\ "idents" \in f
        THEN LET p == PushIdent(len) IN Done(p.cells, <<1>> \o p.mores, i + n)
        ELSE Fail(<<1>>)

\* Line 475: the base strtoul is given, 0 (any C literal) when hex is allowed.
Base(f) == IF "hex" \in f THEN 0 ELSE 10

(***************************************************************************)
(* Lines 465-483, the '-' and DIG cases: push back, get_number (NULL goes  *)
(* to ERROR with EINVAL); an unsigned integer is converted by strtoul and *)
(* anything else by strtod.  SXEA6 at lines 476 and 480 checks that the  *)
(* conversion used the whole lexeme: in a debug build the assertion       *)
(* aborts, in a release build the value the conversion stopped at is      *)
(* stored.  strtod reads the source past the lexeme, so "-0x1", which     *)
(* get_number ends after "-0", is read as a hexadecimal float.  A         *)
(* double's value is not modelled.                                         *)
(***************************************************************************)
Number(t, i, f) ==
    LET n == GetNumber(t, i, "hex" \in f)
        v == StrToUL(n.lex, Base(f))
        mismatch == IF n.uint THEN v.used # Len(n.lex) ELSE StrToDOverruns(t, n)
    IN  IF ~n.ok THEN Fail(<<1>>)
        ELSE IF mismatch /\ build = "debug" THEN Abort(<<1>>)
        ELSE IF ~n.uint THEN Done(<<Cell("double", FALSE)>>, <<1>>, n.next)
        ELSE Done(<<[Cell("uint", FALSE) EXCEPT !.integer = v.value]>>, <<1>>, n.next)

RECURSIVE ParseValue(_, _, _, _), Elements(_, _, _, _, _), Members(_, _, _, _, _)

(***************************************************************************)
(* sxe_jitson_stack_load_json, lines 383-539, on the value starting at     *)
(* token i of t, for a source with flags f of kind src.  Whitespace only   *)
(* returns before any expand (ENODATA); every other case starts with      *)
(* expand(1).  A string gives that cell back (count--) and load_string's  *)
(* own expand(1) takes it again without allocating, so a string's expands *)
(* are load_string's.  Every failure after the first expand goes through  *)
(* ERROR, which sets count back to index.                                  *)
(***************************************************************************)
ParseValue(t, i, f, src) ==
    LET c == Tok(t, i) IN
    IF c = Eof THEN Fail(<<>>)
    ELSE IF c \in StringTokens
    THEN LET s == StringValue(TextOf(c), FALSE) IN Done(s.cells, s.mores, i + 1)
    ELSE IF c \in DOMAIN BadStrings THEN Fail(LoadString(BadStrings[c]).mores)
    ELSE IF Class(c) = "object"
    THEN IF Tok(t, i + 1) = "}" THEN Done(<<Empty("object")>>, <<1>>, i + 2)
         ELSE Members(t, i + 1, f, src, [len |-> 0, cells |-> <<>>, mores |-> <<1>>])
    ELSE IF Class(c) = "array"
    THEN IF Tok(t, i + 1) = "]" THEN Done(<<Empty("array")>>, <<1>>, i + 2)
         ELSE IF PushCharAborts(Tok(t, i + 1), src) THEN Abort(<<1>>)
         ELSE Elements(t, i + 1, f, src, [len |-> 0, cells |-> <<>>, mores |-> <<1>>])
    ELSE IF Class(c) \in {"minus", "DIG"} THEN Number(t, i, f)
    ELSE IF Class(c) = "ALP" THEN Identifier(t, i, f)
    ELSE Fail(<<1>>)    \* the default class (line 529)

(***************************************************************************)
(* Lines 446-462: the do-while over the array's values, a.len counting     *)
(* them; after each, ',' continues, ']' closes, anything else is INVALID. *)
(***************************************************************************)
Elements(t, i, f, src, a) ==
    LET v == ParseValue(t, i, f, src)
    IN  IF ~v.ok THEN After(a.mores, v)
        ELSE LET b == Grown(a, v.cells, v.mores)
                 c == Tok(t, v.next)
             IN  IF c = "," THEN Elements(t, v.next + 1, f, src, b)
                 ELSE IF c = "]" THEN Done(<<Closed("array", b)>> \o b.cells, b.mores, v.next + 1)
                 ELSE Fail(b.mores)

(***************************************************************************)
(* Lines 415-435: each member is a name string loaded with IS_KEY, ':',    *)
(* and a value; after the value ',' continues with the next name (the     *)
(* '\0' that ends the loop condition at the end of the data is INVALID),  *)
(* '}' closes, anything else is INVALID.                                   *)
(***************************************************************************)
Members(t, i, f, src, a) ==
    LET c == Tok(t, i) IN
    IF c \in DOMAIN BadStrings THEN Fail(a.mores \o LoadString(BadStrings[c]).mores)
    ELSE IF c \notin StringTokens THEN Fail(a.mores)
    ELSE LET name == StringValue(TextOf(c), TRUE) IN
         IF Tok(t, i + 1) # ":" THEN Fail(a.mores \o name.mores)
         ELSE LET v == ParseValue(t, i + 2, f, src) IN
              IF ~v.ok THEN After(a.mores \o name.mores, v)
              ELSE LET b == Grown(a, name.cells \o v.cells, name.mores \o v.mores)
                       d == Tok(t, v.next)
                   IN  IF d = "," THEN Members(t, v.next + 1, f, src, b)
                       ELSE IF d = "}" THEN Done(<<Closed("object", b)>> \o b.cells, b.mores, v.next + 1)
                       ELSE Fail(b.mores)


\* The stack may hold earlier values and have grown; jitsons was allocated.
ParserInit ==
    /\ cells \in Before
    /\ maximum \in {m \in InitSizes : m >= Len(cells)}
    /\ jitsons = TRUE /\ open = 0 /\ ok = TRUE /\ crashed = FALSE
    /\ \/ \E call \in Calls : input = call[1] /\ flags = call[2] /\ api = "load_json"
       \/ \E t \in ParseInputs : input = t /\ flags = {} /\ api = "parse_json"
    /\ source \in IF api = "parse_json" THEN {"string"} ELSE Sources
    /\ jitsonFlags \in InitJitsonFlags /\ constantsSet = FALSE /\ pushIdent = FALSE
    /\ loaded = FALSE /\ failure = "none" /\ aborted = FALSE
    /\ text \in IF AnyString \in Range(input) THEN AllLoads ELSE {LoadHead}
    /\ identLen \in IF AnyIdent \in Range(input) THEN 1..MaxLen ELSE {0}
    \* An SXEA6 of Number can fail only with ALLOW_HEX (strtoul in base 0)
    \* or on an 'x' that strtod takes into a hexadecimal float, so the
    \* build matters only then.
    /\ build \in IF "hex" \in flags \cup jitsonFlags \/ \E j \in DOMAIN input : input[j] \in {"x", "X"}
                 THEN Builds ELSE {"release"}
    /\ consumed = 0

\* Line 553: parse_json's source takes sxe_jitson_flags; an application's
\* own source has the flags it was made with.
CallFlags == IF api = "parse_json" THEN jitsonFlags ELSE flags

\* Line 538 (and 332): count = index drops whatever the call appended.
Truncate(c, r) == c

(***************************************************************************)
(* sxe_jitson_stack_load_json called by the application (parse_json,      *)
(* lines 548-559, or a source of its own).  The caller does not load       *)
(* while a builder collection is open: load_json appends a value without   *)
(* counting it in the open collection.  The expands happen in order until  *)
(* one fails (ENOMEM) or divides by zero; if all succeed the call ends as  *)
(* the parse does: success, an input error, or the assertion abort.       *)
(***************************************************************************)
LoadJson ==
    /\ ~loaded /\ ~crashed /\ open = 0
    /\ LET r == ParseValue(input, 1, CallFlags, source) IN
       \/ \E k \in Outcomes(r.mores) :
            /\ Expands(r.mores, k)
            /\ IF k = Len(r.mores) /\ r.ok
               THEN cells' = cells \o r.cells /\ ok' = TRUE /\ failure' = "none" /\ consumed' = r.next - 1
               ELSE /\ cells' = Truncate(cells, r) /\ ok' = FALSE /\ consumed' = 0
                    /\ failure' = IF k < Len(r.mores) THEN "nomem" ELSE "input"
            /\ aborted' = (k = Len(r.mores) /\ r.abort)
            /\ UNCHANGED <<open, crashed>>
       \/ Crash(r.mores) /\ UNCHANGED <<failure, aborted, consumed>>
    /\ loaded' = TRUE /\ input' = <<>> /\ flags' = {}
    /\ UNCHANGED <<source, text, identLen, build, api, registryVars>>

\* get_jitson and clear, while the process runs.
StackCall(A) == ~aborted /\ A /\ UNCHANGED parserVars

(***************************************************************************)
(* sxe_jitson_stack_init (stack.c lines 59-65): registers the constants    *)
(* and allows them in sxe_jitson_flags.  An application may call it after  *)
(* earlier parses (test-sxe-jitson-ident.c does); the model's one call     *)
(* sees the registrations made before it, and nothing reads them after it, *)
(* so the action is taken before the call.  A second call with the same   *)
(* table (the model has one, Constants) would change nothing.              *)
(***************************************************************************)
StackInit ==
    /\ ~loaded /\ ~constantsSet
    /\ constantsSet' = TRUE
    /\ jitsonFlags' = jitsonFlags \cup {"consts"}
    /\ UNCHANGED <<vars, callVars, pushIdent>>

(***************************************************************************)
(* sxe_jitson_stack_fini (stack.c lines 67-72): frees the constants and   *)
(* clears jitson_constants but leaves ALLOW_CONSTS in sxe_jitson_flags;    *)
(* load_json tests jitson_constants first (line 506), so a later parse     *)
(* treats a constant's name as it would without the registration.        *)
(***************************************************************************)
StackFini ==
    /\ ~loaded /\ constantsSet
    /\ constantsSet' = FALSE
    /\ UNCHANGED <<vars, callVars, pushIdent, jitsonFlags>>

(***************************************************************************)
(* sxe_jitson_ident_register (ident.c lines 77-85): registers the          *)
(* identifier type (sxe-jitson.c, outside this tree; its cells are the    *)
(* model's "ident" cells), installs the parser hook and allows identifiers *)
(* in sxe_jitson_flags.  Called at initialization (line 75), once.         *)
(***************************************************************************)
IdentRegister ==
    /\ ~loaded /\ ~pushIdent
    /\ pushIdent' = TRUE
    /\ jitsonFlags' = jitsonFlags \cup {"idents"}
    /\ UNCHANGED <<vars, callVars, constantsSet>>

ParserNext ==
    \/ StackInit
    \/ StackFini
    \/ IdentRegister
    \/ LoadJson
    \/ StackCall(GetJitson)
    \/ StackCall(Clear)

ParserSpec == ParserInit /\ [][ParserNext]_allVars

-----------------------------------------------------------------------------
(***************************************************************************)
(* The reference: the JSON grammar of spec section 6 with the ALLOW_CONSTS *)
(* and ALLOW_IDENTS extensions, giving the tree of the value at the start *)
(* of the input.  A tree node is [t, size, items]; a string's size is the *)
(* spec's 1 + ceil((len - 7) / 16) cells (section 3).                      *)
(***************************************************************************)
Leaf(k, n)   == [t |-> k, size |-> n, items |-> <<>>]
Node(k, its) == [t |-> k, size |-> 0, items |-> its]

SpecStringCells(len) == IF len <= 7 THEN 1 ELSE 1 + (len - 7 + 15) \div 16

RefOk(tree, n) == [ok |-> TRUE, tree |-> tree, next |-> n]
RefFail        == [ok |-> FALSE, tree |-> Leaf("none", 0), next |-> 0]

\* The tree of the value whose head is c[i] (for a well formed value).
RECURSIVE Decode(_, _)
Decode(c, i) ==
    CASE c[i].type = "string" -> Leaf(IF c[i].key THEN "key" ELSE "string", c[i].len)
      [] c[i].type = "ident"  -> Leaf("ident", c[i].len)
      [] c[i].type = "uint"   -> Leaf("uint", c[i].integer)
      [] c[i].type = "double" -> Leaf("double", 1)
      [] c[i].type \in Colls  ->
           LET ch == Children(c, i + 1, i + c[i].integer)
           IN  Node(c[i].type, [k \in 1..Len(ch) |-> Decode(c, ch[k])])
      [] OTHER                -> Leaf("scalar", 1)

(***************************************************************************)
(* Spec 4.1, get_number: an optional '-', digits, an optional '.' and      *)
(* digits, an optional exponent; or, with ALLOW_HEX, "0x" and at least one *)
(* hexadecimal digit.  The reader takes the longest prefix that can still *)
(* grow into a number, and fails when that prefix is not a number.        *)
(***************************************************************************)
DecimalChars == {"0", "1", "2", "3", "4", "5", "6", "7", "8", "9"}
HexChars     == DecimalChars \cup {"a", "b", "c", "d", "e", "f", "A", "B", "C", "D", "E", "F"}

AllIn(s, A)  == Len(s) >= 1 /\ \A k \in DOMAIN s : s[k] \in A

\* The first index at or after j of s that is not a decimal digit.
RECURSIVE DigitSpan(_, _)
DigitSpan(s, j) == IF j <= Len(s) /\ s[j] \in DecimalChars THEN DigitSpan(s, j + 1) ELSE j

\* s is sign \o int \o frac \o exp; the parts are fixed by their first
\* characters, the integer part being the digits after the sign.
IsDecimal(s) ==
    LET p1  == IF Len(s) >= 1 /\ s[1] = "-" THEN 1 ELSE 0
        p2  == DigitSpan(s, p1 + 1) - 1
        p3  == IF p2 < Len(s) /\ s[p2 + 1] = "." THEN DigitSpan(s, p2 + 2) - 1 ELSE p2
        exp == SubSeq(s, p3 + 1, Len(s))
    IN  /\ p2 > p1
        /\ p3 = p2 \/ p3 > p2 + 1
        /\ \/ exp = <<>>
           \/ /\ Head(exp) \in {"e", "E"}
              /\ \/ AllIn(Tail(exp), DecimalChars)
                 \/ Len(exp) >= 2 /\ exp[2] \in {"-", "+"} /\ AllIn(Tail(Tail(exp)), DecimalChars)

IsHex(s) == Len(s) >= 3 /\ s[1] = "0" /\ s[2] = "x" /\ AllIn(SubSeq(s, 3, Len(s)), HexChars)

IsNumber(s, hex) == IsDecimal(s) \/ (hex /\ IsHex(s))

\* Unsigned exactly when there is no sign, fraction or exponent.
IsUint(s, hex) == (hex /\ IsHex(s)) \/ (IsDecimal(s) /\ \A k \in DOMAIN s : s[k] \in DecimalChars)

\* The length of the run of characters a number can contain, from token i.
RECURSIVE NumberRun(_, _)
NumberRun(t, i) ==
    IF i <= Len(t) /\ t[i] \in HexChars \cup {"-", "+", ".", "x"} THEN 1 + NumberRun(t, i + 1) ELSE 0

\* Spec 4.5.2: an unsigned integer is converted by strtoul, with base 0 when
\* ALLOW_HEX is set and base 10 otherwise.
RefNumber(t, i, f) ==
    LET hex    == "hex" \in f
        r      == NumberRun(t, i)
        Viable(k) == LET p == SubSeq(t, i, i + k - 1) IN IsNumber(p, hex) \/ IsNumber(Append(p, "0"), hex)
        m      == CHOOSE m \in 0..r : (\A k \in 1..m : Viable(k)) /\ (m = r \/ ~Viable(m + 1))
        lex    == SubSeq(t, i, i + m - 1)
    IN  IF ~IsNumber(lex, hex) THEN RefFail
        ELSE IF IsUint(lex, hex) THEN RefOk(Leaf("uint", StrToUL(lex, IF hex THEN 0 ELSE 10).value), i + m)
        ELSE RefOk(Leaf("double", 1), i + m)

(***************************************************************************)
(* Spec 4.1, get_identifier: the maximal run of underscores, digits and   *)
(* letters (and of IdentExtra) from a first byte that is not a digit.     *)
(***************************************************************************)
RefIdentChars == {c \in DOMAIN Ascii : Ascii[c] \in (48..57) \cup (65..90) \cup {95} \cup (97..122)}
                 \cup IdentExtra \cup {AnyIdent}

RECURSIVE RefIdentRun(_, _)
RefIdentRun(t, i) == IF i <= Len(t) /\ t[i] \in RefIdentChars THEN 1 + RefIdentRun(t, i + 1) ELSE 0

RefIdentifier(t, i, f) ==
    LET n   == RefIdentRun(t, i)
        lex == SubSeq(t, i, i + n - 1)
        len == FoldLeft(LAMBDA a, tok : a + ByteLen(tok), 0, lex)
    IN  IF lex \in Keywords THEN RefOk(Leaf("scalar", 1), i + n)
        ELSE IF "consts" \in f /\ constantsSet /\ lex \in DOMAIN Constants
        THEN RefOk(Decode(Constants[lex], 1), i + n)
        ELSE IF "idents" \in f /\ pushIdent THEN RefOk(Leaf("ident", SpecStringCells(len)), i + n)
        ELSE RefFail

RECURSIVE RefValue(_, _, _), RefItems(_, _, _, _), RefMembers(_, _, _, _)
RefValue(t, i, f) ==
    LET c == Tok(t, i) IN
    IF c \in StringTokens THEN RefOk(Leaf("string", SpecStringCells(TextOf(c).len)), i + 1)
    ELSE IF c = "-" \/ c \in DecimalChars THEN RefNumber(t, i, f)
    ELSE IF c \in RefIdentChars \ (DecimalChars \cup IdentExtra) THEN RefIdentifier(t, i, f)
    ELSE IF c = "[" /\ Tok(t, i + 1) = "]" THEN RefOk(Node("array", <<>>), i + 2)
    ELSE IF c = "[" THEN RefItems(t, i + 1, f, <<>>)
    ELSE IF c = "{" /\ Tok(t, i + 1) = "}" THEN RefOk(Node("object", <<>>), i + 2)
    ELSE IF c = "{" THEN RefMembers(t, i + 1, f, <<>>)
    ELSE RefFail

\* value ("," value)* "]"
RefItems(t, i, f, its) ==
    LET v == RefValue(t, i, f) IN
    IF ~v.ok THEN RefFail
    ELSE IF Tok(t, v.next) = "," THEN RefItems(t, v.next + 1, f, Append(its, v.tree))
    ELSE IF Tok(t, v.next) = "]" THEN RefOk(Node("array", Append(its, v.tree)), v.next + 1)
    ELSE RefFail

\* string ":" value ("," string ":" value)* "}"
RefMembers(t, i, f, its) ==
    IF Tok(t, i) \notin StringTokens \/ Tok(t, i + 1) # ":" THEN RefFail
    ELSE LET key == Leaf("key", SpecStringCells(TextOf(Tok(t, i)).len))
             v   == RefValue(t, i + 2, f)
             its2 == its \o <<key, v.tree>>
         IN  IF ~v.ok THEN RefFail
             ELSE IF Tok(t, v.next) = "," THEN RefMembers(t, v.next + 1, f, its2)
             ELSE IF Tok(t, v.next) = "}" THEN RefOk(Node("object", its2), v.next + 1)
             ELSE RefFail

-----------------------------------------------------------------------------
(***************************************************************************)
(* A load_json call that did not run out of memory succeeds exactly when   *)
(* its input starts with a value of the grammar the source's flags allow,  *)
(* and then appends one value after the earlier ones, which it leaves as   *)
(* they were: a well formed value whose span, as the size function reads   *)
(* it, covers exactly the cells the call appended, and which decodes to    *)
(* the grammar's tree.  This relates the recursion's bookkeeping (the     *)
(* count-- of the string case, len++ per member, count - index at close,  *)
(* the cells load_string and the identifier hook reserve, the copy of a   *)
(* constant) to what readers of the cells will see.                        *)
(***************************************************************************)
ParsedAsGrammar ==
    [][~loaded /\ loaded' /\ ~crashed' /\ ~aborted' /\ failure' # "nomem" =>
         LET ref == RefValue(input, 1, CallFlags)
             b   == Len(cells) + 1
         IN  /\ ok' = ref.ok
             /\ ok' => /\ consumed' = ref.next - 1
                       /\ Len(cells') >= b
                       /\ SubSeq(cells', 1, Len(cells)) = cells
                       /\ WellFormed(cells', b)
                       /\ b + Size(cells', b) - 1 = Len(cells')
                       /\ Decode(cells', b) = ref.tree]_allVars

(***************************************************************************)
(* Spec section 7: input errors are recoverable, and only programmer       *)
(* errors end in a fatal assertion.  No input, on either kind of source,   *)
(* makes load_json trip the SXEA1 assertion in push_char.                  *)
(***************************************************************************)
InputErrorsRecoverable == ~aborted

(***************************************************************************)
(* A string of any length is laid out alike by the parser and the builder: *)
(* the cells load_string reserves for AnyString's text, character by      *)
(* character, are the cells sxe_jitson_stack_push_string computes from    *)
(* the length, and the cells the size function steps over.                 *)
(***************************************************************************)
LayoutsAgree ==
    /\ Len(text.mores) = PushStringCells(text.len)
    /\ PushStringCells(text.len) = sxe_jitson_ident_size(text.len)
=============================================================================
