--------------------------- MODULE MCJitsonParser ---------------------------
(***************************************************************************)
(* Model-checking instances of JitsonParser.  Every structure of up to     *)
(* five tokens over brackets, braces, ',' ':' and a short string is        *)
(* loaded with strict flags; every input of up to three pieces over all    *)
(* the token kinds is given to parse_json, after any registrations.        *)
(***************************************************************************)
EXTENDS JitsonParser

\* Sequences of at most n tokens of A.
SeqsOver(A, n) == UNION {[1..k -> A] : k \in 0..n}

\* The byte values of the characters the inputs use.
MCAscii ==
    [c \in {"0", "1", "2", "5", "8", "9"} |->
        CASE c = "0" -> 48 [] c = "1" -> 49 [] c = "2" -> 50 [] c = "5" -> 53 [] c = "8" -> 56 [] c = "9" -> 57]
    @@ [c \in {"-", "+", ".", ",", ":", ")"} |->
        CASE c = "-" -> 45 [] c = "+" -> 43 [] c = "." -> 46 [] c = "," -> 44 [] c = ":" -> 58 [] c = ")" -> 41]
    @@ [c \in {"[", "]", "{", "}", "_"} |->
        CASE c = "[" -> 91 [] c = "]" -> 93 [] c = "{" -> 123 [] c = "}" -> 125 [] c = "_" -> 95]
    @@ [c \in {"E", "N", "O"} |-> CASE c = "E" -> 69 [] c = "N" -> 78 [] c = "O" -> 79]
    @@ [c \in {"a", "e", "g", "h", "l", "n", "r", "t", "u", "x"} |->
        CASE c = "a" -> 97 [] c = "e" -> 101 [] c = "g" -> 103 [] c = "h" -> 104 [] c = "l" -> 108
          [] c = "n" -> 110 [] c = "r" -> 114 [] c = "t" -> 116 [] c = "u" -> 117 [] c = "x" -> 120]

\* "ab" (1 cell) and "abcdefgh" (8 bytes, 2 cells).
MCStrings    == [s1 |-> <<1, 1>>, s2 |-> [k \in 1..8 |-> 1]]
\* A bad escape after 8 bytes, when load_string has reserved a 2nd cell.
MCBadStrings == [sbad |-> [k \in 1..8 |-> 1]]

\* Words: runs of bytes with no space between them.
WTrue    == <<"t", "r", "u", "e">>
WNone    == <<"N", "O", "N", "E">>
WLength8 == <<"l", "e", "n", "g", "t", "h", "_", "8">>

\* The identifiers of test-sxe-jitson-ident.c; NONE is also a constant,
\* here with the value {"k": 0} so that its copy needs expand(size - 1).
MCConstants == [w \in {WNone} |-> <<[Cell("object", FALSE) EXCEPT !.integer = 3, !.len = 1],
                                    StringOf(1, TRUE)[1], Scalar>>]

\* Each piece is a token or a word; a call's input is its pieces joined.
MCStructure == {<<"{">>, <<"}">>, <<"[">>, <<"]">>, <<",">>, <<":">>, <<"s1">>}
MCTokens    == MCStructure \cup {<<"s2">>, <<"sbad">>, <<"1", "2">>, <<"1", ".">>, WTrue, WNone, WLength8, <<")">>}

\* Every branch of get_number, with and without ALLOW_HEX.
MCNumbers ==
    {<<"0">>, <<"1", "2">>, <<"-", "1">>, <<"1", ".", "5">>, <<"1", "e", "+", "2">>, <<"1", "E", "2">>,
     <<"1", ".">>, <<"1", "e">>, <<"1", "e", "-">>, <<"-">>, <<"-", "x">>, <<"0", "x", "1", "a">>, <<"0", "x">>,
     <<"0", "1", "0">>, <<"0", "9">>, <<"-", "0", "x", "1">>, <<"0", "0", "x", "1">>, <<"0", "e", "1">>,
     <<"1", ".", "5", ".">>, <<"0", "x", "E">>}

\* Identifier runs with digits, '_' and '.', and a keyword run on.
MCWords == {<<"x", ".", "1">>, <<"a", "_", "9">>, <<"x">>, WTrue \o <<".", "5">>, <<"_", "1">>}

\* w alone, in an array, and followed by another member.
Contexts(w) == {w, <<"[">> \o w \o <<"]">>, <<"[">> \o w \o <<",", "s1", "]">>}

MCLexCalls ==
    {<<c, f>> : c \in UNION {Contexts(w) : w \in MCNumbers}, f \in {{}, {"hex"}}}
    \cup {<<c, f>> : c \in UNION {Contexts(w) : w \in MCWords}, f \in {{}, {"idents"}}}

\* sx is a string of every length up to MaxLen, ix an identifier of every
\* length, as values, as names, and inside collections.
MCAnyCalls ==
    {<<<<"sx">>, {}>>, <<<<"[", "sx", ",", "s1", "]">>, {}>>, <<<<"{", "sx", ":", "sx", "}">>, {}>>,
     <<<<"ix">>, {"idents"}>>, <<<<"[", "ix", ",", "s1", "]">>, {"idents"}>>}

MCCalls ==
    {<<FlattenSeq(p), {}>> : p \in SeqsOver(MCStructure, 5)}
    \cup MCLexCalls
    \cup MCAnyCalls

\* parse_json on every input of up to three pieces, with the extensions
\* registered or not.
MCParseInputs == {FlattenSeq(p) : p \in SeqsOver(MCTokens, 3)}

(***************************************************************************)
(* The registrations matter only to a pending call whose source may allow *)
(* constants or identifiers: load_json tests each source flag together    *)
(* with the registration it needs (lines 506, 515), a load_json source    *)
(* without those flags ignores them, and after the call nothing reads     *)
(* them (both registrations need ~loaded).  States that differ only there *)
(* have the same futures and the same checks.                              *)
(***************************************************************************)
MCView ==
    <<vars, callVars,
      IF loaded \/ (api = "load_json" /\ flags \cap {"consts", "idents"} = {})
      THEN <<>> ELSE registryVars>>

MCBefore == {<<>>, <<Scalar>>}

\* The input of the utf8 finding: a string of 1, 2 and 3 byte characters.
MCUtf8Calls == {<<<<"sx">>, {}>>}

\* Truncated buffers: "[" alone, and a few inputs that do not end early.
MCBufferCalls == {<<t, {}>> : t \in SeqsOver({"[", "]", "s1"}, 3)}
=============================================================================
