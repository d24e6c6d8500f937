---------------------------- MODULE JitsonSource ----------------------------
(***************************************************************************)
(* The byte-level part of the jitson source reader,                        *)
(* src/lib-sxe-jitson/sxe-jitson-source.c, and the character classes the   *)
(* parser dispatches on (jitson_class, sxe-jitson-stack.c lines 347-371).  *)
(*                                                                         *)
(* A source is a sequence t of tokens.  A token is either one byte, a     *)
(* one-character string whose code Ascii gives, or a lexical item whose   *)
(* bytes do not matter to the reader (a quoted string, an identifier of   *)
(* unknown spelling).  get_char past the end returns '\0' (Eof).           *)
(***************************************************************************)
EXTENDS Naturals, Sequences, SequencesExt

CONSTANTS
    Ascii,      \* one-character token -> its byte value
    AnyIdent    \* a token standing for a run of identifier bytes

Eof == "\\0"

\* get_nonspace and get_char (lines 74-78, 97-106): the next token, or
\* '\0' at the end of the data.  Whitespace is not part of the tokens.
Tok(t, i) == IF i <= Len(t) THEN t[i] ELSE Eof

\* The byte value of a one-byte token, and 0 for any other.
Byte(tok) == IF tok \in DOMAIN Ascii THEN Ascii[tok] ELSE 0

\* isdigit and isxdigit of <ctype.h>, as sets of bytes.
Digits  == 48..57
XDigits == (48..57) \cup (65..70) \cup (97..102)

IsDigit(tok)  == Byte(tok) \in Digits
IsXDigit(tok) == Byte(tok) \in XDigits

(***************************************************************************)
(* Line 31: identifier_chars, a 256-bit little-endian bitmask.  Each      *)
(* 64-bit word is given as its four 16-bit parts, lowest first, so that   *)
(* the arithmetic stays within TLC's integers.                             *)
(***************************************************************************)
identifier_chars ==
    << <<0, 0, 16384, 1023>>,             \* 0x03FF400000000000
       <<65534, 34815, 65534, 2047>>,      \* 0x07FFFFFE87FFFFFE
       <<0, 0, 0, 0>>,
       <<0, 0, 0, 0>> >>

\* Line 125: identifier_chars[b >> 6] & (1UL << (b & 0x3f)).
IdentBit(b) ==
    LET w   == identifier_chars[b \div 64 + 1]
        bit == b % 64
    IN  (w[bit \div 16 + 1] \div 2^(bit % 16)) % 2 = 1

IsIdentChar(tok) == tok = AnyIdent \/ (tok \in DOMAIN Ascii /\ IdentBit(Ascii[tok]))

(***************************************************************************)
(* sxe_jitson_source_get_identifier, lines 118-129: the number of tokens  *)
(* of the maximal run of identifier bytes starting at token i.            *)
(***************************************************************************)
RECURSIVE GetIdentifier(_, _)
GetIdentifier(t, i) ==
    IF i <= Len(t) /\ IsIdentChar(t[i]) THEN 1 + GetIdentifier(t, i + 1) ELSE 0

\* The first token at or after j whose byte is not in the class bs.
RECURSIVE SkipWhile(_, _, _)
SkipWhile(t, j, bs) == IF j <= Len(t) /\ Byte(t[j]) \in bs THEN SkipWhile(t, j + 1, bs) ELSE j

NumInvalid         == [ok |-> FALSE, uint |-> FALSE, lex |-> <<>>, next |-> 0]
NumOk(t, i, j, u)  == [ok |-> TRUE, uint |-> u, lex |-> SubSeq(t, i, j - 1), next |-> j]

\* Lines 179-188: the hexadecimal digits after "0x", at least one.
HexDigits(t, i, j) ==
    LET h == SkipWhile(t, j, XDigits)
    IN  IF h - i <= 2 THEN NumInvalid ELSE NumOk(t, i, h, TRUE)

\* Lines 204-216: an optional exponent after the digits ending at j.
Exponent(t, i, j, u) ==
    IF Tok(t, j) \in {"E", "e"}
    THEN LET s == IF Tok(t, j + 1) \in {"-", "+"} THEN j + 2 ELSE j + 1
         IN  IF ~IsDigit(Tok(t, s)) THEN NumInvalid
             ELSE NumOk(t, i, SkipWhile(t, s, Digits), FALSE)
    ELSE NumOk(t, i, j, u)

(***************************************************************************)
(* sxe_jitson_source_get_number, lines 160-224, from token i (the '-' or  *)
(* first digit load_json pushed back), hex being SXE_JITSON_FLAG_ALLOW_HEX. *)
(* *number is the first byte of the number, so a '-' is never followed by *)
(* a hexadecimal part.                                                     *)
(***************************************************************************)
GetNumber(t, i, hex) ==
    LET neg == Tok(t, i) = "-"
        d   == IF neg THEN i + 1 ELSE i
    IN  IF ~IsDigit(Tok(t, d)) THEN NumInvalid
        ELSE IF hex /\ Tok(t, i) = "0" /\ Tok(t, d + 1) = "x" THEN HexDigits(t, i, d + 2)
        ELSE LET w == SkipWhile(t, d + 1, Digits)
             IN  IF Tok(t, w) = "."
                 THEN IF ~IsDigit(Tok(t, w + 1)) THEN NumInvalid
                      ELSE Exponent(t, i, SkipWhile(t, w + 1, Digits), FALSE)
                 ELSE Exponent(t, i, w, ~neg)

(***************************************************************************)
(* jitson_class (sxe-jitson-stack.c lines 347-371), for the classes the   *)
(* switch of load_json has a case for: '"', '{', '[', '-', DIG and ALP.   *)
(* Every other byte (INV, SYM, QOT, '(', ')', '}', ']') is the default.   *)
(***************************************************************************)
JitsonClass(b) ==
    CASE b = 34                                    -> "quote"
      [] b = 123                                   -> "object"
      [] b = 91                                    -> "array"
      [] b = 45                                    -> "minus"
      [] b \in 48..57                              -> "DIG"
      [] b \in (65..90) \cup {95} \cup (97..122)   -> "ALP"
      [] OTHER                                     -> "default"

-----------------------------------------------------------------------------
(***************************************************************************)
(* strtoul of the C library on the lexeme s: the value and the number of  *)
(* bytes used.  Base 0 takes "0x" followed by a hexadecimal digit as      *)
(* hexadecimal and a leading "0" as octal.                                 *)
(***************************************************************************)
DigitValue(tok) ==
    LET b == Byte(tok) IN
    CASE b \in 48..57  -> b - 48
      [] b \in 97..102 -> b - 87
      [] b \in 65..70  -> b - 55
      [] OTHER         -> 99

RECURSIVE DigitRun(_, _, _, _)
DigitRun(s, j, radix, acc) ==
    IF j <= Len(s) /\ IsXDigit(s[j]) /\ DigitValue(s[j]) < radix
    THEN DigitRun(s, j + 1, radix, [value |-> acc.value * radix + DigitValue(s[j]), used |-> j])
    ELSE acc

StrToUL(s, base) ==
    LET none == [value |-> 0, used |-> 0] IN
    IF base = 0 /\ Len(s) >= 3 /\ s[1] = "0" /\ s[2] \in {"x", "X"} /\ IsXDigit(s[3])
    THEN DigitRun(s, 1 + 2, 16, none)
    ELSE DigitRun(s, 1, IF base = 0 /\ s[1] = "0" THEN 8 ELSE 10, none)

(***************************************************************************)
(* Whether glibc's strtod, started at a lexeme n that get_number accepted *)
(* and is not an unsigned integer, reads past it.  Such a lexeme is a '-' *)
(* or a digit, digits, and a fraction and an exponent each with at least  *)
(* one digit; strtod's decimal reading stops where get_number stopped.     *)
(* The one difference is a hexadecimal float: after a sign, "0x" or "0X"  *)
(* followed by a hexadecimal digit, or by '.' and one.  get_number never  *)
(* reads 'x' after a '-', so it ends that number after "-0".               *)
(***************************************************************************)
StrToDOverruns(t, n) ==
    /\ n.lex = <<"-", "0">>
    /\ Tok(t, n.next) \in {"x", "X"}
    /\ \/ IsXDigit(Tok(t, n.next + 1))
       \/ Tok(t, n.next + 1) = "." /\ IsXDigit(Tok(t, n.next + 2))

=============================================================================
