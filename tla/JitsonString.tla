---------------------------- MODULE JitsonString ----------------------------
(***************************************************************************)
(* How a copied string is laid out in jitson cells                         *)
(* (src/lib-sxe-jitson/sxe-jitson-stack.c, sxe-jitson-ident.c).            *)
(*                                                                         *)
(* A cell is 16 bytes; a string's bytes start at offset 8 of its head cell *)
(* (the `string` member), so byte b of the string lies in cell             *)
(* (b + 8) \div 16 of its span, and a string of len bytes with its NUL     *)
(* needs CellOf(len) + 1 cells.                                            *)
(*                                                                         *)
(* The parser, sxe_jitson_stack_load_string, does not know the length in   *)
(* advance: it appends the bytes of each decoded character at              *)
(* string[len] and reserves one more cell on the stack when len enters     *)
(* the second half of a cell.  LoadString is that loop, folded over the    *)
(* characters of the string, where a character is 1 byte (plain or a      *)
(* simple escape) or the 1 to 3 UTF-8 bytes of a \uXXXX escape.  The byte  *)
(* values are abstracted away: only the count of bytes matters to the      *)
(* layout.  The result records len and the expand calls made, in order.    *)
(***************************************************************************)
EXTENDS Naturals, Sequences, SequencesExt

CONSTANTS
    Widths,     \* UTF-8 lengths of the characters the input may contain
    MaxLen      \* bound on the string length in bytes

ASSUME Widths \subseteq 1..3 /\ MaxLen \in Nat

TokenSize  == 16    \* SXE_JITSON_TOKEN_SIZE
StringSize == 8     \* SXE_JITSON_STRING_SIZE

\* The cell of a string's span holding byte b of the string.
CellOf(b) == (b + StringSize) \div TokenSize

(***************************************************************************)
(* The number of cells a string of len bytes occupies, as the size         *)
(* function of the identifier type computes it (sxe_jitson_ident_size,     *)
(* sxe-jitson-ident.c lines 53-57); the spec gives the same count for      *)
(* copied strings.                                                         *)
(***************************************************************************)
sxe_jitson_ident_size(len) == 1 + (len + StringSize) \div TokenSize

(***************************************************************************)
(* sxe_jitson_stack_push_string, lines 637-667: the cells a copied string  *)
(* of known length takes: one head cell holding 8 bytes, then one cell per *)
(* 16 bytes until the rest (with its NUL) fits.                            *)
(***************************************************************************)
\* Mutant: the loop of lines 657-666 stops only when the rest is below 16 - 1.
RECURSIVE PushRestLate(_)
PushRestLate(len) == IF len <= TokenSize THEN 1 ELSE 1 + PushRestLate(len - TokenSize)

RECURSIVE PushRest(_)
PushRest(len) == IF len < TokenSize THEN 1 ELSE 1 + PushRest(len - TokenSize)

PushStringCells(len) ==
    IF len < StringSize THEN 1 ELSE 1 + PushRest(len - StringSize)

(***************************************************************************)
(* sxe_jitson_stack_push_ident_at_index, sxe-jitson-ident.c lines 32-43:   *)
(* the head cell, plus (len + 8) / 16 more when len >= 8.                  *)
(***************************************************************************)
PushIdentCells(len) ==
    IF len >= StringSize THEN 1 + (len + StringSize) \div TokenSize ELSE 1

(***************************************************************************)
(* Line 315: whether the loop reserves a cell after storing the first     *)
(* byte of a character of width i, len1 being len after that byte.         *)
(***************************************************************************)
CrossesEdge(len1, i) ==
    LET edge == len1 % TokenSize
    IN  edge >= TokenSize \div 2 /\ edge < TokenSize \div 2 + i

\* Lines 215-225: expand(1) for the head cell, type string, len 0.
LoadHead == [len |-> 0, mores |-> <<1>>]

(***************************************************************************)
(* Lines 227-326, one iteration for a character of width i: store its     *)
(* first byte at string[len], expand(1) if CrossesEdge, then copy the     *)
(* remaining i - 1 bytes.                                                  *)
(***************************************************************************)
LoadStep(r, i) ==
    LET len1 == r.len + 1
    IN  [len   |-> len1 + (i - 1),
         mores |-> IF CrossesEdge(len1, i) THEN Append(r.mores, 1) ELSE r.mores]

(***************************************************************************)
(* sxe_jitson_stack_load_string, lines 212-329, for a string whose         *)
(* characters have the widths ws and that ends with its closing quote.     *)
(* The head cell and each reservation is one expand(1) (mores); the        *)
(* cells reserved are Len(mores).  The exits through ERROR (end of input,  *)
(* a bad escape, a failed expand) are taken by the parser model.           *)
(***************************************************************************)
LoadString(ws) == FoldLeft(LoadStep, LoadHead, ws)

(***************************************************************************)
(* What load_string makes of the strings of l bytes whose characters have  *)
(* widths in Widths, for l = 0..n: entry l + 1 of LoadTable(n) is the set  *)
(* of results, each string of l bytes being a shorter one and a last      *)
(* character.                                                              *)
(***************************************************************************)
RECURSIVE LoadTable(_)
LoadTable(n) ==
    IF n = 0 THEN <<{LoadHead}>>
    ELSE LET t == LoadTable(n - 1)
         IN  Append(t, UNION {{LoadStep(r, i) : r \in t[n - i + 1]} : i \in {w \in Widths : w <= n}})

\* Every result of load_string on a string of at most MaxLen bytes.
AllLoads == UNION Range(LoadTable(MaxLen))

=============================================================================
