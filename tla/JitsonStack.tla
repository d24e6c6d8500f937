----------------------------- MODULE JitsonStack -----------------------------
(***************************************************************************)
(* The jitson stack and its builder interface                              *)
(* (src/lib-sxe-jitson/sxe-jitson-stack.c lines 74-205, 561-901).          *)
(*                                                                         *)
(* A stack is a growable array of 16-byte cells: `maximum` cells are       *)
(* allocated at `jitsons` (or jitsons is NULL), the first `count` are in   *)
(* use, and `open` is 1 + the index of the innermost collection under      *)
(* construction, or 0.  Builder calls append values to the open           *)
(* collection; close_collection writes the span size into the head cell   *)
(* and reopens the parent, whose index the head cell kept in its           *)
(* partial.collection field.  get_jitson hands the cells to the caller.    *)
(*                                                                         *)
(* Here `cells` is the sequence of the first count cells (cells[i] is the  *)
(* C index i-1).  A cell is abstracted to its type, the IS_KEY flag, len,  *)
(* the integer payload, and the partial.no_value / partial.collection     *)
(* fields it has while under construction.  Scalars (null, bool, number,   *)
(* uint, reference) are one cell and are not told apart.  A copied string  *)
(* of n cells is a head cell followed by n-1 "cont" cells; its len is      *)
(* abstracted to n, the cell count the size function derives from it;     *)
(* an identifier (sxe-jitson-ident.c) is laid out the same way.            *)
(* Allocation failure is a nondeterministic choice when OOM is TRUE.       *)
(* The SXEA1 assertions on the caller's use of the interface are guards:   *)
(* the model explores only calls the interface allows.                     *)
(***************************************************************************)
EXTENDS Naturals, Sequences, SequencesExt

CONSTANTS
    InitSizes,  \* init_size arguments of sxe_jitson_stack_new
    MaxIncr,    \* JITSON_STACK_MAX_INCR (4096 in the code)
    MaxCells,   \* bound on count
    NameCells,  \* cell counts of the strings the caller adds
    Dups,       \* finished values the caller duplicates into the stack
    OOM         \* TRUE if allocations may fail

ASSUME InitSizes \subseteq Nat /\ MaxIncr \in Nat \ {0} /\ OOM \in BOOLEAN

Colls == {"array", "object"}
Types == {"scalar", "uint", "double", "string", "ident", "cont"} \cup Colls

Cell(t, k) == [type |-> t, key |-> k, len |-> 0, integer |-> 0, noValue |-> FALSE, parent |-> 0]
Scalar     == Cell("scalar", FALSE)

\* The cells of a copied string of n cells; IS_KEY when k.
StringOf(n, k) == <<[Cell("string", k) EXCEPT !.len = n]>> \o [i \in 1..(n - 1) |-> Cell("cont", FALSE)]

\* The size in cells of the value whose head is c[i] (sxe_jitson_size).
Size(c, i) ==
    CASE c[i].type \in {"string", "ident"} -> c[i].len
      [] c[i].type \in Colls               -> c[i].integer
      [] OTHER                             -> 1

VARIABLES
    cells,      \* stack->jitsons[0 .. count-1]
    maximum,    \* stack->maximum
    jitsons,    \* stack->jitsons # NULL
    open,       \* stack->open
    ok,         \* the result of the last call
    crashed     \* the last call divided by zero

vars == <<cells, maximum, jitsons, open, ok, crashed>>

(***************************************************************************)
(* sxe_jitson_stack_expand, lines 173-205.  Grow is the new maximum when   *)
(* `expanded` cells do not fit; CapAfter is the maximum after a series of *)
(* expand calls of sizes `mores` from count c.                             *)
(***************************************************************************)
\* Mutant: rounding down instead of up when growing.
GrowRoundDown(m, e) ==
    IF e < MaxIncr THEN ((e - 1) \div m) * m
    ELSE ((e - 1) \div MaxIncr) * MaxIncr

Grow(m, e) ==
    IF e < MaxIncr THEN ((e - 1) \div m + 1) * m
    ELSE ((e - 1) \div MaxIncr + 1) * MaxIncr

RECURSIVE CapAfter(_, _, _)
CapAfter(m, c, mores) ==
    IF mores = <<>> THEN m
    ELSE LET e == c + Head(mores)
         IN  CapAfter(IF e > m THEN Grow(m, e) ELSE m, e, Tail(mores))

RECURSIVE SumSeq(_)
SumSeq(s) == IF s = <<>> THEN 0 ELSE Head(s) + SumSeq(Tail(s))

\* The k-th of the calls `mores` has to allocate (realloc, or the lazy malloc).
Allocates(mores, k) ==
    LET before == SubSeq(mores, 1, k - 1)
        c      == Len(cells) + SumSeq(before)
    IN  \/ c + mores[k] > CapAfter(maximum, Len(cells), before)
        \/ k = 1 /\ ~jitsons

\* The k-th call computes a new maximum with maximum = 0: line 182 divides by 0.
DividesByZero(mores, k) ==
    LET before == SubSeq(mores, 1, k - 1)
        c      == Len(cells) + SumSeq(before)
    IN  c + mores[k] > CapAfter(maximum, Len(cells), before)
        /\ CapAfter(maximum, Len(cells), before) = 0
        /\ c + mores[k] < MaxIncr

(***************************************************************************)
(* The outcomes of calling expand for each of `mores` in turn, stopping at *)
(* the first failure: Expands(mores, k) when the first k calls succeed     *)
(* (k = Len(mores): all do).  Failure needs an allocation.                 *)
(***************************************************************************)
Outcomes(mores) ==
    {k \in 0..Len(mores) :
        /\ Len(cells) + SumSeq(SubSeq(mores, 1, k)) <= MaxCells
        /\ \A j \in 1..k : ~DividesByZero(mores, j)
        /\ k < Len(mores) => OOM /\ Allocates(mores, k + 1) /\ ~DividesByZero(mores, k + 1)}

Expands(mores, k) ==
    /\ maximum' = CapAfter(maximum, Len(cells), SubSeq(mores, 1, k))
    /\ jitsons' = (jitsons \/ k > 0)

\* A call that reaches an expand dividing by zero (SIGFPE).
Crash(mores) ==
    /\ \E k \in 1..Len(mores) :
         /\ \A j \in 1..(k - 1) : ~DividesByZero(mores, j)
         /\ DividesByZero(mores, k)
         /\ Len(cells) + SumSeq(SubSeq(mores, 1, k)) <= MaxCells
    /\ crashed' = TRUE
    /\ UNCHANGED <<cells, maximum, jitsons, open, ok>>

Ones(n) == [i \in 1..n |-> 1]

TypeOK ==
    /\ cells \in Seq([type : Types, key : BOOLEAN, len : 0..MaxCells, integer : 0..MaxCells,
                      noValue : BOOLEAN, parent : 0..MaxCells])
    /\ Len(cells) <= MaxCells
    /\ maximum \in Nat /\ jitsons \in BOOLEAN
    /\ open \in 0..Len(cells)
    /\ ok \in BOOLEAN /\ crashed \in BOOLEAN

(***************************************************************************)
(* sxe_jitson_stack_new, lines 74-99: maximum = init_size and the cells    *)
(* are malloced; a stack exists only when that malloc returned non-NULL    *)
(* (malloc(0) may return a unique pointer).                                *)
(***************************************************************************)
Init ==
    /\ cells = <<>>
    /\ maximum \in InitSizes
    /\ jitsons = TRUE
    /\ open = 0
    /\ ok = TRUE
    /\ crashed = FALSE

-----------------------------------------------------------------------------
(***************************************************************************)
(* sxe_jitson_stack_add_value, lines 561-579, as used by open_collection   *)
(* and the add_<scalar> calls: expand by size, then len++ and no_value = 0 *)
(* on the open collection.  The asserts are the guard.                     *)
(***************************************************************************)
CanAddValue ==
    /\ open # 0
    /\ cells[open].type = "array" \/ cells[open].noValue

Counted(c) == [c EXCEPT ![open].len = @ + 1, ![open].noValue = FALSE]

(***************************************************************************)
(* sxe_jitson_stack_open_collection, lines 588-607.                        *)
(***************************************************************************)
OpenCollection(t) ==
    /\ ~crashed
    /\ open # 0 => CanAddValue
    /\ \/ \E k \in Outcomes(<<1>>) :
            /\ Expands(<<1>>, k)
            /\ IF k = 1
               THEN LET base == IF open # 0 THEN Counted(cells) ELSE cells
                    IN  /\ cells' = Append(base, [Cell(t, FALSE) EXCEPT !.parent = open])
                        /\ open' = Len(cells) + 1
                        /\ ok' = TRUE
               ELSE /\ ok' = FALSE /\ UNCHANGED <<cells, open>>
            /\ UNCHANGED <<crashed>>
       \/ Crash(<<1>>)

(***************************************************************************)
(* sxe_jitson_stack_push_string, lines 620-667, for a copied string of n   *)
(* cells: an expand per cell; an expand failing after k cells returns     *)
(* false with the k cells left on the stack.  The head's len is the full  *)
(* length from the first cell on.  IS_REF strings are the n = 1 case.      *)
(***************************************************************************)
PushString(base, n, key, counted) ==
    \/ \E k \in Outcomes(Ones(n)) :
         /\ Expands(Ones(n), k)
         /\ IF k = n
            THEN /\ cells' = (IF counted THEN [base EXCEPT ![open].len = @ + 1] ELSE base)
                              \o StringOf(n, key)
                 /\ ok' = TRUE
            ELSE /\ cells' = base \o SubSeq(StringOf(n, key), 1, k)
                 /\ ok' = FALSE
         /\ UNCHANGED <<open, crashed>>
    \/ Crash(Ones(n))

\* Mutant: the member name is pushed without setting no_value.
AddMemberNameNoFlag(n) ==
    /\ ~crashed
    /\ open # 0 /\ cells[open].type = "object" /\ ~cells[open].noValue
    /\ PushString(cells, n, TRUE, FALSE)

(***************************************************************************)
(* sxe_jitson_stack_add_member_name, lines 678-690: set no_value, then     *)
(* push the name with IS_KEY.                                              *)
(***************************************************************************)
AddMemberName(n) ==
    /\ ~crashed
    /\ open # 0 /\ cells[open].type = "object" /\ ~cells[open].noValue
    /\ PushString([cells EXCEPT ![open].noValue = TRUE], n, TRUE, FALSE)

(***************************************************************************)
(* sxe_jitson_stack_add_string, lines 701-719: clear no_value, push the    *)
(* string, and count it if the push succeeded.                             *)
(***************************************************************************)
AddString(n) ==
    /\ ~crashed
    /\ CanAddValue
    /\ PushString([cells EXCEPT ![open].noValue = FALSE], n, FALSE, TRUE)

(***************************************************************************)
(* sxe_jitson_stack_add_null/_bool/_number/_uint/_reference, lines         *)
(* 728-818: add_value(1) and make the scalar in the new cell.              *)
(***************************************************************************)
AddScalar ==
    /\ ~crashed
    /\ CanAddValue
    /\ \/ \E k \in Outcomes(<<1>>) :
            /\ Expands(<<1>>, k)
            /\ IF k = 1 THEN cells' = Append(Counted(cells), Scalar) /\ ok' = TRUE
               ELSE ok' = FALSE /\ UNCHANGED cells
            /\ UNCHANGED <<open, crashed>>
       \/ Crash(<<1>>)

(***************************************************************************)
(* sxe_jitson_stack_add_dup, lines 828-838 (with dup_at_index, 338-345):   *)
(* add_value(size) and copy the value's cells.                             *)
(***************************************************************************)
AddDup(d) ==
    /\ ~crashed
    /\ CanAddValue
    /\ LET size == Size(d, 1) IN
       \/ \E k \in Outcomes(<<size>>) :
            /\ Expands(<<size>>, k)
            /\ IF k = 1 THEN cells' = Counted(cells) \o SubSeq(d, 1, size) /\ ok' = TRUE
               ELSE ok' = FALSE /\ UNCHANGED cells
            /\ UNCHANGED <<open, crashed>>
       \/ Crash(<<size>>)

(***************************************************************************)
(* sxe_jitson_stack_add_dup_members, lines 848-878: copy the member cells  *)
(* of object d after the open object and add its member count to len.      *)
(***************************************************************************)
AddDupMembers(d) ==
    /\ ~crashed
    /\ d[1].type = "object"
    /\ open # 0 /\ cells[open].type = "object" /\ ~cells[open].noValue
    /\ IF d[1].len = 0
       THEN ok' = TRUE /\ UNCHANGED <<cells, maximum, jitsons, open, crashed>>
       ELSE LET size == Size(d, 1) - 1 IN
            \/ \E k \in Outcomes(<<size>>) :
                 /\ Expands(<<size>>, k)
                 /\ IF k = 1
                    THEN /\ cells' = [cells EXCEPT ![open].len = @ + d[1].len] \o SubSeq(d, 2, size + 1)
                         /\ ok' = TRUE
                    ELSE ok' = FALSE /\ UNCHANGED cells
                 /\ UNCHANGED <<open, crashed>>
            \/ Crash(<<size>>)

(***************************************************************************)
(* The values the add_member_<type> calls of sxe-jitson.h add after the    *)
(* name: <<call, cells>>.  add_member_string pushes a copied string (one  *)
(* expand per cell); null, bool, number, uint and reference one scalar     *)
(* cell, and dup the value's cells with one expand.                        *)
(***************************************************************************)
MemberValues ==
    {<<"string", StringOf(m, FALSE)>> : m \in NameCells}
    \cup {<<"scalar", <<Scalar>>>>}
    \cup {<<"dup", SubSeq(d, 1, Size(d, 1))>> : d \in Dups}

ValueMores(v) == IF v[1] = "string" THEN Ones(Len(v[2])) ELSE <<Len(v[2])>>

(***************************************************************************)
(* sxe_jitson_stack_add_member_string/_null/_bool/_number/_uint/          *)
(* _reference/_dup (sxe-jitson.h lines 120-161): add_member_name && the    *)
(* add of the value.  A name that fails leaves no_value set and its pushed *)
(* cells.  A value that fails leaves the whole name: add_value fails       *)
(* before it counts the value or clears no_value, while add_string clears  *)
(* no_value before its push, so after a failed string value the object    *)
(* holds a name with no value that it neither counts nor flags.           *)
(***************************************************************************)
AddMember(n, v) ==
    /\ ~crashed
    /\ open # 0 /\ cells[open].type = "object" /\ ~cells[open].noValue
    /\ LET mores == Ones(n) \o ValueMores(v)
           name  == StringOf(n, TRUE)
       IN  \/ \E k \in Outcomes(mores) :
                /\ Expands(mores, k)
                /\ CASE k < n ->
                         cells' = [cells EXCEPT ![open].noValue = TRUE] \o SubSeq(name, 1, k)
                     [] k < Len(mores) ->
                         cells' = [cells EXCEPT ![open].noValue = (v[1] # "string")]
                                  \o name \o SubSeq(v[2], 1, k - n)
                     [] OTHER ->
                         cells' = Counted(cells) \o name \o v[2]
                /\ ok' = (k = Len(mores))
                /\ UNCHANGED <<open, crashed>>
           \/ Crash(mores)

(***************************************************************************)
(* sxe_jitson_stack_close_collection, lines 888-901: reopen the parent and *)
(* store the span size, count - index, in the head cell.                   *)
(***************************************************************************)
CloseCollection ==
    /\ ~crashed
    /\ open # 0 /\ ~cells[open].noValue
    /\ open' = cells[open].parent
    /\ cells' = [cells EXCEPT ![open].integer = Len(cells) - open + 1]
    /\ ok' = TRUE
    /\ UNCHANGED <<maximum, jitsons, crashed>>

(***************************************************************************)
(* sxe_jitson_stack_get_jitson, lines 108-126: shrink the cells to count   *)
(* with realloc and hand them over.  (With count = 0, realloc(p, 0) frees *)
(* p and the `?: stack->jitsons` fallback returns the freed block; the     *)
(* model records only that the stack no longer holds cells.)               *)
(***************************************************************************)
GetJitson ==
    /\ ~crashed
    /\ jitsons /\ open = 0
    /\ cells' = <<>> /\ jitsons' = FALSE
    /\ ok' = TRUE
    /\ UNCHANGED <<maximum, open, crashed>>

\* Mutant: clear resets the count but not the open collection.
ClearKeepOpen ==
    /\ ~crashed
    /\ cells' = <<>>
    /\ ok' = TRUE
    /\ UNCHANGED <<maximum, jitsons, open, crashed>>

(***************************************************************************)
(* sxe_jitson_stack_clear, lines 131-136.                                  *)
(***************************************************************************)
Clear ==
    /\ ~crashed
    /\ cells' = <<>> /\ open' = 0
    /\ ok' = TRUE
    /\ UNCHANGED <<maximum, jitsons, crashed>>

Next ==
    \/ \E t \in Colls : OpenCollection(t)
    \/ \E n \in NameCells : AddMemberName(n) \/ AddString(n)
    \/ AddScalar
    \/ \E d \in Dups : AddDup(d) \/ AddDupMembers(d)
    \/ \E n \in NameCells, v \in MemberValues : AddMember(n, v)
    \/ CloseCollection
    \/ GetJitson
    \/ Clear

Spec == Init /\ [][Next]_vars

-----------------------------------------------------------------------------
\* The indices of the values c[j], c[j + Size], ... that start before end.
RECURSIVE Children(_, _, _)
Children(c, j, end) ==
    IF j >= end \/ j > Len(c) THEN <<>>
    ELSE <<j>> \o Children(c, j + (IF Size(c, j) = 0 THEN 1 ELSE Size(c, j)), end)

(***************************************************************************)
(* The value whose head is c[i] is well formed: it lies inside c, a string *)
(* is followed by its continuation cells, and a collection's span is       *)
(* exactly its len members (name and value for an object), each well      *)
(* formed, the names carrying IS_KEY and the values not.                   *)
(***************************************************************************)
RECURSIVE WellFormed(_, _)
WellFormed(c, i) ==
    /\ i <= Len(c)
    /\ i + Size(c, i) - 1 <= Len(c)
    /\ CASE c[i].type \in {"scalar", "uint", "double"} -> TRUE
         [] c[i].type \in {"string", "ident"} ->
              \A k \in (i + 1)..(i + c[i].len - 1) : c[k].type = "cont"
         [] c[i].type \in Colls ->
              LET end  == i + c[i].integer
                  ch   == Children(c, i + 1, end)
                  per  == IF c[i].type = "object" THEN 2 ELSE 1
              IN  /\ c[i].integer >= 1
                  /\ Len(ch) = per * c[i].len
                  /\ ch = <<>> \/ ch[Len(ch)] + Size(c, ch[Len(ch)]) = end
                  /\ \A k \in 1..Len(ch) :
                       /\ WellFormed(c, ch[k])
                       /\ c[ch[k]].key = (c[i].type = "object" /\ k % 2 = 1)
                       /\ c[i].type = "object" /\ k % 2 = 1 => c[ch[k]].type = "string"
         [] OTHER -> FALSE

\* The collections under construction: open and its chain of parents.
RECURSIVE OpenChain(_)
OpenChain(o) == IF o = 0 THEN {} ELSE {o} \cup OpenChain(cells[o].parent)

(***************************************************************************)
(* Every used cell lies inside the allocated block: whatever mix of        *)
(* expand sizes, failed reallocations, get_jitson (which keeps the old     *)
(* maximum and drops the block) and lazy re-allocation happened, expand's  *)
(* rounding (lines 178-204) never leaves count above maximum.              *)
(***************************************************************************)
WithinCapacity ==
    jitsons => Len(cells) <= maximum

(***************************************************************************)
(* The builder keeps the stack consistent across any sequence of calls     *)
(* that succeed: the collections under construction form a chain of       *)
(* strictly decreasing indices through partial.collection, and every       *)
(* other collection was closed with a span that makes it well formed, so   *)
(* add_value's counting, no_value and close_collection's span agree.       *)
(***************************************************************************)
StackConsistent ==
    /\ open = 0 \/ (open <= Len(cells) /\ cells[open].type \in Colls)
    /\ \A o \in OpenChain(open) :
         cells[o].type \in Colls /\ cells[o].parent < o /\ cells[o].integer = 0
    /\ \A i \in 1..Len(cells) :
         cells[i].type \in Colls /\ i \notin OpenChain(open) => WellFormed(cells, i)

(***************************************************************************)
(* Section 7 of the spec: a builder call that fails for lack of memory     *)
(* leaves the stack as it was.                                             *)
(***************************************************************************)
FailedCallLeavesStack ==
    [][~ok' => cells' = cells /\ open' = open]_vars

(***************************************************************************)
(* The spec allows a stack of initial capacity 0; expand is never asked to *)
(* divide by a zero maximum.                                               *)
(***************************************************************************)
NoDivideByZero == ~crashed
=============================================================================
