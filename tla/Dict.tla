-------------------------------- MODULE Dict --------------------------------
(***************************************************************************)
(* The open hash dictionary of src/lib-sxe-dict/sxe-dict.c.                *)
(*                                                                         *)
(* The table is an array of `size` bucket heads (or NULL when the          *)
(* dictionary was created with size 0 and nothing was added); each bucket *)
(* is a singly linked chain of nodes {next, key, len, value}.  Nodes are   *)
(* addresses in Nodes.  A key is a model value standing for its bytes;    *)
(* Empty is the key of length 0.  The hash (meiyan) is abstracted to an    *)
(* arbitrary function from keys to HashRange, chosen in Init, so every     *)
(* pattern of bucket collisions is explored.  add returns a pointer to the *)
(* new node's value, which the caller then sets to a non-NULL value; the   *)
(* model's Add includes that write.                                        *)
(***************************************************************************)
EXTENDS Naturals, Sequences, FiniteSets, Functions

CONSTANTS
    Keys,       \* the keys callers use
    Empty,      \* the key of zero bytes (a member of Keys)
    Vals,       \* non-NULL values callers store
    Nodes,      \* node addresses (bounds the number of entries)
    NULL,
    HashRange,  \* hash values
    InitSizes,  \* initial_size arguments of sxe_dict_new
    FreshKeys,  \* TRUE if callers add only keys that are not present
    KeyLens     \* how callers pass keyn: "len" (the length) or "zero" (0)

ASSUME Empty \in Keys /\ NULL \notin Nodes \cup Vals /\ FreshKeys \in BOOLEAN

Load   == 100   \* dic->load set by sxe_dict_new
Growth == 2     \* dic->growth set by sxe_dict_new

VARIABLES
    hash,       \* meiyan, fixed for the run
    live,       \* the dictionary exists: sxe_dict_new returned it, sxe_dict_delete not yet called
    table,      \* dic->table as a function 0..size-1 -> Nodes \cup {NULL}
    hasTable,   \* dic->table # NULL
    size,       \* dic->size
    count,      \* dic->count
    allocated,  \* nodes allocated by sxe_dict_node_new
    key, val, next, \* the node fields
    asked,      \* the key the last find was asked for
    found,      \* the result of the last find
    visited     \* the keys the last for_each presented, in order

vars == <<hash, live, table, hasTable, size, count, allocated, key, val, next, asked, found, visited>>

\* The chain starting at node n, following next (bounded by |Nodes|).
RECURSIVE ChainFrom(_, _, _)
ChainFrom(nxt, n, fuel) ==
    IF n = NULL \/ fuel = 0 THEN <<>> ELSE <<n>> \o ChainFrom(nxt, nxt[n], fuel - 1)

Chain(nxt, n) == ChainFrom(nxt, n, Cardinality(Nodes) + 1)

\* The nodes of buckets 0 .. sz-1 in the order the loops of lines 108-116
\* and 205-216 visit them.
RECURSIVE BucketOrder(_, _, _, _)
BucketOrder(tbl, nxt, i, sz) ==
    IF i >= sz THEN <<>> ELSE Chain(nxt, tbl[i]) \o BucketOrder(tbl, nxt, i + 1, sz)

\* Mutant: one bucket too many allocated.
EmptyTableOneMore(sz) == [i \in 0..sz |-> NULL]

EmptyTable(sz) == [i \in 0..(sz - 1) |-> NULL]

\* Mutant: > typed for >=.
OverloadedStrict(c, sz) == (c * 100) \div sz > Load

\* Lines 148-150: the load check sxe_dict_add makes on a collision.
Overloaded(c, sz) == (c * 100) \div sz >= Load

TypeOK ==
    /\ hash \in [Keys -> HashRange] /\ live \in BOOLEAN
    /\ size \in Nat /\ hasTable \in BOOLEAN
    /\ table \in [0..(size - 1) -> Nodes \cup {NULL}]
    /\ count \in 0..Cardinality(Nodes)
    /\ allocated \subseteq Nodes
    /\ key \in [Nodes -> Keys] /\ val \in [Nodes -> Vals \cup {NULL}]
    /\ next \in [Nodes -> Nodes \cup {NULL}]
    /\ asked \in Keys /\ found \in Vals \cup {NULL}
    /\ visited \in Seq(Keys)

(***************************************************************************)
(* sxe_dict_new, lines 59-70.                                              *)
(***************************************************************************)
Init ==
    /\ hash \in [Keys -> HashRange]
    /\ live = TRUE
    /\ size \in InitSizes
    /\ hasTable = (size # 0)
    /\ table = EmptyTable(size)
    /\ count = 0
    /\ allocated = {}
    /\ key = [n \in Nodes |-> Empty] /\ val = [n \in Nodes |-> NULL]
    /\ next = [n \in Nodes |-> NULL]
    /\ asked = Empty /\ found = NULL /\ visited = <<>>

\* Mutant: line 112 (k->next = 0) left out.
ReinsertOneKeepNext(tn, n, sz) ==
    LET b   == hash[key[n]] % sz
        nx  == tn[2]
    IN  IF tn[1][b] = NULL THEN <<[tn[1] EXCEPT ![b] = n], nx>>
        ELSE <<[tn[1] EXCEPT ![b] = n], [nx EXCEPT ![n] = tn[1][b]]>>

(***************************************************************************)
(* sxe_dict_reinsert_when_resizing, lines 85-98, after line 112 cleared    *)
(* the node's next: put node n at the head of its new bucket.  Reinsert    *)
(* folds it over the nodes in the order sxe_dict_resize visits them.       *)
(* Results are <<table, next>>.                                            *)
(***************************************************************************)
ReinsertOne(tn, n, sz) ==
    LET b   == hash[key[n]] % sz
        nx  == [tn[2] EXCEPT ![n] = NULL]
    IN  IF tn[1][b] = NULL THEN <<[tn[1] EXCEPT ![b] = n], nx>>
        ELSE <<[tn[1] EXCEPT ![b] = n], [nx EXCEPT ![n] = tn[1][b]]>>

RECURSIVE Reinsert(_, _, _)
Reinsert(tn, ns, sz) ==
    IF ns = <<>> THEN tn ELSE Reinsert(ReinsertOne(tn, Head(ns), sz), Tail(ns), sz)

(***************************************************************************)
(* sxe_dict_resize, lines 100-119: a new zeroed table of newsize buckets,  *)
(* every node of the old one reinserted, the old table freed.              *)
(***************************************************************************)
Resize(tbl, nxt, o, newsize) ==
    Reinsert(<<EmptyTable(newsize), nxt>>, BucketOrder(tbl, nxt, 0, o), newsize)

(***************************************************************************)
(* sxe_dict_add, lines 132-162, and the caller's store of v through the    *)
(* pointer it returns.  A first add to a table-less dictionary allocates  *)
(* one bucket; a key landing in a non-empty bucket resizes the table when  *)
(* the load count * 100 / size has reached Load; the node is appended at  *)
(* the tail of its bucket's chain.  strlen applies when keyn is 0, so both *)
(* ways of passing keyn add the same key.                                  *)
(***************************************************************************)
Add(k, v) ==
    /\ live
    /\ FreshKeys => \A n \in allocated : key[n] # k
    /\ \E n \in Nodes \ allocated :
       LET sz0  == IF hasTable THEN size ELSE 1
           tbl0 == IF hasTable THEN table ELSE EmptyTable(1)
           grow == tbl0[hash[k] % sz0] # NULL /\ Overloaded(count, sz0)
           sz1  == IF grow THEN sz0 * Growth ELSE sz0
           tn   == IF grow THEN Resize(tbl0, next, sz0, sz1) ELSE <<tbl0, next>>
           b    == hash[k] % sz1
           head == tn[1][b]
       IN  /\ size' = sz1
           /\ hasTable' = TRUE
           /\ IF head = NULL
              THEN /\ table' = [tn[1] EXCEPT ![b] = n]
                   /\ next' = [tn[2] EXCEPT ![n] = NULL]
              ELSE LET chain == Chain(tn[2], head) IN
                   /\ table' = tn[1]
                   /\ next' = [tn[2] EXCEPT ![chain[Len(chain)]] = n, ![n] = NULL]
           /\ allocated' = allocated \cup {n}
           /\ key' = [key EXCEPT ![n] = k]
           /\ val' = [val EXCEPT ![n] = v]
           /\ count' = count + 1
    /\ UNCHANGED <<hash, live, asked, found, visited>>

\* The value of the first node with key k in chain c, or NULL.
RECURSIVE FirstValue(_, _)
FirstValue(c, k) ==
    IF c = <<>> THEN NULL
    ELSE IF key[Head(c)] = k THEN val[Head(c)] ELSE FirstValue(Tail(c), k)

\* What lines 176-199 return for the key of keyn bytes kk.
Lookup(kk) ==
    IF ~hasTable THEN NULL
    ELSE FirstValue(Chain(next, table[hash[kk] % size]), kk)

(***************************************************************************)
(* sxe_dict_find, lines 173-200.  Unlike add, find does not apply strlen   *)
(* when keyn is 0: it hashes and compares zero bytes, i.e. it looks up the *)
(* empty key.                                                              *)
(***************************************************************************)
Find(k, how) ==
    /\ live
    /\ asked' = k
    /\ found' = Lookup(IF how = "zero" THEN Empty ELSE k)
    /\ UNCHANGED <<hash, live, table, hasTable, size, count, allocated, key, val, next, visited>>

(***************************************************************************)
(* sxe_dict_forEach, lines 202-217, with a callback that returns true.     *)
(***************************************************************************)
ForEach ==
    /\ live
    /\ LET order == IF hasTable THEN BucketOrder(table, next, 0, size) ELSE <<>>
       IN  visited' = [i \in DOMAIN order |-> key[order[i]]]
    /\ UNCHANGED <<hash, live, table, hasTable, size, count, allocated, key, val, next, asked, found>>

\* Mutant: the recursion on node->next (lines 49-50) left out.
NodeDeleteHead(n) == IF n = NULL THEN {} ELSE {n}

\* sxe_dict_node_delete, lines 45-55: the nodes it frees, n and,
\* recursively, the rest of n's chain.
NodeDelete(n) == Range(Chain(next, n))

(***************************************************************************)
(* sxe_dict_delete, lines 71-84: node_delete on every non-empty bucket,    *)
(* then the table and the dictionary freed.  A freed node's fields go back *)
(* to their initial values, the model's picture of an unallocated node,  *)
(* and what the caller saw of the deleted dictionary is forgotten.         *)
(***************************************************************************)
Delete ==
    /\ live
    /\ LET freed == UNION {NodeDelete(table[i]) : i \in 0..(size - 1)}
       IN  /\ allocated' = allocated \ freed
           /\ key' = [n \in Nodes |-> IF n \in freed THEN Empty ELSE key[n]]
           /\ val' = [n \in Nodes |-> IF n \in freed THEN NULL ELSE val[n]]
           /\ next' = [n \in Nodes |-> IF n \in freed THEN NULL ELSE next[n]]
    /\ live' = FALSE
    /\ hasTable' = FALSE /\ size' = 0 /\ table' = EmptyTable(0) /\ count' = 0
    /\ asked' = Empty /\ found' = NULL /\ visited' = <<>>
    /\ UNCHANGED hash

(***************************************************************************)
(* sxe_dict_new, lines 59-70, called again after the delete.  Nodes the    *)
(* delete did not free stay allocated.                                     *)
(***************************************************************************)
New(initial_size) ==
    /\ ~live
    /\ live' = TRUE
    /\ size' = initial_size
    /\ hasTable' = (initial_size # 0)
    /\ table' = EmptyTable(initial_size)
    /\ count' = 0
    /\ UNCHANGED <<hash, allocated, key, val, next, asked, found, visited>>

Next ==
    \/ \E k \in Keys, v \in Vals : Add(k, v)
    \/ \E k \in Keys, how \in KeyLens : Find(k, how)
    \/ ForEach
    \/ Delete
    \/ \E s \in InitSizes : New(s)

Spec == Init /\ [][Next]_vars

-----------------------------------------------------------------------------
\* The entries as callers see them: what find returns for each key.
Entries == [k \in Keys |-> Lookup(k)]

Abstract == INSTANCE DictAbstract WITH map <- Entries

(***************************************************************************)
(* The dictionary implements the map of DictAbstract: under any pattern of *)
(* hash collisions, adds that append to chains and resizes that reverse    *)
(* them, find returns the value last stored under the key it was asked     *)
(* for, no stored value changes without an add of its key, and for_each    *)
(* presents each entry exactly once.                                       *)
(***************************************************************************)
ImplementsMap == Abstract!AbsSpec

(***************************************************************************)
(* The load check of sxe_dict_add (lines 147-151) keeps the table from     *)
(* filling: with load 100 and growth 2 there are always fewer than twice   *)
(* as many entries as buckets, although an add into an empty bucket never *)
(* checks the load.                                                        *)
(***************************************************************************)
LoadBounded ==
    hasTable => count < Growth * size

(***************************************************************************)
(* Every node sxe_dict_node_new allocated lies at exactly one place on the *)
(* chains of the live dictionary's table, and none is allocated while no   *)
(* dictionary exists: appends to a chain's tail, resizes that reinsert and *)
(* reverse chains, and the recursive frees of sxe_dict_delete neither      *)
(* leak a node nor free one twice.                                         *)
(***************************************************************************)
NodesOwned ==
    LET order == IF live THEN BucketOrder(table, next, 0, size) ELSE <<>>
    IN  /\ IsInjective(order)
        /\ Range(order) = allocated
=============================================================================
