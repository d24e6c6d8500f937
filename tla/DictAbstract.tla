---------------------------- MODULE DictAbstract ----------------------------
(***************************************************************************)
(* What sxe-dict promises its callers (src/lib-sxe-dict/sxe-dict.h and the *)
(* comments in sxe-dict.c): a finite map from keys to non-NULL values.     *)
(* add stores a value under a key that is not yet present; find returns    *)
(* the value stored under a key, or NULL; for_each presents every entry    *)
(* once; delete discards every entry.                                      *)
(***************************************************************************)
EXTENDS Naturals, Sequences, FiniteSets

CONSTANTS Keys, Vals, NULL

VARIABLES
    map,        \* the entries: key -> value, NULL where absent
    asked,      \* the key the last find was asked for
    found,      \* the result of the last find
    visited     \* the keys the last for_each presented, in order

absVars == <<map, asked, found, visited>>

Present == {k \in Keys : map[k] # NULL}

AbsInit ==
    /\ map = [k \in Keys |-> NULL]
    /\ asked \in Keys
    /\ found = NULL
    /\ visited = <<>>

Put(k, v) ==
    /\ map[k] = NULL
    /\ map' = [map EXCEPT ![k] = v]
    /\ UNCHANGED <<asked, found, visited>>

Get(k) ==
    /\ asked' = k
    /\ found' = map[k]
    /\ UNCHANGED <<map, visited>>

\* Every entry once, in some order.
Iterate ==
    /\ visited' \in {s \in [1..Cardinality(Present) -> Present] :
                       \A i, j \in DOMAIN s : i # j => s[i] # s[j]}
    /\ UNCHANGED <<map, asked, found>>

\* sxe_dict_delete ends the dictionary; the next sxe_dict_new starts empty.
Clear ==
    /\ map' = [k \in Keys |-> NULL]
    /\ asked' \in Keys /\ found' = NULL /\ visited' = <<>>

AbsNext ==
    \/ \E k \in Keys, v \in Vals : Put(k, v)
    \/ \E k \in Keys : Get(k)
    \/ Iterate
    \/ Clear

AbsSpec == AbsInit /\ [][AbsNext]_absVars
=============================================================================
