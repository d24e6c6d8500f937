------------------------------- MODULE MCDict -------------------------------
(***************************************************************************)
(* Model-checking instance of Dict: four keys (one of them the empty       *)
(* key), four nodes, hash values 0..3 (enough to tell buckets apart in    *)
(* tables of up to 4 buckets, and to collide in every table).             *)
(***************************************************************************)
EXTENDS Dict, TLC

CONSTANTS k1, k2, k3, e, v1, v2, n1, n2, n3, n4

MCKeys      == {k1, k2, k3, e}
MCVals      == {v1, v2}
MCNodes     == {n1, n2, n3, n4}
MCHashRange == 0..3

\* Nodes, values and the non-empty keys are interchangeable.
MCSymmetry == Permutations(MCNodes) \cup Permutations(MCVals) \cup Permutations({k1, k2, k3})
=============================================================================
