\* Adds of fresh keys, finds and for_each, from initial sizes 0 and 1.
CONSTANTS
    k1 = k1
    k2 = k2
    k3 = k3
    e = e
    v1 = v1
    v2 = v2
    n1 = n1
    n2 = n2
    n3 = n3
    n4 = n4
    NULL = NULL
    Keys <- MCKeys
    Empty <- e
    Vals <- MCVals
    Nodes <- MCNodes
    HashRange <- MCHashRange
    InitSizes = {0, 1, 2}
    FreshKeys = TRUE
    KeyLens = {"len"}
SYMMETRY MCSymmetry
SPECIFICATION Spec
INVARIANT TypeOK
INVARIANT LoadBounded
INVARIANT NodesOwned
PROPERTY ImplementsMap
